-------------------------- MODULE OrderSerial_proofs --------------------------
(***************************************************************************)
(* With one task at a time, for any orders, decisions, stop levels and     *)
(* bounds, and across crashes and lost calls: journal and published trades *)
(* implement OrderLife, a fill is counted once, a stop that counts as      *)
(* confirmed is at the broker, and what is tracked agrees with what the    *)
(* broker holds once every deal is applied.                                *)
(*                                                                         *)
(* The argument: while a task is under way only the broker moves, so that  *)
(* what a task was answered and what it knew when it asked still hold when *)
(* it goes on, up to what the broker does by itself (AtPoint, Answered).   *)
(* What is tracked of an order then fits its tickets (Fits) and the deals  *)
(* that were applied (Counted), and the journal differs from memory only   *)
(* where an order has ended and is yet to be saved (Behind).               *)
(***************************************************************************)
EXTENDS OrderManager_proofs

Filled == {"position", "closed"}

(* The call a task waits for at each of its points. *)
Call(pc) ==
    CASE pc \in {"find_position", "confirm", "stop_check", "close_list"} -> "open_positions"
      [] pc \in {"find_order", "expire_check", "cancel_list"} -> "pending_orders"
      [] pc = "place" -> "place"
      [] pc \in {"stop_set", "tighten"} -> "modify"
      [] pc \in {"expire_cancel", "cancel_one", "cancel_request", "demote_cancel_one"} -> "cancel"
      [] pc \in {"stop_close", "close_one", "close_request", "demote_close_one"} -> "close"
      [] pc = "deals" -> "deals"
      [] OTHER -> "none"

(* What a task with local state t knows of the orders when nothing else runs: they are as they
   were when it looked. *)
AtPoint(ord, t) ==
    /\ t.op = Call(t.pc)
    /\ t.pc \in SendPoints => ord[t.o].st = "sending"
    /\ t.pc \in {"expire_cancel", "expire_check"} => ord[t.o].st = "pending" /\ t.o \in Timed
    /\ t.pc \in {"expire_next", "expire_cancel", "expire_check"} => t.todo \subseteq Timed
    /\ t.pc \in {"cancel_request", "demote_cancel_one"} => ord[t.o].st = "pending"
    /\ t.pc \in {"demote_cancel", "demote_cancel_one"} => \A o \in t.todo : ord[o].st = "pending"
    /\ t.pc = "demote_cancel_one" => t.o \notin t.todo
    /\ t.pc \in ConfirmPoints \union {"tighten"} => ord[t.o].st = "open"
    /\ t.pc = "stop_set" => t.k = ord[t.o].pos /\ t.sl = ord[t.o].sl
    /\ t.pc = "tighten" => t.k = ord[t.o].pos /\ t.sl > ord[t.o].sl
    /\ t.op = "cancel" => t.o \in Orders /\ t.k \in Attempts

(* The answer lists a position of the task's order under attempt k. *)
Finds(t, k) == \E s \in 0..MaxSl : <<<<t.o, k>>, s>> \in t.ans.saw

(* Among the first n deals of the log ds, one of ticket i with this entry. *)
Logs(ds, n, i, entry) == \E j \in 1..n : j \in 1..Len(ds) /\ ds[j].tk = i /\ ds[j].entry = entry

(* What the answer at t's point still says of tickets tk and log ds, with memory m. *)
Answered(tk, ds, m, t) ==
    /\ t.pc = "find_position" => \A k \in Attempts :
          /\ Finds(t, k) => tk[<<t.o, k>>].st \in Filled /\ ~Logs(ds, m.seen, <<t.o, k>>, "out")
          /\ t.ans \notin {NoAnswer, Lost} /\ t.o \notin Resting /\ tk[<<t.o, k>>].st = "position"
                => Finds(t, k)
    /\ t.pc \in {"find_order", "place"} /\ t.o \notin Resting => \A k \in Attempts :
          tk[<<t.o, k>>].st = "position" => t.pc = "place" /\ k = t.n /\ t.ans # NoAnswer
    /\ t.pc = "place" /\ t.ans = Nack => tk[<<t.o, t.n>>].st = "none"
    /\ t.pc = "place" /\ t.ans = Ack /\ t.o \notin Resting =>
          tk[<<t.o, t.n>>].st \in Filled /\ ~Logs(ds, m.seen, <<t.o, t.n>>, "out")
    /\ t.pc \in {"cancel_one", "cancel_request", "demote_cancel_one"} /\ t.ans = Ack =>
          tk[<<t.o, t.k>>].st = "gone"
    /\ t.pc \in {"confirm", "stop_check"} /\ t.ans \notin {NoAnswer, Lost} =>
          LET p == m.ord[t.o].pos IN
          tk[<<t.o, p>>].st = "position" =>
            /\ Finds(t, p)
            /\ \A s \in 0..MaxSl : <<<<t.o, p>>, s>> \in t.ans.saw => tk[<<t.o, p>>].sl = s
    /\ t.pc = "tighten" /\ t.ans = Ack /\ tk[<<t.o, t.k>>].st = "position" =>
          tk[<<t.o, t.k>>].sl = t.sl

(* What is tracked of order o, in r, fits its tickets tk. *)
Fits(tk, o, r) ==
    /\ r.st \notin {"open", "closed"} => r.pos = 0 /\ ~r.conf
    /\ r.st \in {"open", "closed"} => r.pos # 0
    /\ r.st \in {"pending", "cancelled", "expired"} => r.oid # 0
    /\ r.pos # 0 => tk[<<o, r.pos>>].st \in Filled
    /\ r.pos # 0 /\ r.conf /\ tk[<<o, r.pos>>].st = "position" => tk[<<o, r.pos>>].sl >= r.sl
    /\ r.st = "closed" => tk[<<o, r.pos>>].st = "closed"
    /\ r.st = "cancelled" => \E k \in Attempts : tk[<<o, k>>].st = "gone"
    /\ r.st = "expired" => o \in Timed
    /\ r.st = "rejected" /\ o \notin Resting => \A k \in Attempts : tk[<<o, k>>].st \notin Live

(* The first n deals of the log ds have been applied to order o, tracked as r: a position whose
   close is among them is not open, an order whose fill is among them no longer waits for it. *)
Counted(ds, n, o, r) ==
    \A k \in Attempts :
        /\ r.st = "open" /\ r.pos = k => ~Logs(ds, n, <<o, k>>, "out")
        /\ r.st \in Fillable => ~Logs(ds, n, <<o, k>>, "in")

(* An order ends in memory before the end is saved; nothing else is behind. *)
Ends == {<<"open", "closed">>, <<"pending", "expired">>, <<"pending", "cancelled">>}
Behind(saved, r) ==
    /\ saved.st = r.st \/ <<saved.st, r.st>> \in Ends
    /\ saved.pos = r.pos /\ saved.oid = r.oid /\ saved.sl = r.sl /\ saved.conf = r.conf

(* The log has the fill of each position and closed ticket, and the close of the latter after it. *)
DealLog ==
    /\ \A i \in Tickets : ticket[i].st \in Filled <=> Logs(deals, Len(deals), i, "in")
    /\ \A i \in Tickets : ticket[i].st = "closed" <=> Logs(deals, Len(deals), i, "out")
    /\ \A i, j \in 1..Len(deals) :
          deals[i].tk = deals[j].tk /\ deals[i].entry = "in" /\ deals[j].entry = "out" => i < j

OneTask == \A c, d \in Tasks : task[c].pc = "idle" \/ task[d].pc = "idle" \/ c = d
PointsHold == \A c \in Tasks : AtPoint(mem.ord, task[c]) /\ Answered(ticket, deals, mem, task[c])
OrdersFit ==
    \A o \in Orders :
        /\ Fits(ticket, o, mem.ord[o])
        /\ Counted(deals, mem.seen, o, mem.ord[o])
        /\ Counted(deals, journal.seen, o, journal.ord[o])
        /\ Behind(journal.ord[o], mem.ord[o])
        /\ fills[o] <= (IF mem.ord[o].pos # 0 THEN 1 ELSE 0)

(* A trade is published once, of an order saved as closed; the order of one that waits is closed,
   and saved as that before the sync that closed it ends. *)
TradesOfClosed ==
    \A o \in Orders :
        /\ trades[o] <= 1
        /\ trades[o] = 1 => journal.ord[o].st = "closed"
        /\ o \in outbox => trades[o] = 0 /\ mem.ord[o].st = "closed"
        /\ o \in outbox /\ journal.ord[o].st # "closed" =>
              task["cycle"].pc = "apply_deal" /\ mem.seen > task["cycle"].m

Serial == OneTask /\ PointsHold /\ OrdersFit /\ TradesOfClosed
SInv == TInv /\ (serial => DealLog /\ Serial)

-----------------------------------------------------------------------------
(* What a step of the broker or a served call does to the tickets and to the log. *)
Turns == {<<"order", "position">>, <<"order", "gone">>, <<"position", "closed">>}
Turned(j, placed, asked) ==
    /\ \/ ticket'[j].st = ticket[j].st
       \/ <<ticket[j].st, ticket'[j].st>> \in Turns
       \/ placed /\ ticket[j].st = "none"
    /\ ticket[j].st = "position" /\ ticket'[j].st = "position" => asked \/ ticket'[j].sl = ticket[j].sl

Booked ==
    \/ /\ deals' = deals
       /\ \A j \in Tickets : \/ ticket'[j].st = ticket[j].st
                             \/ ticket[j].st \notin Filled /\ ticket'[j].st \notin Filled
    \/ \E i \in Tickets :
         /\ \A j \in Tickets : j # i => ticket'[j] = ticket[j]
         /\ \/ /\ deals' = Append(deals, [tk |-> i, entry |-> "in"])
               /\ ticket[i].st \notin Filled /\ ticket'[i].st = "position"
            \/ /\ deals' = Append(deals, [tk |-> i, entry |-> "out"])
               /\ ticket[i].st = "position" /\ ticket'[i].st = "closed"

LEMMA Deals ==
    ASSUME TypeInv
    PROVE  /\ ticket \in [Tickets -> [st : TicketStates, sl : 0..MaxSl]]
           /\ deals \in Seq([tk : Tickets, entry : {"in", "out"}]) /\ Len(deals) \in Nat
           /\ \A i \in Tickets : ticket[i].st \in TicketStates /\ ticket[i].sl \in 0..MaxSl
  BY Known

LEMMA FillBooked ==
    ASSUME TypeInv, NEW i \in Tickets, NEW sl, ticket[i].st \in {"none", "order"}, Fill(i, sl)
    PROVE  Booked /\ ticket'[i].st = "position" /\ \A j \in Tickets : j # i => ticket'[j] = ticket[j]
<1>1. ASSUME NEW s, OpenAs(i, s)
      PROVE  Booked /\ ticket'[i].st = "position" /\ \A j \in Tickets : j # i => ticket'[j] = ticket[j]
  <2>1. ticket'[i].st = "position" /\ \A j \in Tickets : j # i => ticket'[j] = ticket[j]
    BY <1>1, Deals DEF OpenAs
  <2>2. deals' = Append(deals, [tk |-> i, entry |-> "in"])
    BY <1>1 DEF OpenAs
  <2> QED
    BY <2>1, <2>2 DEF Booked, Filled
<1> QED
  BY <1>1 DEF Fill

LEMMA CloseBooked ==
    ASSUME TypeInv, NEW i \in Tickets, ticket[i].st = "position", CloseAt(i)
    PROVE  Booked /\ ticket'[i].st = "closed" /\ \A j \in Tickets : j # i => ticket'[j] = ticket[j]
<1>1. ticket'[i].st = "closed" /\ \A j \in Tickets : j # i => ticket'[j] = ticket[j]
  BY Deals DEF CloseAt
<1>2. deals' = Append(deals, [tk |-> i, entry |-> "out"])
  BY DEF CloseAt
<1> QED
  BY <1>1, <1>2 DEF Booked

LEMMA BrokerTurns ==
    ASSUME TypeInv, BrokerNext
    PROVE  Booked /\ \A j \in Tickets : Turned(j, FALSE, FALSE)
<1>1. ASSUME NEW i \in Tickets, Trigger(i) PROVE Booked /\ \A j \in Tickets : Turned(j, FALSE, FALSE)
  <2>1. ticket[i].st = "order" /\ Fill(i, ticket[i].sl)
    BY <1>1 DEF Trigger
  <2>2. Booked /\ ticket'[i].st = "position" /\ \A j \in Tickets : j # i => ticket'[j] = ticket[j]
    BY <2>1, FillBooked
  <2> QED
    BY <2>1, <2>2 DEF Turned, Turns
<1>2. ASSUME NEW i \in Tickets, StopOut(i) PROVE Booked /\ \A j \in Tickets : Turned(j, FALSE, FALSE)
  <2>1. ticket[i].st = "position" /\ CloseAt(i)
    BY <1>2 DEF StopOut
  <2>2. Booked /\ ticket'[i].st = "closed" /\ \A j \in Tickets : j # i => ticket'[j] = ticket[j]
    BY <2>1, CloseBooked
  <2> QED
    BY <2>1, <2>2 DEF Turned, Turns
<1>3. ASSUME NEW i \in Tickets, Expire(i) PROVE Booked /\ \A j \in Tickets : Turned(j, FALSE, FALSE)
  <2>1. ticket[i].st = "order" /\ ticket'[i].st = "gone" /\ deals' = deals
        /\ \A j \in Tickets : j # i => ticket'[j] = ticket[j]
    BY <1>3, Deals DEF Expire
  <2> QED
    BY <2>1 DEF Booked, Turned, Turns, Filled
<1>4. ASSUME NEW o \in Orders, Elapse(o) PROVE Booked /\ \A j \in Tickets : Turned(j, FALSE, FALSE)
  BY <1>4 DEF Elapse, Booked, Turned
<1> QED
  BY <1>1, <1>2, <1>3, <1>4 DEF BrokerNext

(* What a call does that was answered with a, or is lost after it reached the broker. *)
Effects(op, i, sl, a) ==
    /\ Booked
    /\ \A j \in Tickets : Turned(j, op = "place" /\ j = i, op = "modify" /\ j = i /\ ticket'[j].sl = sl)
    /\ op = "place" /\ a = Nack => ticket' = ticket
    /\ op = "place" /\ a = Ack /\ i[1] \notin Resting => ticket'[i].st = "position"
    /\ op = "cancel" /\ a = Ack => ticket'[i].st = "gone"
    /\ op = "modify" /\ a = Ack /\ i \in Tickets => ticket'[i].sl = sl
    /\ op \notin {"place", "modify", "cancel", "close"} => UNCHANGED <<ticket, deals>>

(* A call that reaches the broker: a placement of what does not exist, and its answers. *)
LEMMA ApplyTurns ==
    ASSUME TypeInv, NEW op, NEW i, NEW sl, NEW a, Apply(op, i, sl, a),
           op = "place" => i \in Tickets /\ ticket[i].st = "none",
           op \in {"cancel", "close"} => i \in Tickets
    PROVE  Effects(op, i, sl, a)
<1>0. Ack # Nack
  BY DEF Ack, Nack, Answer
<1>1. CASE UNCHANGED <<ticket, deals>> /\ (op = "place" => a = Nack) /\ (op \in {"cancel", "modify"} => a # Ack)
  BY <1>0, <1>1 DEF Effects, Booked, Turned
<1>2. CASE op = "place"
  <2>1. CASE a = Nack /\ UNCHANGED <<ticket, deals>>
    BY <1>1, <1>2, <2>1 DEF Effects
  <2>2. CASE a = Ack /\ i[1] \in Resting /\ deals' = deals /\ ticket' = [ticket EXCEPT ![i] = [st |-> "order", sl |-> sl]]
    <3>1. ticket'[i].st = "order" /\ \A j \in Tickets : j # i => ticket'[j] = ticket[j]
      BY <1>2, <2>2, Deals
    <3>2. ticket[i].st = "none" /\ i \in Tickets
      BY <1>2
    <3> QED
      BY <1>0, <1>2, <2>2, <3>1, <3>2 DEF Effects, Booked, Turned, Filled
  <2>3. CASE a = Ack /\ i[1] \notin Resting /\ Fill(i, sl)
    <3>1. Booked /\ ticket'[i].st = "position" /\ \A j \in Tickets : j # i => ticket'[j] = ticket[j]
      BY <1>2, <2>3, FillBooked
    <3>2. deals' = Append(deals, [tk |-> i, entry |-> "in"])
      BY <2>3 DEF Fill, OpenAs
    <3>3. ticket[i].st = "none" /\ i \in Tickets
      BY <1>2
    <3> QED
      BY <1>0, <1>2, <2>3, <3>1, <3>2, <3>3 DEF Effects, Turned
  <2> QED
    BY <1>2, <2>1, <2>2, <2>3 DEF Apply, Place
<1>3. CASE op = "modify"
  <2>1. CASE ticket' = [ticket EXCEPT ![i].sl = sl] /\ deals' = deals
    <3>1. \A j \in Tickets : ticket'[j].st = ticket[j].st /\ (j # i => ticket'[j].sl = ticket[j].sl)
      BY <2>1, Deals
    <3>2. i \in Tickets => ticket'[i].sl = sl
      BY <2>1, Deals
    <3> QED
      BY <1>3, <2>1, <3>1, <3>2 DEF Effects, Booked, Turned
  <2>2. CASE UNCHANGED <<ticket, deals>> /\ a = Nack
    BY <1>0, <1>1, <1>3, <2>2
  <2> QED
    BY <1>3, <2>1, <2>2 DEF Apply, Modify
<1>4. CASE op = "cancel"
  <2>1. CASE ticket[i].st = "order" /\ ticket' = [ticket EXCEPT ![i] = [st |-> "gone", sl |-> 0]] /\ deals' = deals
    <3>1. ticket'[i].st = "gone" /\ \A j \in Tickets : j # i => ticket'[j] = ticket[j]
      BY <1>4, <2>1, Deals
    <3> QED
      BY <1>4, <2>1, <3>1 DEF Effects, Booked, Turned, Turns, Filled
  <2>2. CASE UNCHANGED <<ticket, deals>> /\ a = Nack
    BY <1>0, <1>1, <1>4, <2>2
  <2> QED
    BY <1>4, <2>1, <2>2 DEF Apply, Cancel
<1>5. CASE op = "close"
  <2>1. CASE ticket[i].st = "position" /\ CloseAt(i)
    <3>1. Booked /\ ticket'[i].st = "closed" /\ \A j \in Tickets : j # i => ticket'[j] = ticket[j]
      BY <1>5, <2>1, CloseBooked
    <3> QED
      BY <1>5, <2>1, <3>1 DEF Effects, Turned, Turns
  <2>2. CASE UNCHANGED <<ticket, deals>>
    BY <1>1, <1>5, <2>2
  <2> QED
    BY <1>5, <2>1, <2>2 DEF Apply, ClosePosition
<1>6. CASE op \in {"open_positions", "pending_orders", "deals"} /\ UNCHANGED <<ticket, deals>>
  BY <1>1, <1>6
<1> QED
  BY <1>2, <1>3, <1>4, <1>5, <1>6 DEF Apply

(* The log stays in step with the tickets. *)
LEMMA LogsStay ==
    ASSUME TypeInv, Booked, NEW n \in Nat, NEW i \in Tickets, NEW entry \in {"in", "out"}
    PROVE  /\ n <= Len(deals) => (Logs(deals', n, i, entry) <=> Logs(deals, n, i, entry))
           /\ Len(deals') \in Nat /\ Len(deals) <= Len(deals')
           /\ Logs(deals', Len(deals'), i, entry) <=>
                 \/ Logs(deals, Len(deals), i, entry)
                 \/ deals' # deals /\ deals' = Append(deals, [tk |-> i, entry |-> entry])
<1>0. deals \in Seq([tk : Tickets, entry : {"in", "out"}]) /\ Len(deals) \in Nat
  BY Deals
<1>1. CASE deals' = deals
  BY <1>0, <1>1
<1>2. ASSUME NEW d \in [tk : Tickets, entry : {"in", "out"}], deals' = Append(deals, d)
      PROVE  /\ n <= Len(deals) => (Logs(deals', n, i, entry) <=> Logs(deals, n, i, entry))
             /\ Len(deals') \in Nat /\ Len(deals) <= Len(deals')
             /\ Logs(deals', Len(deals'), i, entry) <=>
                   Logs(deals, Len(deals), i, entry) \/ deals' = Append(deals, [tk |-> i, entry |-> entry])
             /\ deals' # deals
  <2>1. /\ Len(deals') = Len(deals) + 1 /\ deals'[Len(deals) + 1] = d
        /\ \A j \in 1..Len(deals) : deals'[j] = deals[j]
    BY <1>0, <1>2
  <2>2. deals' # deals
    BY <1>0, <2>1
  <2>3. n <= Len(deals) => (Logs(deals', n, i, entry) <=> Logs(deals, n, i, entry))
    BY <1>0, <2>1 DEF Logs
  <2>4. deals' = Append(deals, [tk |-> i, entry |-> entry]) <=> d = [tk |-> i, entry |-> entry]
    <3>1. ASSUME deals' = Append(deals, [tk |-> i, entry |-> entry]) PROVE d = [tk |-> i, entry |-> entry]
      <4>1. Append(deals, [tk |-> i, entry |-> entry])[Len(deals) + 1] = [tk |-> i, entry |-> entry]
        BY <1>0
      <4> QED
        BY <2>1, <3>1, <4>1
    <3> QED
      BY <1>2, <3>1
  <2>5. d = [tk |-> i, entry |-> entry] <=> d.tk = i /\ d.entry = entry
    OBVIOUS
  <2>6. Logs(deals', Len(deals'), i, entry) <=> Logs(deals, Len(deals), i, entry) \/ (d.tk = i /\ d.entry = entry)
    <3>1. \A j \in 1..Len(deals') : j \in 1..Len(deals) \/ j = Len(deals) + 1
      BY <1>0, <2>1
    <3>2. Len(deals) + 1 \in 1..Len(deals') /\ \A j \in 1..Len(deals) : j \in 1..Len(deals')
      BY <1>0, <2>1
    <3> QED
      BY <2>1, <3>1, <3>2 DEF Logs
  <2> QED
    BY <1>0, <2>1, <2>2, <2>3, <2>4, <2>5, <2>6
<1>3. deals' = deals \/ \E d \in [tk : Tickets, entry : {"in", "out"}] : deals' = Append(deals, d)
  <2>1. \A j \in Tickets : /\ [tk |-> j, entry |-> "in"] \in [tk : Tickets, entry : {"in", "out"}]
                           /\ [tk |-> j, entry |-> "out"] \in [tk : Tickets, entry : {"in", "out"}]
    OBVIOUS
  <2> QED
    BY <2>1 DEF Booked
<1> QED
  BY <1>1, <1>2, <1>3

LEMMA DealLogStays == ASSUME TypeInv, DealLog, Booked PROVE DealLog'
<1>0. deals \in Seq([tk : Tickets, entry : {"in", "out"}]) /\ Len(deals) \in Nat
  BY Deals
<1>1. ASSUME NEW i \in Tickets, NEW entry \in {"in", "out"}
      PROVE  Logs(deals', Len(deals'), i, entry) <=>
                 \/ Logs(deals, Len(deals), i, entry)
                 \/ deals' # deals /\ deals' = Append(deals, [tk |-> i, entry |-> entry])
  BY <1>0, LogsStay
<1>2. CASE deals' = deals
  <2>1. \A i \in Tickets : \/ ticket'[i].st = ticket[i].st
                           \/ ticket[i].st \notin Filled /\ ticket'[i].st \notin Filled
    <3>1. ASSUME NEW d, deals' = Append(deals, d) PROVE FALSE
      BY <1>0, <1>2, <3>1
    <3> QED
      BY <3>1 DEF Booked
  <2> QED
    BY <1>2, <2>1 DEF DealLog, Filled
<1>3. ASSUME NEW i \in Tickets, NEW entry \in {"in", "out"}, deals' = Append(deals, [tk |-> i, entry |-> entry]),
             \A j \in Tickets : j # i => ticket'[j] = ticket[j],
             entry = "in" => ticket[i].st \notin Filled /\ ticket'[i].st = "position",
             entry = "out" => ticket[i].st = "position" /\ ticket'[i].st = "closed"
      PROVE  DealLog'
  <2>1. /\ Len(deals') = Len(deals) + 1 /\ deals'[Len(deals) + 1] = [tk |-> i, entry |-> entry]
        /\ \A j \in 1..Len(deals) : deals'[j] = deals[j] /\ deals[j].tk \in Tickets
        /\ deals' # deals
    <3>1. [tk |-> i, entry |-> entry] \in [tk : Tickets, entry : {"in", "out"}]
      OBVIOUS
    <3>2. /\ Len(deals') = Len(deals) + 1 /\ deals'[Len(deals) + 1] = [tk |-> i, entry |-> entry]
          /\ \A j \in 1..Len(deals) : deals'[j] = deals[j]
      BY <1>0, <1>3, <3>1
    <3>3. \A j \in 1..Len(deals) : deals[j].tk \in Tickets
      BY DealTickets
    <3> QED
      BY <1>0, <3>2, <3>3
  <2>2. ASSUME NEW j \in Tickets, NEW e \in {"in", "out"}
        PROVE  Logs(deals', Len(deals'), j, e) <=> Logs(deals, Len(deals), j, e) \/ (j = i /\ e = entry)
    <3>1. deals' = Append(deals, [tk |-> j, entry |-> e]) <=> j = i /\ e = entry
      <4>1. ASSUME deals' = Append(deals, [tk |-> j, entry |-> e]) PROVE j = i /\ e = entry
        <5>1. deals'[Len(deals) + 1] = [tk |-> j, entry |-> e]
          BY <1>0, <4>1
        <5> QED
          BY <2>1, <5>1
      <4> QED
        BY <1>3, <4>1
    <3> QED
      BY <1>1, <2>1, <3>1
  <2>3. /\ \A j \in Tickets : ticket'[j].st \in Filled <=> Logs(deals', Len(deals'), j, "in")
        /\ \A j \in Tickets : ticket'[j].st = "closed" <=> Logs(deals', Len(deals'), j, "out")
    BY <1>3, <2>2 DEF DealLog, Filled
  <2>4. ASSUME NEW p \in 1..Len(deals'), NEW q \in 1..Len(deals'), deals'[p].tk = deals'[q].tk,
               deals'[p].entry = "in", deals'[q].entry = "out"
        PROVE  p < q
    <3>1. /\ p \in 1..Len(deals) \/ (p = Len(deals) + 1 /\ deals'[p].tk = i /\ entry = "in")
          /\ q \in 1..Len(deals) \/ (q = Len(deals) + 1 /\ deals'[q].tk = i /\ entry = "out")
      BY <1>0, <2>1, <2>4
    <3>2. CASE p \in 1..Len(deals) /\ q \in 1..Len(deals)
      BY <2>1, <2>4, <3>2 DEF DealLog
    <3>3. CASE p \notin 1..Len(deals) /\ q \in 1..Len(deals)
      <4>1. deals[q].tk = i /\ deals[q].entry = "out" /\ entry = "in"
        BY <2>1, <2>4, <3>1, <3>3
      <4>2. Logs(deals, Len(deals), i, "out")
        BY <3>3, <4>1 DEF Logs
      <4> QED
        BY <1>3, <4>1, <4>2 DEF DealLog, Filled
    <3>4. CASE p \in 1..Len(deals) /\ q = Len(deals) + 1
      BY <1>0, <3>4
    <3> QED
      BY <3>1, <3>2, <3>3, <3>4
  <2> QED
    BY <2>3, <2>4 DEF DealLog
<1> QED
  BY <1>2, <1>3, Zenon DEF Booked

(* What is tracked of an order fits its tickets on: one that is placed belongs to an order that
   is being sent, a stop that is asked for is as tight as tracked. *)
LEMMA FitsStays ==
    ASSUME TypeInv, NEW o \in Orders, NEW r \in TrackedOrder, Fits(ticket, o, r),
           \A k \in Attempts : Turned(<<o, k>>, r.st = "sending", k = r.pos => ticket'[<<o, k>>].sl >= r.sl)
    PROVE  Fits(ticket', o, r)
<1>1. ASSUME NEW k \in Attempts
      PROVE  /\ ticket[<<o, k>>].st \in Filled => ticket'[<<o, k>>].st \in Filled
             /\ ticket[<<o, k>>].st = "closed" => ticket'[<<o, k>>].st = "closed"
             /\ ticket[<<o, k>>].st = "gone" => ticket'[<<o, k>>].st = "gone"
             /\ ticket[<<o, k>>].st \notin Live /\ r.st # "sending" => ticket'[<<o, k>>].st \notin Live
             /\ ticket[<<o, k>>].st = "position" /\ ticket'[<<o, k>>].st = "position" =>
                    ticket'[<<o, k>>].sl = ticket[<<o, k>>].sl \/ (k = r.pos => ticket'[<<o, k>>].sl >= r.sl)
  BY DEF Turned, Turns, Filled, Live
<1>2. r.pos \in 0..2 /\ (r.pos # 0 => r.pos \in Attempts)
  BY DEF TrackedOrder, Attempts
<1>3. r.pos # 0 /\ ticket'[<<o, r.pos>>].st = "position" => ticket[<<o, r.pos>>].st = "position"
  BY <1>1, <1>2 DEF Fits, Filled
<1>4. r.pos # 0 => ticket'[<<o, r.pos>>].st \in Filled
  BY <1>1, <1>2 DEF Fits
<1>5. r.pos # 0 /\ r.conf /\ ticket'[<<o, r.pos>>].st = "position" => ticket'[<<o, r.pos>>].sl >= r.sl
  BY <1>1, <1>2, <1>3 DEF Fits
<1>6. r.st = "closed" => ticket'[<<o, r.pos>>].st = "closed"
  BY <1>1, <1>2 DEF Fits
<1>7. r.st = "cancelled" => \E k \in Attempts : ticket'[<<o, k>>].st = "gone"
  BY <1>1 DEF Fits
<1>8. r.st = "rejected" /\ o \notin Resting => \A k \in Attempts : ticket'[<<o, k>>].st \notin Live
  BY <1>1 DEF Fits
<1> QED
  BY <1>4, <1>5, <1>6, <1>7, <1>8 DEF Fits

LEMMA CountedStays ==
    ASSUME TypeInv, Booked, NEW n \in Nat, n <= Len(deals), NEW o \in Orders, NEW r, Counted(deals, n, o, r)
    PROVE  Counted(deals', n, o, r)
<1>1. \A k \in Attempts : <<o, k>> \in Tickets
  BY DEF Tickets
<1>2. \A k \in Attempts : \A e \in {"in", "out"} :
          Logs(deals', n, <<o, k>>, e) <=> Logs(deals, n, <<o, k>>, e)
  BY <1>1, LogsStay
<1> QED
  BY <1>2 DEF Counted

(* Where a task's tickets are. *)
LEMMA TaskTickets ==
    ASSUME TypeInv, NEW c \in Tasks, AtPoint(mem.ord, task[c]), OrdersFit
    PROVE  LET t == task[c] IN
           /\ t \in TaskState
           /\ t.pc \in OrderPoints => t.o \in Orders
           /\ t.pc \in SendPoints => <<t.o, t.n>> \in Tickets /\ t.n \in Attempts
           /\ t.op = "cancel" => <<t.o, t.k>> \in Tickets
           /\ t.pc \in ConfirmPoints \union {"tighten"} => mem.ord[t.o].pos \in Attempts
           /\ t.pc \in {"stop_set", "tighten"} => <<t.o, t.k>> \in Tickets
<1> DEFINE t == task[c]
<1>1. t \in TaskState /\ TaskShape(c, t, mem, Len(deals), acked) /\ \A o \in Orders : mem.ord[o] \in TrackedOrder
  BY Holds
<1>2. ConfirmPoints \union {"tighten"} \subseteq OrderPoints /\ SendPoints \subseteq OrderPoints
      /\ "stop_set" \in ConfirmPoints
  BY DEF OrderPoints, ConfirmPoints, SendPoints
<1>3. t.pc \in ConfirmPoints \union {"tighten"} => mem.ord[t.o].pos \in Attempts
  <2>1. t.pc \in ConfirmPoints \union {"tighten"} => t.o \in Orders /\ mem.ord[t.o].st = "open"
    BY <1>1, <1>2 DEF TaskShape, AtPoint
  <2>2. \A o \in Orders : mem.ord[o].st = "open" => mem.ord[o].pos # 0 /\ mem.ord[o].pos \in 0..2
    BY <1>1 DEF OrdersFit, Fits, TrackedOrder
  <2> QED
    BY <2>1, <2>2 DEF Attempts
<1>4. t.pc \in {"stop_set", "tighten"} => t.k \in Attempts /\ t.o \in Orders
  BY <1>1, <1>2, <1>3 DEF AtPoint, TaskShape
<1>5. t.pc \in SendPoints => t.o \in Orders /\ t.n \in Attempts
  BY <1>1, <1>2 DEF TaskShape
<1> QED
  BY <1>1, <1>3, <1>4, <1>5 DEF TaskShape, Tickets, AtPoint

(* A market order becomes a position by its placement only. *)
LEMMA MarketTurns ==
    ASSUME TypeInv, OneLive, NEW o \in Orders, o \notin Resting, NEW k \in Attempts, NEW placed, NEW asked,
           Turned(<<o, k>>, placed, asked), ~placed, ticket'[<<o, k>>].st = "position"
    PROVE  ticket[<<o, k>>].st = "position"
  BY DEF OneLive, Turned, Turns

(* What a task was answered still holds after the broker moved by itself. *)
LEMMA AnsweredStays ==
    ASSUME TypeInv, OneLive, Booked, mem.seen <= Len(deals), OrdersFit, \A j \in Tickets : Turned(j, FALSE, FALSE),
           NEW c \in Tasks, AtPoint(mem.ord, task[c]), Answered(ticket, deals, mem, task[c])
    PROVE  Answered(ticket', deals', mem, task[c])
<1> DEFINE t == task[c]
<1>0. /\ t \in TaskState
      /\ t.pc \in OrderPoints => t.o \in Orders
      /\ t.pc \in SendPoints => <<t.o, t.n>> \in Tickets /\ t.n \in Attempts
      /\ t.op = "cancel" => <<t.o, t.k>> \in Tickets
      /\ t.pc \in ConfirmPoints \union {"tighten"} => mem.ord[t.o].pos \in Attempts
      /\ t.pc \in {"stop_set", "tighten"} => <<t.o, t.k>> \in Tickets
  BY TaskTickets
<1>1. mem.seen \in Nat
  BY Known
<1>2. ASSUME NEW i \in Tickets
      PROVE  /\ ticket[i].st \in Filled => ticket'[i].st \in Filled
             /\ ticket[i].st = "none" => ticket'[i].st = "none"
             /\ ticket[i].st = "gone" => ticket'[i].st = "gone"
             /\ ticket[i].st \in Filled /\ ticket'[i].st = "position" =>
                    ticket[i].st = "position" /\ ticket'[i].sl = ticket[i].sl
             /\ Logs(deals', mem.seen, i, "out") <=> Logs(deals, mem.seen, i, "out")
  BY <1>1, LogsStay DEF Turned, Turns, Filled
<1>3. ASSUME NEW k \in Attempts, t.o \in Orders
      PROVE  <<t.o, k>> \in Tickets
  BY <1>3 DEF Tickets
<1>4. ASSUME NEW k \in Attempts, t.o \in Orders, t.o \notin Resting, ticket'[<<t.o, k>>].st = "position"
      PROVE  ticket[<<t.o, k>>].st = "position"
  BY <1>3, <1>4, MarketTurns
<1>5. /\ t.pc \in SendPoints => t.o \in Orders
      /\ t.pc \in ConfirmPoints \union {"tighten"} => t.o \in Orders
  BY <1>0 DEF SendPoints, ConfirmPoints, OrderPoints
<1> HIDE DEF t
<1>6. t.pc = "find_position" => \A k \in Attempts :
          /\ Finds(t, k) => ticket'[<<t.o, k>>].st \in Filled /\ ~Logs(deals', mem.seen, <<t.o, k>>, "out")
          /\ t.ans \notin {NoAnswer, Lost} /\ t.o \notin Resting /\ ticket'[<<t.o, k>>].st = "position"
                => Finds(t, k)
  BY <1>2, <1>3, <1>4, <1>5 DEF Answered, SendPoints, t
<1>7. t.pc \in {"find_order", "place"} /\ t.o \notin Resting => \A k \in Attempts :
          ticket'[<<t.o, k>>].st = "position" => t.pc = "place" /\ k = t.n /\ t.ans # NoAnswer
  BY <1>4, <1>5 DEF Answered, SendPoints, t
<1>8. /\ t.pc = "place" /\ t.ans = Nack => ticket'[<<t.o, t.n>>].st = "none"
      /\ t.pc = "place" /\ t.ans = Ack /\ t.o \notin Resting =>
            ticket'[<<t.o, t.n>>].st \in Filled /\ ~Logs(deals', mem.seen, <<t.o, t.n>>, "out")
  BY <1>0, <1>2 DEF Answered, SendPoints, t
<1>9. t.pc \in {"cancel_one", "cancel_request", "demote_cancel_one"} /\ t.ans = Ack =>
          ticket'[<<t.o, t.k>>].st = "gone"
  BY <1>0, <1>2 DEF Answered, AtPoint, Call, t
<1>10. t.pc \in {"confirm", "stop_check"} /\ t.ans \notin {NoAnswer, Lost} =>
          LET p == mem.ord[t.o].pos IN
          ticket'[<<t.o, p>>].st = "position" =>
            /\ Finds(t, p)
            /\ \A s \in 0..MaxSl : <<<<t.o, p>>, s>> \in t.ans.saw => ticket'[<<t.o, p>>].sl = s
  <2> SUFFICES ASSUME t.pc \in {"confirm", "stop_check"}, t.ans \notin {NoAnswer, Lost}
               PROVE  LET p == mem.ord[t.o].pos IN
                      ticket'[<<t.o, p>>].st = "position" =>
                        /\ Finds(t, p)
                        /\ \A s \in 0..MaxSl : <<<<t.o, p>>, s>> \in t.ans.saw => ticket'[<<t.o, p>>].sl = s
    OBVIOUS
  <2>1. mem.ord[t.o].pos \in Attempts /\ t.o \in Orders
    BY <1>0, <1>5 DEF ConfirmPoints, t
  <2>2. Fits(ticket, t.o, mem.ord[t.o])
    BY <2>1 DEF OrdersFit
  <2>3. ticket[<<t.o, mem.ord[t.o].pos>>].st \in Filled
    BY <2>1, <2>2 DEF Fits, Attempts
  <2> QED
    BY <1>2, <1>3, <2>1, <2>3 DEF Answered, t
<1>11. t.pc = "tighten" /\ t.ans = Ack /\ ticket'[<<t.o, t.k>>].st = "position" => ticket'[<<t.o, t.k>>].sl = t.sl
  <2> SUFFICES ASSUME t.pc = "tighten" PROVE ticket[<<t.o, t.k>>].st \in Filled /\ <<t.o, t.k>> \in Tickets
    BY <1>2 DEF Answered, t
  <2>1. mem.ord[t.o].pos \in Attempts /\ t.o \in Orders /\ t.k = mem.ord[t.o].pos
    BY <1>0, <1>5 DEF AtPoint, t
  <2> QED
    BY <1>3, <2>1 DEF OrdersFit, Fits, Attempts
<1> QED
  BY <1>6, <1>7, <1>8, <1>9, <1>10, <1>11 DEF Answered, t

-----------------------------------------------------------------------------
(* What a step may do to journal and trades: write an edge of each order's life, or publish. *)
Follows ==
    /\ \A o \in Orders : \/ journal'.ord[o].st = journal.ord[o].st
                         \/ <<journal.ord[o].st, journal'.ord[o].st>> \in Life!Edges
    /\ trades' = trades
Publishes ==
    /\ UNCHANGED journal
    /\ \A o \in Orders : trades'[o] # trades[o] =>
          journal.ord[o].st = "closed" /\ trades[o] = 0 /\ trades'[o] = 1

(* With one task at a time, a task that is not idle is alone. *)
Alone(c) == \A d \in Tasks \ {c} : task[d].pc = "idle"

LEMMA AloneAt ==
    ASSUME OneTask, NEW c \in Tasks, task[c].pc # "idle"
    PROVE  Alone(c)
  BY DEF OneTask, Alone

(* An idle task knows nothing. *)
LEMMA IdleAnswered ==
    ASSUME NEW t, t.pc = "idle"
    PROVE  /\ \A tk, ds, m : Answered(tk, ds, m, t)
           /\ \A ord : AtPoint(ord, t) <=> t.op = "none"
  BY DEF Answered, AtPoint, Call, SendPoints, ConfirmPoints

(* Tickets move, what is tracked stays. *)
LEMMA FitsMoves ==
    ASSUME TypeInv, CountedAlike, OrdersFit, Booked, UNCHANGED <<mem, journal, fills>>,
           \A o \in Orders : \A k \in Attempts :
               Turned(<<o, k>>, mem.ord[o].st = "sending",
                      k = mem.ord[o].pos => ticket'[<<o, k>>].sl >= mem.ord[o].sl)
    PROVE  OrdersFit'
<1>0. mem.seen \in Nat /\ journal.seen \in Nat /\ mem.seen <= Len(deals) /\ journal.seen <= Len(deals)
  BY Known DEF CountedAlike
<1>1. ASSUME NEW o \in Orders
      PROVE  /\ Fits(ticket', o, mem.ord[o])
             /\ Counted(deals', mem.seen, o, mem.ord[o])
             /\ Counted(deals', journal.seen, o, journal.ord[o])
  <2>1. mem.ord[o] \in TrackedOrder
    BY Known DEF ExecState
  <2>2. Fits(ticket', o, mem.ord[o])
    BY <2>1, FitsStays DEF OrdersFit
  <2> QED
    BY <1>0, <2>2, CountedStays DEF OrdersFit
<1> QED
  BY <1>1 DEF OrdersFit

LEMMA TradesStay ==
    ASSUME TradesOfClosed, UNCHANGED <<mem, journal, trades, outbox>>,
           task'["cycle"].pc = task["cycle"].pc /\ task'["cycle"].m = task["cycle"].m
    PROVE  TradesOfClosed' /\ Follows
  BY DEF TradesOfClosed, Follows

(* The broker moves by itself. *)
LEMMA SerialBroker ==
    ASSUME TInv, DealLog, Serial, BrokerNext, UNCHANGED omVars
    PROVE  Serial' /\ DealLog' /\ Follows
<1>0. /\ TypeInv /\ OneLive /\ CountedAlike /\ OneTask /\ PointsHold /\ OrdersFit /\ TradesOfClosed
      /\ mem.seen <= Len(deals)
      /\ UNCHANGED <<mem, journal, task, fills, trades, outbox>>
  BY DEF TInv, IInv, Serial, CountedAlike, omVars
<1>1. Booked /\ \A j \in Tickets : Turned(j, FALSE, FALSE)
  BY <1>0, BrokerTurns
<1>2. OrdersFit'
  <2>1. \A o \in Orders : \A k \in Attempts :
               Turned(<<o, k>>, mem.ord[o].st = "sending",
                      k = mem.ord[o].pos => ticket'[<<o, k>>].sl >= mem.ord[o].sl)
    BY <1>1 DEF Turned, Tickets
  <2> QED
    BY <1>0, <1>1, <2>1, FitsMoves
<1>3. PointsHold'
  <2>1. ASSUME NEW c \in Tasks PROVE Answered(ticket', deals', mem, task[c])
    BY <1>0, <1>1, AnsweredStays DEF PointsHold
  <2> QED
    BY <1>0, <2>1 DEF PointsHold
<1>4. OneTask'
  BY <1>0 DEF OneTask
<1>5. DealLog'
  BY <1>0, <1>1, DealLogStays
<1> QED
  BY <1>0, <1>2, <1>3, <1>4, <1>5, TradesStay DEF Serial

(* A call is served: what its answer says is so. *)
LEMMA ServeBooks ==
    ASSUME TInv, DealLog, Serial, NEW c \in Tasks, Serve(c)
    PROVE  LET t == task[c]
               i == <<t.o, t.k>> IN
           \E a : /\ Goto(c, [t EXCEPT !.ans = a]) /\ a # NoAnswer
                  /\ a = Lost \/ a \in Answers(t.op)
                  /\ Effects(t.op, i, t.sl, a)
<1> DEFINE t == task[c]
           op == t.op
           i == <<t.o, t.k>>
           sl == t.sl
<1>0. TypeInv /\ Fresh /\ AtPoint(mem.ord, t) /\ OrdersFit /\ TaskShape(c, t, mem, Len(deals), acked)
  BY Holds DEF TInv, IInv, Serial, PointsHold
<1>1. t.ans = NoAnswer /\ op # "none"
  BY DEF Serve
<1>2. op = "place" => i \in Tickets /\ ticket[i].st = "none"
  <2> SUFFICES ASSUME op = "place" PROVE i \in Tickets /\ ticket[i].st = "none"
    OBVIOUS
  <2>1. t.pc = "place" /\ t.k = t.n /\ c = "decisions" /\ t.n \in Attempts /\ t.o \in Orders
    BY <1>0 DEF TaskShape, SendPoints, OrderPoints
  <2>2. i \in Tickets /\ i = <<t.o, t.n>>
    BY <2>1 DEF Tickets
  <2>3. task["decisions"].pc = "place" /\ task["decisions"].ans = NoAnswer
    BY <1>1, <2>1
  <2>4. ticket[<<t.o, t.n>>].st = "none"
    BY <1>0, <2>1, <2>3 DEF Fresh
  <2> QED
    BY <2>2, <2>4
<1>3. op \in {"cancel", "close"} => i \in Tickets
  BY <1>0 DEF TaskShape, Tickets, AtPoint
<1>4. /\ {Ack, Nack, Lost} \cap {NoAnswer} = {} /\ Ack # Nack /\ Lost \notin {Ack, Nack}
      /\ \A a \in Answers(op) : a # NoAnswer /\ a # Lost
  BY DEF Answers, Ack, Nack, Lost, NoAnswer, Answer
<1>5. ASSUME NEW a, Apply(op, i, sl, a) PROVE Effects(op, i, sl, a) /\ Effects(op, i, sl, Lost)
  <2> HIDE DEF op, i, sl
  <2>1. Effects(op, i, sl, a)
    BY <1>0, <1>2, <1>3, <1>5, ApplyTurns
  <2>2. Effects(op, i, sl, Lost)
    BY <1>4, <2>1 DEF Effects
  <2> QED
    BY <2>1, <2>2
<1>6. CASE \E a \in Answers(op) : Apply(op, i, sl, a) /\ Goto(c, [t EXCEPT !.ans = a])
  <2> PICK a \in Answers(op) : Apply(op, i, sl, a) /\ Goto(c, [t EXCEPT !.ans = a])
    BY <1>6
  <2>1. Effects(op, i, sl, a) /\ a # NoAnswer
    BY <1>4, <1>5
  <2> HIDE DEF op, i, sl
  <2> QED
    BY <2>1 DEF op, i, sl
<1>7. CASE Goto(c, [t EXCEPT !.ans = Lost]) /\ (UNCHANGED <<ticket, deals>> \/ \E a \in Answers(op) : Apply(op, i, sl, a))
  <2>1. UNCHANGED <<ticket, deals>> => Effects(op, i, sl, Lost)
    BY <1>4 DEF Effects, Booked, Turned
  <2>2. Effects(op, i, sl, Lost) /\ Lost # NoAnswer
    BY <1>4, <1>5, <1>7, <2>1
  <2> QED
    BY <1>7, <2>2
<1> QED
  BY <1>6, <1>7 DEF Serve

(* What a listing of the positions shows. *)
LEMMA PositionsSeen ==
    ASSUME TypeInv, NEW i \in Tickets
    PROVE  LET saw == Answer("ok", Held("position"), 0).saw IN
           /\ \A s : <<i, s>> \in saw => ticket[i].st = "position" /\ ticket[i].sl = s
           /\ ticket[i].st = "position" => \E s \in 0..MaxSl : <<i, s>> \in saw
<1>1. Answer("ok", Held("position"), 0).saw = Held("position")
  BY DEF Answer
<1>2. \A s : <<i, s>> \in Held("position") <=> ticket[i].st = "position" /\ ticket[i].sl = s
  BY DEF Held
<1>3. ticket[i].sl \in 0..MaxSl
  BY Deals
<1> QED
  BY <1>1, <1>2, <1>3

(* A ticket that has not closed is not logged as closed. *)
LEMMA NotLogged ==
    ASSUME TypeInv, DealLog, NEW n, NEW i \in Tickets
    PROVE  /\ ticket[i].st # "closed" => ~Logs(deals, n, i, "out")
           /\ ticket[i].st \notin Filled => ~Logs(deals, n, i, "in")
<1>1. \A e : Logs(deals, n, i, e) => Logs(deals, Len(deals), i, e)
  BY DEF Logs
<1> QED
  BY <1>1 DEF DealLog

LEMMA ServeAnswered ==
    ASSUME TInv, DealLog, Serial, NEW c \in Tasks, Serve(c), NEW a, a # NoAnswer,
           LET t == task[c] IN /\ a = Lost \/ a \in Answers(t.op)
                               /\ Effects(t.op, <<t.o, t.k>>, t.sl, a)
    PROVE  AtPoint(mem.ord, [task[c] EXCEPT !.ans = a]) /\ Answered(ticket', deals', mem, [task[c] EXCEPT !.ans = a])
<1> DEFINE t == task[c]
           u == [t EXCEPT !.ans = a]
           i == <<t.o, t.k>>
<1>0. /\ TypeInv /\ OneLive /\ Fresh /\ AtPoint(mem.ord, t) /\ Answered(ticket, deals, mem, t)
      /\ TaskShape(c, t, mem, Len(deals), acked) /\ mem.seen \in Nat /\ mem.seen <= Len(deals)
  BY Holds, Known DEF TInv, IInv, Serial, PointsHold, CountedAlike
<1>1. /\ t \in TaskState
      /\ t.pc \in OrderPoints => t.o \in Orders
      /\ t.pc \in SendPoints => <<t.o, t.n>> \in Tickets /\ t.n \in Attempts
      /\ t.op = "cancel" => i \in Tickets
      /\ t.pc \in ConfirmPoints \union {"tighten"} => mem.ord[t.o].pos \in Attempts
      /\ t.pc \in {"stop_set", "tighten"} => i \in Tickets
  BY <1>0, TaskTickets DEF Serial
<1>2. u.pc = t.pc /\ u.o = t.o /\ u.n = t.n /\ u.k = t.k /\ u.sl = t.sl /\ u.op = t.op /\ u.todo = t.todo /\ u.ans = a
  BY <1>1 DEF TaskState
<1>3. /\ a = Lost \/ a \in Answers(t.op)
      /\ Effects(t.op, i, t.sl, a) /\ t.op = Call(t.pc) /\ t.ans = NoAnswer
  BY <1>0 DEF AtPoint, Serve
<1>4. AtPoint(mem.ord, u)
  BY <1>0, <1>2, Zenon DEF AtPoint
<1>5. /\ t.pc \in SendPoints \union ConfirmPoints \union {"tighten"} => t.o \in Orders
      /\ \A k \in Attempts : t.o \in Orders => <<t.o, k>> \in Tickets
  BY <1>1 DEF Tickets, SendPoints, ConfirmPoints, OrderPoints
<1>6. t.op = "open_positions" => UNCHANGED <<ticket, deals>> /\ (a # Lost => a = Answer("ok", Held("position"), 0))
  BY <1>3 DEF Effects, Answers
<1>7. Lost.saw = {}
  BY DEF Lost, Answer
<1> HIDE DEF t, u, i
<1>8. u.pc = "find_position" => \A k \in Attempts :
          /\ Finds(u, k) => ticket'[<<u.o, k>>].st \in Filled /\ ~Logs(deals', mem.seen, <<u.o, k>>, "out")
          /\ u.ans \notin {NoAnswer, Lost} /\ u.o \notin Resting /\ ticket'[<<u.o, k>>].st = "position"
                => Finds(u, k)
  <2> SUFFICES ASSUME u.pc = "find_position", NEW k \in Attempts
               PROVE  /\ Finds(u, k) => ticket'[<<u.o, k>>].st \in Filled /\ ~Logs(deals', mem.seen, <<u.o, k>>, "out")
                      /\ u.ans \notin {NoAnswer, Lost} /\ u.o \notin Resting /\ ticket'[<<u.o, k>>].st = "position"
                            => Finds(u, k)
    OBVIOUS
  <2>1. t.op = "open_positions" /\ <<t.o, k>> \in Tickets
    BY <1>2, <1>3, <1>5 DEF Call, SendPoints
  <2>2. CASE a = Lost
    BY <1>2, <1>7, <2>2 DEF Finds
  <2>3. CASE a = Answer("ok", Held("position"), 0)
    <3>1. /\ Finds(u, k) <=> ticket[<<t.o, k>>].st = "position"
      BY <1>0, <1>2, <2>1, <2>3, PositionsSeen DEF Finds
    <3>2. ticket[<<t.o, k>>].st = "position" => ~Logs(deals, mem.seen, <<t.o, k>>, "out")
      BY <1>0, <2>1, NotLogged
    <3> QED
      BY <1>2, <1>6, <2>1, <3>1, <3>2 DEF Filled
  <2> QED
    BY <1>6, <2>1, <2>2, <2>3
<1>9. u.pc \in {"find_order", "place"} /\ u.o \notin Resting => \A k \in Attempts :
          ticket'[<<u.o, k>>].st = "position" => u.pc = "place" /\ k = u.n /\ u.ans # NoAnswer
  <2> SUFFICES ASSUME t.pc \in {"find_order", "place"}, t.o \notin Resting, NEW k \in Attempts,
                      ticket'[<<t.o, k>>].st = "position", ~(t.pc = "place" /\ k = t.n)
               PROVE  FALSE
    BY <1>2
  <2>1. <<t.o, k>> \in Tickets /\ t.o \in Orders
    BY <1>5 DEF SendPoints
  <2>2. t.op = "place" => t.pc = "place" /\ t.k = t.n
    BY <1>0 DEF TaskShape, t
  <2>3. ~(t.op = "place" /\ <<t.o, k>> = i)
    BY <2>2 DEF i
  <2>4. Turned(<<t.o, k>>, t.op = "place" /\ <<t.o, k>> = i, t.op = "modify" /\ <<t.o, k>> = i /\ ticket'[<<t.o, k>>].sl = t.sl)
    BY <1>3, <2>1 DEF Effects
  <2>5. ticket[<<t.o, k>>].st = "position"
    BY <1>0, <2>1, <2>3, <2>4 DEF OneLive, Turned, Turns
  <2> QED
    BY <1>0, <1>3, <2>5 DEF Answered, t
<1>10. /\ u.pc = "place" /\ u.ans = Nack => ticket'[<<u.o, u.n>>].st = "none"
       /\ u.pc = "place" /\ u.ans = Ack /\ u.o \notin Resting =>
             ticket'[<<u.o, u.n>>].st \in Filled /\ ~Logs(deals', mem.seen, <<u.o, u.n>>, "out")
  <2> SUFFICES ASSUME t.pc = "place"
               PROVE  /\ a = Nack => ticket'[<<t.o, t.n>>].st = "none"
                      /\ a = Ack /\ t.o \notin Resting =>
                            ticket'[<<t.o, t.n>>].st \in Filled /\ ~Logs(deals', mem.seen, <<t.o, t.n>>, "out")
    BY <1>2
  <2>1. t.op = "place" /\ t.k = t.n /\ c = "decisions" /\ <<t.o, t.n>> \in Tickets /\ i = <<t.o, t.n>>
    <3>1. t.op = "place"
      BY <1>3 DEF Call
    <3>2. t.k = t.n /\ c = "decisions"
      BY <1>0, <3>1 DEF TaskShape, SendPoints, t
    <3> QED
      BY <1>1, <3>1, <3>2 DEF SendPoints, i
  <2>2. task["decisions"].pc = "place" /\ task["decisions"].ans = NoAnswer /\ task["decisions"] = t
    BY <1>3, <2>1 DEF t
  <2>3. ticket[<<t.o, t.n>>].st = "none"
    BY <1>0, <2>2 DEF Fresh
  <2>4. ~Logs(deals, mem.seen, <<t.o, t.n>>, "out")
    BY <1>0, <2>1, <2>3, NotLogged
  <2>5. ~Logs(deals', mem.seen, <<t.o, t.n>>, "out")
    BY <1>0, <1>3, <2>1, <2>4, LogsStay DEF Effects
  <2>6. i[1] = t.o
    BY DEF i
  <2>7. a = Nack => ticket' = ticket
    BY <1>3, <2>1 DEF Effects
  <2>8. a = Ack /\ t.o \notin Resting => ticket'[i].st = "position"
    BY <1>3, <2>1, <2>6 DEF Effects
  <2> QED
    BY <2>1, <2>3, <2>5, <2>7, <2>8 DEF Filled
<1>11. u.pc \in {"cancel_one", "cancel_request", "demote_cancel_one"} /\ u.ans = Ack => ticket'[<<u.o, u.k>>].st = "gone"
  BY <1>2, <1>3 DEF Call, Effects, i
<1>12. u.pc \in {"confirm", "stop_check"} /\ u.ans \notin {NoAnswer, Lost} =>
          LET p == mem.ord[u.o].pos IN
          ticket'[<<u.o, p>>].st = "position" =>
            /\ Finds(u, p)
            /\ \A s \in 0..MaxSl : <<<<u.o, p>>, s>> \in u.ans.saw => ticket'[<<u.o, p>>].sl = s
  <2> SUFFICES ASSUME t.pc \in {"confirm", "stop_check"}, a # Lost, ticket'[<<t.o, mem.ord[t.o].pos>>].st = "position"
               PROVE  /\ Finds(u, mem.ord[t.o].pos)
                      /\ \A s \in 0..MaxSl : <<<<t.o, mem.ord[t.o].pos>>, s>> \in a.saw =>
                             ticket'[<<t.o, mem.ord[t.o].pos>>].sl = s
    BY <1>2
  <2>1. t.op = "open_positions" /\ <<t.o, mem.ord[t.o].pos>> \in Tickets
    BY <1>1, <1>3, <1>5 DEF Call, ConfirmPoints
  <2>2. a = Answer("ok", Held("position"), 0) /\ ticket' = ticket
    BY <1>6, <2>1
  <2> QED
    BY <1>0, <1>2, <2>1, <2>2, PositionsSeen DEF Finds
<1>13. u.pc = "tighten" /\ u.ans = Ack /\ ticket'[<<u.o, u.k>>].st = "position" => ticket'[<<u.o, u.k>>].sl = u.sl
  BY <1>1, <1>2, <1>3 DEF Call, Effects, i
<1>14. Answered(ticket', deals', mem, u)
  BY <1>8, <1>9, <1>10, <1>11, <1>12, <1>13 DEF Answered
<1> QED
  BY <1>4, <1>14 DEF t, u

LEMMA SerialServe ==
    ASSUME TInv, DealLog, Serial, NEW c \in Tasks, Serve(c)
    PROVE  Serial' /\ DealLog' /\ Follows
<1> DEFINE t == task[c]
           i == <<t.o, t.k>>
<1>0. /\ TypeInv /\ OneLive /\ CountedAlike /\ OneTask /\ PointsHold /\ OrdersFit /\ TradesOfClosed
      /\ AtPoint(mem.ord, t) /\ TaskShape(c, t, mem, Len(deals), acked) /\ t \in TaskState
      /\ task \in [Tasks -> TaskState]
      /\ UNCHANGED <<mem, journal, fills, trades, outbox>> /\ t.op # "none"
  BY Holds, Known DEF TInv, IInv, Serial, CountedAlike, PointsHold, Serve
<1>1. PICK a : /\ Goto(c, [t EXCEPT !.ans = a]) /\ a # NoAnswer
               /\ a = Lost \/ a \in Answers(t.op)
               /\ Effects(t.op, i, t.sl, a)
  BY ServeBooks
<1> DEFINE u == [t EXCEPT !.ans = a]
<1>2. AtPoint(mem.ord, u) /\ Answered(ticket', deals', mem, u)
  BY <1>1, ServeAnswered
<1>3. u.pc = t.pc /\ u.m = t.m
  BY <1>0 DEF TaskState
<1>4. t.pc # "idle"
  BY <1>0 DEF AtPoint, Call
<1>5. \A d \in Tasks \ {c} : task[d].pc = "idle"
  BY <1>0, <1>4, AloneAt DEF Alone
<1>6. task'[c] = u /\ \A d \in Tasks \ {c} : task'[d] = task[d]
  BY <1>0, <1>1 DEF Goto
<1> HIDE DEF u
<1>7. PointsHold'
  <2>1. ASSUME NEW d \in Tasks PROVE AtPoint(mem.ord, task'[d]) /\ Answered(ticket', deals', mem, task'[d])
    <3>1. CASE d = c
      BY <1>2, <1>6, <3>1
    <3>2. CASE d # c
      <4>1. task[d].pc = "idle" /\ task'[d] = task[d] /\ AtPoint(mem.ord, task[d])
        BY <1>0, <1>5, <1>6, <3>2 DEF PointsHold
      <4>2. \A tk, ds, m : Answered(tk, ds, m, task[d])
        BY <4>1, IdleAnswered
      <4> QED
        BY <4>1, <4>2
    <3> QED
      BY <3>1, <3>2
  <2> QED
    BY <1>0, <2>1 DEF PointsHold
<1>8. OneTask'
  BY <1>3, <1>5, <1>6 DEF OneTask
<1>9. OrdersFit'
  <2>1. ASSUME NEW o \in Orders, NEW k \in Attempts
        PROVE  Turned(<<o, k>>, mem.ord[o].st = "sending", k = mem.ord[o].pos => ticket'[<<o, k>>].sl >= mem.ord[o].sl)
    <3>0. <<o, k>> \in Tickets
      BY DEF Tickets
    <3>1. Turned(<<o, k>>, t.op = "place" /\ <<o, k>> = i, t.op = "modify" /\ <<o, k>> = i /\ ticket'[<<o, k>>].sl = t.sl)
      BY <1>1, <3>0 DEF Effects
    <3>2. t.op = "place" /\ <<o, k>> = i => mem.ord[o].st = "sending"
      BY <1>0 DEF AtPoint, TaskShape, SendPoints
    <3>3. t.op = "modify" /\ <<o, k>> = i => mem.ord[o].sl \in Nat /\ t.sl \in Nat /\ t.sl >= mem.ord[o].sl
      <4>1. t.op = "modify" => t.pc \in {"stop_set", "tighten"}
        BY <1>0 DEF AtPoint, Call
      <4>2. mem.ord[o].sl \in 1..MaxSl /\ t.sl \in 0..MaxSl
        BY <1>0, Holds DEF TrackedOrder, TaskState
      <4> QED
        BY <1>0, <4>1, <4>2, BrokerAssumption DEF AtPoint, BrokerAssumption
    <3> QED
      BY <3>1, <3>2, <3>3 DEF Turned
  <2> QED
    BY <1>0, <1>1, <2>1, FitsMoves DEF Effects
<1>10. DealLog'
  BY <1>0, <1>1, DealLogStays DEF Effects
<1>11. TradesOfClosed' /\ Follows
  <2>1. task'["cycle"].pc = task["cycle"].pc /\ task'["cycle"].m = task["cycle"].m
    <3>1. CASE c = "cycle"
      BY <1>3, <1>6, <3>1
    <3>2. CASE c # "cycle"
      BY <1>6, <3>2 DEF Tasks
    <3> QED
      BY <3>1, <3>2
  <2> QED
    BY <1>0, <2>1, TradesStay
<1> QED
  BY <1>7, <1>8, <1>9, <1>10, <1>11 DEF Serial

-----------------------------------------------------------------------------
(* What a task may write: orders that fit, each where it was or an edge of its life further, with
   the journal as memory or where it was. *)
Writes ==
    /\ \A o \in Orders :
          /\ Fits(ticket, o, mem'.ord[o])
          /\ Counted(deals, mem'.seen, o, mem'.ord[o])
          /\ mem'.ord[o].st = mem.ord[o].st \/ <<mem.ord[o].st, mem'.ord[o].st>> \in Life!Edges
          /\ fills'[o] <= (IF mem'.ord[o].pos # 0 THEN 1 ELSE 0)
    /\ \/ journal' = mem'
       \/ journal' = journal /\ \A o \in Orders : Behind(journal.ord[o], mem'.ord[o])

(* Where a task may go on: alone, knowing what is so. *)
Goes(c, u) ==
    /\ Goto(c, u) /\ Alone(c)
    /\ AtPoint(mem'.ord, u) /\ Answered(ticket, deals, mem', u)

(* What ends has ended. *)
LEMMA Edges ==
    /\ Ends \subseteq Life!Edges
    /\ \A e \in Life!Edges : e[1] \notin {"closed", "cancelled", "expired", "rejected"}
    /\ \A e \in Ends : e[1] \in {"open", "pending"} /\ e[2] \in {"closed", "cancelled", "expired"}
  BY DEF Ends, Life!Edges

LEMMA WritesFit ==
    ASSUME OrdersFit, Writes, UNCHANGED <<ticket, deals>>
    PROVE  OrdersFit'
<1>1. ASSUME NEW o \in Orders
      PROVE  Counted(deals, journal'.seen, o, journal'.ord[o]) /\ Behind(journal'.ord[o], mem'.ord[o])
  <2>1. CASE journal' = mem'
    BY <2>1 DEF Writes, Behind
  <2>2. CASE journal' = journal /\ Behind(journal.ord[o], mem'.ord[o])
    BY <2>2 DEF OrdersFit
  <2> QED
    BY <2>1, <2>2 DEF Writes
<1> QED
  BY <1>1 DEF OrdersFit, Writes

LEMMA WritesFollow ==
    ASSUME OrdersFit, Writes, trades' = trades
    PROVE  Follows /\ \A o \in Orders : /\ mem.ord[o].st = "closed" => mem'.ord[o].st = "closed"
                                        /\ journal.ord[o].st = "closed" => journal'.ord[o].st = "closed"
<1> SUFFICES ASSUME NEW o \in Orders
             PROVE  /\ \/ journal'.ord[o].st = journal.ord[o].st
                       \/ <<journal.ord[o].st, journal'.ord[o].st>> \in Life!Edges
                    /\ mem.ord[o].st = "closed" => mem'.ord[o].st = "closed"
                    /\ journal.ord[o].st = "closed" => journal'.ord[o].st = "closed"
  BY DEF Follows
<1> DEFINE s == mem.ord[o].st
           s2 == mem'.ord[o].st
           j == journal.ord[o].st
<1>1. s2 = s \/ <<s, s2>> \in Life!Edges
  BY DEF Writes
<1>2. j = s \/ <<j, s>> \in Ends
  BY DEF OrdersFit, Behind
<1>3. journal'.ord[o].st = j \/ journal'.ord[o].st = s2
  BY DEF Writes
<1> HIDE DEF s, s2, j
<1>4. /\ <<j, s>> \in Ends => <<j, s>> \in Life!Edges /\ s \in {"closed", "cancelled", "expired"} /\ j \in {"open", "pending"}
      /\ <<s, s2>> \in Life!Edges => s \notin {"closed", "cancelled", "expired", "rejected"}
  BY Edges
<1> QED
  BY <1>1, <1>2, <1>3, <1>4 DEF s, s2, j

(* A task that goes on leaves the others idle. *)
LEMMA PointsGo ==
    ASSUME TypeInv, PointsHold, NEW c \in Tasks, NEW u, Goes(c, u), UNCHANGED <<ticket, deals>>
    PROVE  PointsHold' /\ OneTask'
<1>1. task'[c] = u /\ \A d \in Tasks \ {c} : task'[d] = task[d] /\ task[d].pc = "idle"
  BY Known DEF Goes, Goto, Alone
<1>2. ASSUME NEW d \in Tasks PROVE AtPoint(mem'.ord, task'[d]) /\ Answered(ticket, deals, mem', task'[d])
  <2>1. CASE d = c
    BY <1>1, <2>1 DEF Goes
  <2>2. CASE d # c
    <3>1. task[d].pc = "idle" /\ task'[d] = task[d] /\ AtPoint(mem.ord, task[d])
      BY <1>1, <2>2 DEF PointsHold
    <3>2. \A tk, ds, m : Answered(tk, ds, m, task[d])
      BY <3>1, IdleAnswered
    <3>3. \A ord : AtPoint(ord, task[d])
      BY <3>1, IdleAnswered
    <3> QED
      BY <3>1, <3>2, <3>3
  <2> QED
    BY <2>1, <2>2
<1>3. OneTask'
  BY <1>1 DEF OneTask
<1> QED
  BY <1>2, <1>3 DEF PointsHold

(* A task's step that queues and publishes nothing. *)
LEMMA SerialTask ==
    ASSUME TInv, DealLog, Serial, NEW c \in Tasks, NEW u, Goes(c, u), Writes,
           UNCHANGED <<ticket, deals, trades, outbox>>,
           task["cycle"].pc = "apply_deal" => journal' = mem' \/ ~(mem.seen > task["cycle"].m)
    PROVE  Serial' /\ DealLog' /\ Follows
<1>0. TypeInv /\ PointsHold /\ OrdersFit /\ TradesOfClosed
  BY DEF TInv, IInv, Serial
<1>1. PointsHold' /\ OneTask'
  BY <1>0, PointsGo
<1>2. OrdersFit'
  BY <1>0, WritesFit
<1>3. Follows /\ \A o \in Orders : /\ mem.ord[o].st = "closed" => mem'.ord[o].st = "closed"
                                   /\ journal.ord[o].st = "closed" => journal'.ord[o].st = "closed"
  BY <1>0, WritesFollow
<1>4. TradesOfClosed'
  <2>1. ASSUME NEW o \in Orders, o \in outbox
        PROVE  trades[o] = 0 /\ mem'.ord[o].st = "closed" /\ journal'.ord[o].st = "closed"
    <3>1. trades[o] = 0 /\ mem'.ord[o].st = "closed"
      BY <1>0, <1>3, <2>1 DEF TradesOfClosed
    <3>2. CASE journal' = mem'
      BY <3>1, <3>2
    <3>3. CASE journal' # mem'
      BY <1>0, <1>3, <2>1, <3>3 DEF TradesOfClosed
    <3> QED
      BY <3>1, <3>2, <3>3
  <2> QED
    BY <1>0, <1>3, <2>1 DEF TradesOfClosed
<1>5. DealLog'
  BY DEF DealLog
<1> QED
  BY <1>1, <1>2, <1>3, <1>4, <1>5 DEF Serial

-----------------------------------------------------------------------------
(* The writes.  Memory as it is... *)
LEMMA WritesNothing ==
    ASSUME TypeInv, OrdersFit, mem' = mem, journal' \in {journal, mem}, fills' = fills
    PROVE  Writes
  BY DEF Writes, OrdersFit

(* ...one order... *)
LEMMA WritesOrder ==
    ASSUME TypeInv, OrdersFit, NEW o \in Orders, NEW r \in TrackedOrder,
           Fits(ticket, o, r), Counted(deals, mem.seen, o, r),
           r.st = mem.ord[o].st \/ <<mem.ord[o].st, r.st>> \in Life!Edges,
           \/ Save(Tracked(o, r))
           \/ Keep(Tracked(o, r)) /\ r = [mem.ord[o] EXCEPT !.st = r.st] /\ <<mem.ord[o].st, r.st>> \in Ends,
           \A q \in Orders \ {o} : fills'[q] = fills[q],
           fills'[o] <= (IF r.pos # 0 THEN 1 ELSE 0)
    PROVE  Writes
<1>1. mem' = Tracked(o, r)
  BY DEF Save, Keep
<1>2. /\ mem'.ord[o] = r /\ mem'.seen = mem.seen
      /\ \A q \in Orders \ {o} : mem'.ord[q] = mem.ord[q]
  BY <1>1, Known DEF Tracked, ExecState
<1>3. ASSUME NEW q \in Orders
      PROVE  /\ Fits(ticket, q, mem'.ord[q])
             /\ Counted(deals, mem'.seen, q, mem'.ord[q])
             /\ mem'.ord[q].st = mem.ord[q].st \/ <<mem.ord[q].st, mem'.ord[q].st>> \in Life!Edges
             /\ fills'[q] <= (IF mem'.ord[q].pos # 0 THEN 1 ELSE 0)
  <2>1. CASE q = o
    BY <1>2, <2>1
  <2>2. CASE q # o
    BY <1>2, <2>2 DEF OrdersFit
  <2> QED
    BY <2>1, <2>2
<1>4. journal' = mem' \/ (journal' = journal /\ \A q \in Orders : Behind(journal.ord[q], mem'.ord[q]))
  <2>1. CASE Save(Tracked(o, r))
    BY <2>1 DEF Save
  <2>2. CASE Keep(Tracked(o, r)) /\ r = [mem.ord[o] EXCEPT !.st = r.st] /\ <<mem.ord[o].st, r.st>> \in Ends
    <3>1. r.pos = mem.ord[o].pos /\ r.oid = mem.ord[o].oid /\ r.sl = mem.ord[o].sl /\ r.conf = mem.ord[o].conf
      BY <2>2, Known DEF ExecState, TrackedOrder
    <3>2. Behind(journal.ord[o], mem.ord[o])
      BY DEF OrdersFit
    <3>3. mem.ord[o].st \in {"open", "pending"}
      BY <2>2, Edges
    <3>4. journal.ord[o].st = mem.ord[o].st
      BY <3>2, <3>3, Edges DEF Behind
    <3>5. Behind(journal.ord[o], r)
      BY <2>2, <3>1, <3>2, <3>4 DEF Behind
    <3>6. \A q \in Orders : Behind(journal.ord[q], mem'.ord[q])
      BY <1>2, <3>5 DEF OrdersFit
    <3> QED
      BY <2>2, <3>6 DEF Keep
  <2> QED
    BY <2>1, <2>2
<1> QED
  BY <1>3, <1>4 DEF Writes

(* An order that waits is found filled. *)
LEMMA OpenedFits ==
    ASSUME NEW tk, NEW o \in Orders, NEW q \in TrackedOrder, NEW k \in Attempts,
           Fits(tk, o, q), q.st \in Fillable, tk[<<o, k>>].st \in Filled
    PROVE  /\ Opened(q, k) \in TrackedOrder /\ Opened(q, k).st = "open" /\ Opened(q, k).pos = k /\ k # 0
           /\ Fits(tk, o, Opened(q, k)) /\ <<q.st, "open">> \in Life!Edges /\ q.pos = 0
<1> DEFINE r == Opened(q, k)
<1>1. r \in TrackedOrder /\ r.st = "open" /\ r.pos = k /\ k # 0 /\ r.conf = q.conf
  <2>1. k \in 0..2 /\ k # 0 /\ "open" \in OrderStates
    BY DEF Attempts, OrderStates
  <2> QED
    BY <2>1 DEF Opened, TrackedOrder
<1>2. q.pos = 0 /\ ~q.conf /\ <<q.st, "open">> \in Life!Edges
  BY DEF Fits, Fillable, Life!Edges
<1> HIDE DEF r
<1>3. Fits(tk, o, r)
  BY <1>1, <1>2 DEF Fits
<1> QED
  BY <1>1, <1>2, <1>3 DEF r

(* ...an order that waits opens... *)
LEMMA WritesOpened ==
    ASSUME TypeInv, OrdersFit, NEW o \in Orders, NEW k \in Attempts, mem.ord[o].st \in Fillable,
           ticket[<<o, k>>].st \in Filled, ~Logs(deals, mem.seen, <<o, k>>, "out"),
           Save(Tracked(o, Opened(mem.ord[o], k))), fills' = Count(fills, o)
    PROVE  Writes /\ mem'.ord[o].st = "open" /\ mem'.seen = mem.seen
<1> DEFINE q == mem.ord[o]
           r == Opened(q, k)
<1>0. q \in TrackedOrder /\ Fits(ticket, o, q) /\ fills \in [Orders -> 0..2] /\ fills[o] <= (IF q.pos # 0 THEN 1 ELSE 0)
  BY Holds DEF OrdersFit, Tasks
<1>1. r \in TrackedOrder /\ r.st = "open" /\ r.pos = k /\ k # 0 /\ Fits(ticket, o, r)
      /\ <<q.st, "open">> \in Life!Edges /\ q.pos = 0
  BY <1>0, OpenedFits
<1> HIDE DEF r
<1>2. Counted(deals, mem.seen, o, r)
  BY <1>1 DEF Counted, Fillable
<1>3. /\ \A p \in Orders \ {o} : fills'[p] = fills[p]
      /\ fills'[o] <= (IF r.pos # 0 THEN 1 ELSE 0)
  <2>1. fills[o] = 0
    BY <1>0, <1>1
  <2> QED
    BY <1>0, <1>1, <2>1 DEF Count
<1>4. Save(Tracked(o, r))
  BY DEF r
<1>5. Writes
  BY <1>1, <1>2, <1>3, <1>4, WritesOrder
<1>6. mem'.ord[o] = r /\ mem'.seen = mem.seen
  BY <1>4, Known DEF Save, Tracked, ExecState
<1> QED
  BY <1>1, <1>5, <1>6

(* ...or an order changes its stage, before or after it is open, and nothing else of it. *)
LEMMA WritesStage ==
    ASSUME TypeInv, OrdersFit, NEW o \in Orders, NEW s \in {"cancelled", "expired", "rejected"},
           mem.ord[o].st = (IF s = "rejected" THEN "sending" ELSE "pending"),
           s = "cancelled" => \E k \in Attempts : ticket[<<o, k>>].st = "gone",
           s = "expired" => o \in Timed,
           s = "rejected" /\ o \notin Resting => \A k \in Attempts : ticket[<<o, k>>].st \notin Live,
           \/ Save(Tracked(o, [mem.ord[o] EXCEPT !.st = s]))
           \/ Keep(Tracked(o, [mem.ord[o] EXCEPT !.st = s])) /\ s # "rejected",
           fills' = fills
    PROVE  Writes /\ mem'.ord[o].st = s /\ mem'.seen = mem.seen /\ \A q \in Orders \ {o} : mem'.ord[q] = mem.ord[q]
<1> DEFINE q == mem.ord[o]
           r == [q EXCEPT !.st = s]
<1>0. q \in TrackedOrder /\ Fits(ticket, o, q) /\ fills \in [Orders -> 0..2] /\ fills[o] <= (IF q.pos # 0 THEN 1 ELSE 0)
  BY Holds DEF OrdersFit, Tasks
<1>1. r \in TrackedOrder /\ r.st = s /\ r.pos = q.pos /\ r.oid = q.oid /\ r.conf = q.conf
  <2>1. s \in OrderStates
    BY DEF OrderStates
  <2> QED
    BY <1>0, <2>1 DEF TrackedOrder
<1>2. r = [mem.ord[o] EXCEPT !.st = r.st]
  BY <1>1
<1>3. Save(Tracked(o, r)) \/ (Keep(Tracked(o, r)) /\ s # "rejected")
  OBVIOUS
<1> HIDE DEF r
<1>4. q.pos = 0 /\ ~q.conf /\ (s # "rejected" => q.oid # 0)
  BY <1>0 DEF Fits
<1>5. Fits(ticket, o, r)
  BY <1>1, <1>4 DEF Fits
<1>6. Counted(deals, mem.seen, o, r)
  BY <1>1 DEF Counted, Fillable
<1>7. <<mem.ord[o].st, r.st>> \in Life!Edges /\ (s # "rejected" => <<mem.ord[o].st, r.st>> \in Ends)
  BY <1>1 DEF Life!Edges, Ends
<1>8. Writes
  <2>1. \A p \in Orders \ {o} : fills'[p] = fills[p]
    OBVIOUS
  <2>2. fills'[o] <= (IF r.pos # 0 THEN 1 ELSE 0)
    BY <1>0, <1>1
  <2>3. \/ Save(Tracked(o, r))
        \/ Keep(Tracked(o, r)) /\ r = [mem.ord[o] EXCEPT !.st = r.st] /\ <<mem.ord[o].st, r.st>> \in Ends
    BY <1>2, <1>3, <1>7, Zenon
  <2> QED
    BY <1>1, <1>5, <1>6, <1>7, <2>1, <2>2, <2>3, WritesOrder
<1>9. mem'.ord[o] = r /\ mem'.seen = mem.seen /\ \A p \in Orders \ {o} : mem'.ord[p] = mem.ord[p]
  BY <1>3, Known DEF Save, Keep, Tracked, ExecState
<1> QED
  BY <1>1, <1>8, <1>9

-----------------------------------------------------------------------------
(* What a task knows at the point it goes to: at an await nothing yet, but for a market order, which
   is looked up and placed when it has no position. *)
LEMMA AwaitKnows ==
    ASSUME NEW t \in TaskState, NEW pc, NEW op, NEW k, NEW sl
    PROVE  LET u == Await(t, pc, op, k, sl) IN
           /\ u.pc = pc /\ u.op = op /\ u.k = k /\ u.sl = sl /\ u.ans = NoAnswer
           /\ u.o = t.o /\ u.n = t.n /\ u.todo = t.todo
           /\ \A tk, ds, m :
                 (pc \in {"find_order", "place"} /\ t.o \notin Resting => \A j \in Attempts : tk[<<t.o, j>>].st # "position")
                 => Answered(tk, ds, m, u)
<1> DEFINE u == Await(t, pc, op, k, sl)
<1>1. /\ u.pc = pc /\ u.op = op /\ u.k = k /\ u.sl = sl /\ u.ans = NoAnswer
      /\ u.o = t.o /\ u.n = t.n /\ u.todo = t.todo
  BY DEF Await, TaskState
<1> HIDE DEF u
<1>2. NoAnswer.saw = {} /\ NoAnswer # Ack /\ NoAnswer # Nack
  BY DEF NoAnswer, Ack, Nack, Answer
<1>3. \A j : ~Finds(u, j)
  BY <1>1, <1>2 DEF Finds
<1>4. ASSUME NEW tk, NEW ds, NEW m,
             pc \in {"find_order", "place"} /\ t.o \notin Resting => \A j \in Attempts : tk[<<t.o, j>>].st # "position"
      PROVE  Answered(tk, ds, m, u)
  BY <1>1, <1>2, <1>3, <1>4 DEF Answered
<1> QED
  BY <1>1, <1>4 DEF u

LEMMA RunKnows ==
    ASSUME NEW t \in TaskState, NEW pc \in Internal
    PROVE  LET u == Run(t, pc) IN
           /\ u.pc = pc /\ u.op = "none" /\ u.todo = t.todo
           /\ \A tk, ds, m : Answered(tk, ds, m, u)
           /\ \A ord : /\ pc = "expire_next" => t.todo \subseteq Timed
                       /\ pc = "demote_cancel" => \A o \in t.todo : ord[o].st = "pending"
                       => AtPoint(ord, u)
<1> DEFINE u == Run(t, pc)
<1>1. u.pc = pc /\ u.op = "none" /\ u.todo = t.todo
  BY DEF Run, TaskState
<1> HIDE DEF u
<1>2. \A tk, ds, m : Answered(tk, ds, m, u)
  BY <1>1 DEF Answered, Internal
<1>3. ASSUME NEW ord, pc = "expire_next" => t.todo \subseteq Timed,
             pc = "demote_cancel" => \A o \in t.todo : ord[o].st = "pending"
      PROVE  AtPoint(ord, u)
  BY <1>1, <1>3 DEF AtPoint, Call, Internal, SendPoints, ConfirmPoints
<1> QED
  BY <1>1, <1>2, <1>3 DEF u

LEMMA ConfirmStopKnows ==
    ASSUME NEW t \in TaskState, NEW o, NEW ret
    PROVE  LET u == ConfirmStop(t, o, ret) IN
           /\ \A tk, ds, m : Answered(tk, ds, m, u)
           /\ \A ord : ord[o].st = "open" => AtPoint(ord, u)
<1> DEFINE v == [t EXCEPT !.o = o, !.ret = ret, !.tries = 0]
           u == Await(v, "confirm", "open_positions", 0, 0)
<1>1. u.pc = "confirm" /\ u.op = "open_positions" /\ u.ans = NoAnswer /\ u.o = o
  BY DEF Await, TaskState
<1>2. u = ConfirmStop(t, o, ret)
  BY DEF ConfirmStop
<1> HIDE DEF u
<1>3. \A tk, ds, m : Answered(tk, ds, m, u)
  BY <1>1 DEF Answered, NoAnswer, Ack, Nack, Answer
<1>4. \A ord : ord[o].st = "open" => AtPoint(ord, u)
  BY <1>1 DEF AtPoint, Call, SendPoints
<1> QED
  BY <1>2, <1>3, <1>4

LEMMA IdleGoes ==
    ASSUME NEW c \in Tasks, Done(c), Alone(c)
    PROVE  Goes(c, Idle)
<1>1. Idle.pc = "idle" /\ Idle.op = "none"
  BY IdleType
<1>2. \A tk, ds, m : Answered(tk, ds, m, Idle)
  BY <1>1, IdleAnswered
<1>3. \A ord : AtPoint(ord, Idle)
  BY <1>1, IdleAnswered
<1> QED
  BY <1>2, <1>3 DEF Done, Goes

(* A task at a point of its own is alone, one that begins too. *)
LEMMA AloneSteps ==
    ASSUME OneTask, serial, NEW c \in Tasks
    PROVE  /\ MayStart(c) => Alone(c) /\ task[c].pc = "idle"
           /\ task[c].pc # "idle" => Alone(c)
  BY AloneAt DEF MayStart, Alone

LEMMA ReturnAlone ==
    ASSUME TypeInv, NEW c \in {"decisions", "cycle"}, Return(c), Alone(c)
    PROVE  \E u : Goes(c, u)
<1> DEFINE t == task[c]
<1>0. c \in Tasks /\ t \in TaskState /\ t.ret \in {"idle", "apply_deal", "stops_next"}
  BY Holds DEF Tasks, TaskShape
<1>1. CASE t.ret = "idle"
  BY <1>0, <1>1, IdleGoes DEF Return
<1>2. CASE t.ret # "idle"
  <2> DEFINE v == [t EXCEPT !.ret = "idle", !.o = NoOrder, !.tries = 0]
             u == Run(v, t.ret)
  <2>1. Goto(c, u)
    BY <1>2 DEF Return
  <2>2. v \in TaskState
    <3>1. "idle" \in {"idle"} \union Internal /\ NoOrder \in Orders \union {NoOrder} /\ 0 \in 0..2
      OBVIOUS
    <3> QED
      BY <1>0, <3>1 DEF TaskState
  <2>5. t.ret \in Internal
    BY <1>0, <1>2 DEF Internal
  <2>3. t.ret # "expire_next" /\ t.ret # "demote_cancel"
    BY <1>0, <1>2
  <2> HIDE DEF v
  <2>4. AtPoint(mem'.ord, u) /\ Answered(ticket, deals, mem', u)
    BY <2>2, <2>3, <2>5, RunKnows
  <2> QED
    BY <2>1, <2>4 DEF Goes
<1> QED
  BY <1>1, <1>2

(* An order rests at the broker... *)
LEMMA WritesPending ==
    ASSUME TypeInv, OrdersFit, NEW o \in Orders, NEW k \in Attempts, mem.ord[o].st = "sending",
           Save(Tracked(o, [mem.ord[o] EXCEPT !.st = "pending", !.oid = k])), fills' = fills
    PROVE  Writes
<1> DEFINE q == mem.ord[o]
           r == [q EXCEPT !.st = "pending", !.oid = k]
<1>0. /\ q \in TrackedOrder /\ Fits(ticket, o, q) /\ Counted(deals, mem.seen, o, q)
      /\ fills[o] <= (IF q.pos # 0 THEN 1 ELSE 0)
  BY Holds DEF OrdersFit, Tasks
<1>1. r \in TrackedOrder /\ r.st = "pending" /\ r.oid = k /\ r.pos = q.pos /\ r.conf = q.conf /\ k # 0
  <2>1. k \in 0..2 /\ k # 0 /\ "pending" \in OrderStates
    BY DEF Attempts, OrderStates
  <2> QED
    BY <1>0, <2>1 DEF TrackedOrder
<1>2. Save(Tracked(o, r))
  OBVIOUS
<1> HIDE DEF r
<1>3. Fits(ticket, o, r)
  BY <1>0, <1>1 DEF Fits
<1>4. Counted(deals, mem.seen, o, r)
  BY <1>0, <1>1 DEF Counted, Fillable
<1>5. <<mem.ord[o].st, r.st>> \in Life!Edges
  BY <1>1 DEF Life!Edges
<1>6. \A p \in Orders \ {o} : fills'[p] = fills[p]
  OBVIOUS
<1>7. fills'[o] <= (IF r.pos # 0 THEN 1 ELSE 0)
  BY <1>0, <1>1
<1> QED
  BY <1>1, <1>2, <1>3, <1>4, <1>5, <1>6, <1>7, WritesOrder

(* ...or begins to be sent, and none of its tickets is in the log. *)
LEMMA WritesSending ==
    ASSUME TInv, DealLog, OrdersFit, NEW o \in Orders, NEW n, mem.ord[o].st = "none",
           Save([mem EXCEPT !.seq = n, !.ord[o] = [Untracked EXCEPT !.st = "sending"]]), fills' = fills
    PROVE  Writes /\ mem'.ord[o].st = "sending" /\ mem'.seen = mem.seen
<1> DEFINE r == [Untracked EXCEPT !.st = "sending"]
<1>0. TypeInv /\ Recorded /\ mem.ord[o] \in TrackedOrder
  BY Holds DEF TInv, IInv, Tasks
<1>1. r.st = "sending" /\ r.pos = 0 /\ ~r.conf
  BY DEF Untracked
<1>2. /\ mem'.ord[o] = r /\ mem'.seen = mem.seen /\ journal' = mem'
      /\ \A q \in Orders \ {o} : mem'.ord[q] = mem.ord[q]
  BY <1>0, Known DEF Save, ExecState
<1> HIDE DEF r
<1>3. Fits(ticket, o, r)
  BY <1>1 DEF Fits
<1>4. ASSUME NEW k \in Attempts PROVE ~Logs(deals, mem.seen, <<o, k>>, "in")
  <2>1. <<o, k>> \in Tickets /\ <<o, k>>[1] = o
    BY DEF Tickets
  <2>2. ticket[<<o, k>>].st = "none"
    BY <1>0, <2>1 DEF Recorded, WriteAhead
  <2> QED
    BY <1>0, <2>1, <2>2, NotLogged DEF Filled
<1>5. Counted(deals, mem.seen, o, r)
  BY <1>1, <1>4 DEF Counted
<1>6. <<mem.ord[o].st, r.st>> \in Life!Edges
  BY <1>1 DEF Life!Edges
<1>7. fills'[o] <= (IF r.pos # 0 THEN 1 ELSE 0)
  <2>1. mem.ord[o].pos = 0
    BY DEF OrdersFit, Fits
  <2> QED
    BY <1>1, <2>1 DEF OrdersFit
<1>8. ASSUME NEW q \in Orders
      PROVE  /\ Fits(ticket, q, mem'.ord[q])
             /\ Counted(deals, mem'.seen, q, mem'.ord[q])
             /\ mem'.ord[q].st = mem.ord[q].st \/ <<mem.ord[q].st, mem'.ord[q].st>> \in Life!Edges
             /\ fills'[q] <= (IF mem'.ord[q].pos # 0 THEN 1 ELSE 0)
  <2>1. CASE q = o
    BY <1>2, <1>3, <1>5, <1>6, <1>7, <2>1
  <2>2. CASE q # o
    BY <1>2, <2>2 DEF OrdersFit
  <2> QED
    BY <2>1, <2>2
<1> QED
  BY <1>1, <1>2, <1>8 DEF Writes

(* A task other than the cycle, alone. *)
LEMMA SerialOther ==
    ASSUME TInv, DealLog, Serial, NEW c \in Tasks \ {"cycle"}, NEW u, Goes(c, u), Writes,
           UNCHANGED <<ticket, deals, trades, outbox>>
    PROVE  Serial' /\ DealLog' /\ Follows
<1>1. task["cycle"].pc = "idle"
  BY DEF Goes, Alone, Tasks
<1> QED
  BY <1>1, SerialTask

(* A step without a task of its own, while all are idle. *)
LEMMA StaysIdle ==
    ASSUME TypeInv, NEW c \in Tasks, task[c].pc = "idle", AtPoint(mem.ord, task[c]), Alone(c), UNCHANGED task
    PROVE  Goes(c, task[c])
<1>1. Goto(c, task[c])
  BY Known DEF Goto
<1>2. \A tk, ds, m : Answered(tk, ds, m, task[c])
  BY IdleAnswered
<1>3. \A ord : AtPoint(ord, task[c])
  BY IdleAnswered
<1> QED
  BY <1>1, <1>2, <1>3 DEF Goes

LEMMA SerialDecisions ==
    ASSUME TInv, DealLog, Serial, serial, DecisionSteps
    PROVE  Serial' /\ DealLog' /\ Follows
<1> DEFINE c == "decisions"
           t == task[c]
<1>0. /\ TypeInv /\ OneLive /\ OneTask /\ OrdersFit /\ AtPoint(mem.ord, t) /\ Answered(ticket, deals, mem, t)
      /\ c \in Tasks /\ c \in Tasks \ {"cycle"}
      /\ TaskShape(c, t, mem, Len(deals), acked) /\ t \in TaskState
      /\ mem.seen \in Nat
  BY Holds, Known DEF TInv, IInv, Serial, PointsHold, Tasks
<1>1. UNCHANGED <<ticket, deals, trades, outbox>>
  BY DEF DecisionSteps, DropDecision, RefuseEntry, Execute, Retry, FoundPosition, FoundOrder, Placed, Quiet, brokerVars
<1>2. /\ MayStart(c) => Alone(c) /\ t.pc = "idle"
      /\ t.pc # "idle" => Alone(c)
  BY <1>0, AloneSteps
<1>3. t.pc \in SendPoints =>
        /\ Alone(c) /\ t.o \in Orders /\ t.n \in Attempts /\ mem.ord[t.o].st = "sending"
        /\ <<t.o, t.n>> \in Tickets
  BY <1>0, <1>2 DEF SendPoints, OrderPoints, TaskShape, AtPoint, Tickets
<1>4. \A k : Saw(c, t.o, k) <=> Finds(t, k)
  BY DEF Saw, Finds
<1> SUFFICES (\E u : Goes(c, u)) /\ Writes
  BY <1>0, <1>1, SerialOther
<1>5. CASE DropDecision
  <2>1. Writes
    BY <1>0, <1>5, WritesNothing DEF DropDecision
  <2>2. Goes(c, t)
    BY <1>0, <1>2, <1>5, StaysIdle DEF DropDecision, DecisionWaits
  <2> QED
    BY <2>1, <2>2
<1>6. CASE RefuseEntry
  <2>1. PICK n : Save([mem EXCEPT !.seq = n])
    BY <1>6 DEF RefuseEntry
  <2>2. mem'.ord = mem.ord /\ mem'.seen = mem.seen /\ journal' = mem' /\ fills' = fills
    BY <1>0, <1>6, <2>1, Known DEF Save, ExecState, RefuseEntry
  <2>3. Writes
    BY <1>0, <2>2 DEF Writes, OrdersFit
  <2>4. Goes(c, t)
    BY <1>0, <1>2, <1>6, StaysIdle DEF RefuseEntry, DecisionWaits
  <2> QED
    BY <2>3, <2>4
<1>7. CASE Execute
  <2> DEFINE o == Decisions[NextDecision]
             v == [Idle EXCEPT !.o = o, !.n = 1]
             u == Await(v, "find_position", "open_positions", 0, 0)
  <2>1. /\ o \in Orders /\ mem.ord[o].st = "none" /\ Goto(c, u) /\ MayStart(c) /\ fills' = fills
        /\ Save([mem EXCEPT !.seq = NextDecision, !.ord[o] = [Untracked EXCEPT !.st = "sending"]])
    BY <1>0, <1>7, NewDecision DEF Execute, DecisionWaits, Admissible
  <2> HIDE DEF o
  <2>2. Writes /\ mem'.ord[o].st = "sending"
    BY <1>0, <2>1, WritesSending
  <2>3. v \in TaskState /\ v.o = o
    <3>1. 1 \in Nat
      OBVIOUS
    <3> QED
      BY <2>1, <3>1, IdleType DEF TaskState
  <2> HIDE DEF v
  <2>4. /\ u.pc = "find_position" /\ u.op = "open_positions" /\ u.o = o
        /\ Answered(ticket, deals, mem', u)
    BY <2>3, AwaitKnows
  <2> HIDE DEF u
  <2>5. AtPoint(mem'.ord, u)
    BY <2>2, <2>4 DEF AtPoint, Call, SendPoints, ConfirmPoints
  <2> QED
    BY <1>2, <2>1, <2>2, <2>4, <2>5 DEF Goes
<1>8. CASE Retry
  <2>1. Writes
    BY <1>0, <1>8, WritesNothing DEF Retry
  <2>2. t.pc \in SendPoints
    BY <1>8 DEF Retry, SendPoints
  <2>3. CASE Goto(c, Await([t EXCEPT !.n = 2], "find_position", "open_positions", 0, 0))
    <3> DEFINE v == [t EXCEPT !.n = 2]
               u == Await(v, "find_position", "open_positions", 0, 0)
    <3>1. v \in TaskState /\ v.o = t.o
      BY <1>0 DEF TaskState
    <3>2. Goto(c, u)
      BY <2>3
    <3> HIDE DEF v
    <3>3. /\ u.pc = "find_position" /\ u.op = "open_positions" /\ u.o = t.o
          /\ Answered(ticket, deals, mem', u)
      BY <3>1, AwaitKnows
    <3> HIDE DEF u
    <3>4. AtPoint(mem'.ord, u)
      BY <1>3, <1>8, <2>2, <3>3 DEF AtPoint, Call, SendPoints, ConfirmPoints, Retry
    <3> QED
      BY <1>3, <2>1, <2>2, <3>2, <3>3, <3>4 DEF Goes
  <2>4. CASE Done(c)
    BY <1>0, <1>3, <2>1, <2>2, <2>4, IdleGoes
  <2> QED
    BY <1>8, <2>3, <2>4 DEF Retry
<1>9. CASE FoundPosition
  <2>0. t.pc = "find_position" /\ t.ans # NoAnswer /\ t.ans # Lost /\ t.pc \in SendPoints
    BY <1>9 DEF FoundPosition, At, SendPoints, Internal
  <2>1. ASSUME NEW k \in Attempts, Saw(c, t.o, k), Save(Tracked(t.o, Opened(mem.ord[t.o], k))),
               fills' = Count(fills, t.o), Goto(c, ConfirmStop(t, t.o, "idle"))
        PROVE  (\E u : Goes(c, u)) /\ Writes
    <3>1. ticket[<<t.o, k>>].st \in Filled /\ ~Logs(deals, mem.seen, <<t.o, k>>, "out")
      BY <1>0, <1>4, <2>0, <2>1 DEF Answered
    <3>2. Writes /\ mem'.ord[t.o].st = "open"
      BY <1>0, <1>3, <2>0, <2>1, <3>1, WritesOpened DEF Fillable
    <3>3. AtPoint(mem'.ord, ConfirmStop(t, t.o, "idle")) /\ Answered(ticket, deals, mem', ConfirmStop(t, t.o, "idle"))
      BY <1>0, <3>2, ConfirmStopKnows
    <3> QED
      BY <1>3, <2>0, <2>1, <3>2, <3>3 DEF Goes
  <2>2. ASSUME \A k \in Attempts : ~Saw(c, t.o, k), Goto(c, Await(t, "find_order", "pending_orders", 0, 0)),
               UNCHANGED <<mem, journal, fills>>
        PROVE  (\E u : Goes(c, u)) /\ Writes
    <3> DEFINE u == Await(t, "find_order", "pending_orders", 0, 0)
    <3>1. t.o \notin Resting => \A j \in Attempts : ticket[<<t.o, j>>].st # "position"
      BY <1>0, <1>4, <2>0, <2>2 DEF Answered
    <3>2. /\ u.pc = "find_order" /\ u.op = "pending_orders" /\ u.o = t.o
          /\ Answered(ticket, deals, mem', u)
      BY <1>0, <3>1, AwaitKnows
    <3>3. Goto(c, u)
      BY <2>2
    <3> HIDE DEF u
    <3>4. AtPoint(mem'.ord, u)
      BY <1>3, <2>0, <2>2, <3>2 DEF AtPoint, Call, SendPoints, ConfirmPoints
    <3>5. Writes
      BY <1>0, <2>2, WritesNothing
    <3> QED
      BY <1>3, <2>0, <3>2, <3>3, <3>4, <3>5 DEF Goes
  <2> QED
    BY <1>9, <2>1, <2>2 DEF FoundPosition
<1>10. CASE FoundOrder
  <2>0. t.pc = "find_order" /\ t.pc \in SendPoints /\ fills' = fills
    BY <1>10 DEF FoundOrder, At, SendPoints
  <2>1. ASSUME NEW k \in Attempts, Save(Tracked(t.o, [mem.ord[t.o] EXCEPT !.st = "pending", !.oid = k])), Done(c)
        PROVE  (\E u : Goes(c, u)) /\ Writes
    <3>1. Writes
      BY <1>0, <1>3, <2>0, <2>1, WritesPending
    <3> QED
      BY <1>0, <1>3, <2>0, <2>1, <3>1, IdleGoes
  <2>2. ASSUME Goto(c, Await(t, "place", "place", t.n, mem.ord[t.o].sl)), UNCHANGED <<mem, journal>>
        PROVE  (\E u : Goes(c, u)) /\ Writes
    <3> DEFINE u == Await(t, "place", "place", t.n, mem.ord[t.o].sl)
    <3>1. t.o \notin Resting => \A j \in Attempts : ticket[<<t.o, j>>].st # "position"
      BY <1>0, <2>0 DEF Answered
    <3>2. /\ u.pc = "place" /\ u.op = "place" /\ u.o = t.o
          /\ Answered(ticket, deals, mem', u)
      BY <1>0, <3>1, AwaitKnows
    <3>3. Goto(c, u)
      BY <2>2
    <3> HIDE DEF u
    <3>4. AtPoint(mem'.ord, u)
      BY <1>3, <2>0, <2>2, <3>2 DEF AtPoint, Call, SendPoints, ConfirmPoints
    <3>5. Writes
      BY <1>0, <2>0, <2>2, WritesNothing
    <3> QED
      BY <1>3, <2>0, <3>2, <3>3, <3>4, <3>5 DEF Goes
  <2> QED
    BY <1>10, <2>1, <2>2 DEF FoundOrder
<1>11. CASE Placed
  <2>0. t.pc = "place" /\ t.pc \in SendPoints
    BY <1>11 DEF Placed, At, SendPoints
  <2>1. CASE t.ans = Nack /\ Save(Tracked(t.o, [mem.ord[t.o] EXCEPT !.st = "rejected"])) /\ Done(c) /\ fills' = fills
    <3>1. ASSUME t.o \notin Resting, NEW k \in Attempts PROVE ticket[<<t.o, k>>].st \notin Live
      <4>1. ticket[<<t.o, k>>].st # "order"
        BY <1>0, <1>3, <2>0, <3>1 DEF OneLive
      <4>2. ticket[<<t.o, k>>].st # "position"
        BY <1>0, <2>0, <2>1, <3>1 DEF Answered
      <4> QED
        BY <4>1, <4>2 DEF Live
    <3>2. Writes
      BY <1>0, <1>3, <2>0, <2>1, <3>1, WritesStage
    <3> QED
      BY <1>0, <1>3, <2>0, <2>1, <3>2, IdleGoes
  <2>2. CASE Save(Tracked(t.o, [mem.ord[t.o] EXCEPT !.st = "pending", !.oid = t.n])) /\ Done(c) /\ fills' = fills
    <3>1. Writes
      BY <1>0, <1>3, <2>0, <2>2, WritesPending
    <3> QED
      BY <1>0, <1>3, <2>0, <2>2, <3>1, IdleGoes
  <2>3. CASE /\ t.ans = Ack /\ t.o \notin Resting /\ Save(Tracked(t.o, Opened(mem.ord[t.o], t.n)))
             /\ fills' = Count(fills, t.o) /\ Goto(c, ConfirmStop(t, t.o, "idle"))
    <3>1. ticket[<<t.o, t.n>>].st \in Filled /\ ~Logs(deals, mem.seen, <<t.o, t.n>>, "out")
      BY <1>0, <2>0, <2>3 DEF Answered
    <3>2. Writes /\ mem'.ord[t.o].st = "open"
      BY <1>0, <1>3, <2>0, <2>3, <3>1, WritesOpened DEF Fillable
    <3>3. AtPoint(mem'.ord, ConfirmStop(t, t.o, "idle")) /\ Answered(ticket, deals, mem', ConfirmStop(t, t.o, "idle"))
      BY <1>0, <3>2, ConfirmStopKnows
    <3> QED
      BY <1>3, <2>0, <2>3, <3>2, <3>3 DEF Goes
  <2> QED
    BY <1>11, <2>1, <2>2, <2>3 DEF Placed
<1> QED
  BY <1>5, <1>6, <1>7, <1>8, <1>9, <1>10, <1>11 DEF DecisionSteps

-----------------------------------------------------------------------------
(* The points at which a task knows nothing in particular. *)
PlainPoints == {"deals", "cancel_list", "close_list", "close_one", "close_request", "demote_close_one"}

LEMMA PlainAwait ==
    ASSUME NEW c \in Tasks, Alone(c), NEW v \in TaskState, NEW pc \in PlainPoints, NEW op, op = Call(pc), NEW k,
           NEW sl, Goto(c, Await(v, pc, op, k, sl))
    PROVE  \E u : Goes(c, u)
<1> DEFINE u == Await(v, pc, op, k, sl)
<1>1. pc \notin {"find_order", "place"} /\ op # "cancel"
  BY DEF PlainPoints, Call
<1>2. u.pc = pc /\ u.op = op /\ Answered(ticket, deals, mem', u)
  BY <1>1, AwaitKnows
<1> HIDE DEF u
<1>3. AtPoint(mem'.ord, u)
  BY <1>1, <1>2 DEF AtPoint, PlainPoints, SendPoints, ConfirmPoints
<1> QED
  BY <1>2, <1>3 DEF Goes, u

LEMMA PlainRun ==
    ASSUME NEW c \in Tasks, Alone(c), NEW v \in TaskState, NEW pc \in Internal \ {"expire_next", "demote_cancel"},
           Goto(c, Run(v, pc))
    PROVE  \E u : Goes(c, u)
<1>1. AtPoint(mem'.ord, Run(v, pc)) /\ Answered(ticket, deals, mem', Run(v, pc))
  BY RunKnows
<1> QED
  BY <1>1 DEF Goes

(* A stop counts as confirmed. *)
LEMMA WritesConfirmed ==
    ASSUME TypeInv, OrdersFit, NEW o \in Orders, mem.ord[o].st = "open", Confirmed(o), fills' = fills,
           ticket[<<o, mem.ord[o].pos>>].st = "position" => ticket[<<o, mem.ord[o].pos>>].sl >= mem.ord[o].sl
    PROVE  Writes
<1> DEFINE q == mem.ord[o]
           r == [q EXCEPT !.conf = TRUE]
<1>0. /\ q \in TrackedOrder /\ Fits(ticket, o, q) /\ Counted(deals, mem.seen, o, q)
      /\ fills[o] <= (IF q.pos # 0 THEN 1 ELSE 0)
  BY Holds DEF OrdersFit, Tasks
<1>1. r \in TrackedOrder /\ r.st = "open" /\ r.pos = q.pos /\ r.sl = q.sl
  BY <1>0 DEF TrackedOrder
<1>2. Save(Tracked(o, r))
  BY DEF Confirmed
<1> HIDE DEF r
<1>3. Fits(ticket, o, r)
  BY <1>0, <1>1 DEF Fits
<1>4. Counted(deals, mem.seen, o, r)
  BY <1>0, <1>1 DEF Counted, Fillable
<1>5. r.st = mem.ord[o].st
  BY <1>1
<1>6. \A p \in Orders \ {o} : fills'[p] = fills[p]
  OBVIOUS
<1>7. fills'[o] <= (IF r.pos # 0 THEN 1 ELSE 0)
  BY <1>0, <1>1
<1> QED
  BY <1>1, <1>2, <1>3, <1>4, <1>5, <1>6, <1>7, WritesOrder

LEMMA SerialConfirm ==
    ASSUME TInv, DealLog, Serial, serial, NEW c \in {"decisions", "cycle"}, ConfirmSteps(c)
    PROVE  Serial' /\ DealLog' /\ Follows
<1> DEFINE t == task[c]
           p == mem.ord[t.o].pos
<1>0. /\ TypeInv /\ OneTask /\ OrdersFit /\ AtPoint(mem.ord, t) /\ Answered(ticket, deals, mem, t)
      /\ c \in Tasks /\ t \in TaskState
  BY Holds DEF TInv, IInv, Serial, PointsHold, Tasks
<1>1. /\ UNCHANGED <<ticket, deals, trades, outbox>> /\ fills' = fills
      /\ t.pc \in ConfirmPoints
  BY DEF ConfirmSteps, StopSeen, StopAsked, StopChecked, StopClosed, Quiet, brokerVars, At, ConfirmPoints
<1>2. t.pc # "idle" /\ task["cycle"].pc # "apply_deal" /\ Alone(c)
  <2>1. t.pc # "idle" /\ t.pc # "apply_deal"
    BY <1>1 DEF ConfirmPoints
  <2>2. Alone(c)
    BY <1>0, <2>1, AloneSteps
  <2>3. c = "cycle" \/ task["cycle"].pc = "idle"
    BY <2>2 DEF Alone, Tasks
  <2> QED
    BY <2>1, <2>2, <2>3
<1>3. t.o \in Orders /\ mem.ord[t.o].st = "open" /\ p \in Attempts
  <2>1. t.o \in Orders
    BY <1>0, <1>1, TaskTickets DEF ConfirmPoints, OrderPoints
  <2>2. p \in Attempts
    BY <1>0, <1>1, TaskTickets
  <2> QED
    BY <1>0, <1>1, <2>1, <2>2 DEF AtPoint
<1>4. t.pc \in {"confirm", "stop_check"} /\ t.ans # NoAnswer /\ t.ans # Lost /\ (~Saw(c, t.o, p) \/ Protected(c, t.o, p)) =>
          (ticket[<<t.o, p>>].st = "position" => ticket[<<t.o, p>>].sl >= mem.ord[t.o].sl)
  <2> SUFFICES ASSUME t.pc \in {"confirm", "stop_check"}, t.ans # NoAnswer, t.ans # Lost,
                      ~Saw(c, t.o, p) \/ Protected(c, t.o, p), ticket[<<t.o, p>>].st = "position"
               PROVE  ticket[<<t.o, p>>].sl >= mem.ord[t.o].sl
    OBVIOUS
  <2>1. Finds(t, p) /\ \A s \in 0..MaxSl : <<<<t.o, p>>, s>> \in t.ans.saw => ticket[<<t.o, p>>].sl = s
    BY <1>0 DEF Answered
  <2>2. Protected(c, t.o, p)
    BY <2>1 DEF Saw, Finds
  <2>3. mem.ord[t.o].sl \in 1..MaxSl /\ MaxSl \in Nat
    BY <1>0, <1>3, Holds, BrokerAssumption DEF TrackedOrder, BrokerAssumption
  <2>4. PICK s \in mem.ord[t.o].sl..MaxSl : <<<<t.o, p>>, s>> \in t.ans.saw
    BY <2>2 DEF Protected
  <2>5. s \in 0..MaxSl /\ s >= mem.ord[t.o].sl
    BY <2>3
  <2> QED
    BY <2>1, <2>4, <2>5
<1>5. (\E u : Goes(c, u)) /\ Writes => Serial' /\ DealLog' /\ Follows
  BY <1>0, <1>1, <1>2, SerialTask
<1>6. UNCHANGED <<mem, journal>> \/ Save(mem) => Writes
  BY <1>0, <1>1, WritesNothing DEF Save
<1>7. Return(c) => \E u : Goes(c, u)
  BY <1>0, <1>2, ReturnAlone
<1>8. ASSUME NEW v \in TaskState, v.o = t.o, AskStop(c, v), UNCHANGED <<mem, journal>> PROVE \E u : Goes(c, u)
  <2> DEFINE u == Await(v, "stop_set", "modify", mem.ord[v.o].pos, mem.ord[v.o].sl)
  <2>1. Goto(c, u)
    BY <1>8 DEF AskStop
  <2>2. /\ u.pc = "stop_set" /\ u.op = "modify" /\ u.o = t.o /\ u.k = p /\ u.sl = mem.ord[t.o].sl
        /\ Answered(ticket, deals, mem', u)
    <3> DEFINE k == mem.ord[v.o].pos
               sl == mem.ord[v.o].sl
               w == Await(v, "stop_set", "modify", k, sl)
    <3>1. k = p /\ sl = mem.ord[t.o].sl /\ u = w
      BY <1>8
    <3> HIDE DEF k, sl, p, u
    <3>2. /\ w.pc = "stop_set" /\ w.op = "modify" /\ w.o = v.o /\ w.k = k /\ w.sl = sl
          /\ Answered(ticket, deals, mem', w)
      BY <1>8, AwaitKnows
    <3> HIDE DEF w
    <3> QED
      BY <1>8, <3>1, <3>2
  <2> HIDE DEF u
  <2>3. AtPoint(mem'.ord, u)
    BY <1>3, <1>8, <2>2 DEF AtPoint, Call, SendPoints, ConfirmPoints
  <2> QED
    BY <1>2, <2>1, <2>2, <2>3 DEF Goes
<1>9. ASSUME NEW pc \in {"stop_check", "stop_close"}, NEW op, op = Call(pc), NEW k, UNCHANGED <<mem, journal>>,
             Goto(c, Await(t, pc, op, k, 0))
      PROVE  \E u : Goes(c, u)
  <2> DEFINE u == Await(t, pc, op, k, 0)
  <2>1. u.pc = pc /\ u.op = op /\ u.o = t.o /\ Answered(ticket, deals, mem', u)
    BY <1>0, AwaitKnows
  <2> HIDE DEF u
  <2>2. AtPoint(mem'.ord, u)
    BY <1>3, <1>9, <2>1 DEF AtPoint, Call, SendPoints, ConfirmPoints
  <2> QED
    BY <1>2, <1>9, <2>1, <2>2 DEF Goes, u
<1>10. Call("stop_check") = "open_positions" /\ Call("stop_close") = "close"
  BY DEF Call
<1>11. /\ [t EXCEPT !.tries = 1] \in TaskState /\ [t EXCEPT !.tries = 1].o = t.o
       /\ t.tries < 2 => [t EXCEPT !.tries = @ + 1] \in TaskState /\ [t EXCEPT !.tries = @ + 1].o = t.o
  <2>1. 1 \in 0..2 /\ (t.tries < 2 => t.tries + 1 \in 0..2)
    BY <1>0 DEF TaskState
  <2> QED
    BY <1>0, <2>1 DEF TaskState
<1>12. CASE StopSeen(c)
  <2>0. t.pc = "confirm" /\ t.ans # NoAnswer
    BY <1>12 DEF StopSeen, At, Internal
  <2>1. CASE Return(c) /\ UNCHANGED <<mem, journal>>
    BY <1>5, <1>6, <1>7, <2>1
  <2>2. CASE Protected(c, t.o, p) /\ Confirmed(t.o) /\ Return(c)
    <3>1. t.ans # Lost
      BY <2>2 DEF Protected, Lost, Answer
    <3>2. Writes
      BY <1>0, <1>1, <1>3, <1>4, <2>0, <2>2, <3>1, WritesConfirmed
    <3> QED
      BY <1>5, <1>7, <2>2, <3>2
  <2>3. CASE AskStop(c, [t EXCEPT !.tries = 1]) /\ UNCHANGED <<mem, journal>>
    BY <1>5, <1>6, <1>8, <1>11, <2>3
  <2> QED
    BY <1>12, <2>1, <2>2, <2>3 DEF StopSeen
<1>13. CASE StopAsked(c)
  <2>1. Goto(c, Await(t, "stop_check", "open_positions", 0, 0)) /\ UNCHANGED <<mem, journal>>
    BY <1>13 DEF StopAsked
  <2>2. \E u : Goes(c, u)
    BY <1>9, <1>10, <2>1
  <2> QED
    BY <1>5, <1>6, <2>1, <2>2
<1>14. CASE StopChecked(c)
  <2>0. t.pc = "stop_check" /\ t.ans # NoAnswer
    BY <1>14 DEF StopChecked, At, Internal
  <2>1. CASE Return(c) /\ UNCHANGED <<mem, journal>>
    BY <1>5, <1>6, <1>7, <2>1
  <2>2. CASE t.ans # Lost /\ (~Saw(c, t.o, p) \/ Protected(c, t.o, p)) /\ Confirmed(t.o) /\ Return(c)
    <3>1. Writes
      BY <1>0, <1>1, <1>3, <1>4, <2>0, <2>2, WritesConfirmed
    <3> QED
      BY <1>5, <1>7, <2>2, <3>1
  <2>3. CASE t.tries < 2 /\ AskStop(c, [t EXCEPT !.tries = @ + 1]) /\ UNCHANGED <<mem, journal>>
    BY <1>5, <1>6, <1>8, <1>11, <2>3
  <2>4. CASE Goto(c, Await(t, "stop_close", "close", p, 0)) /\ UNCHANGED <<mem, journal>>
    <3>1. \E u : Goes(c, u)
      BY <1>9, <1>10, <2>4
    <3> QED
      BY <1>5, <1>6, <2>4, <3>1
  <2> QED
    BY <1>14, <2>1, <2>2, <2>3, <2>4 DEF StopChecked
<1>15. CASE StopClosed(c)
  BY <1>5, <1>6, <1>7, <1>15 DEF StopClosed
<1> QED
  BY <1>12, <1>13, <1>14, <1>15 DEF ConfirmSteps

-----------------------------------------------------------------------------
(* What a task changes of its local state as it goes on. *)
LEMMA LocalStates ==
    ASSUME NEW t \in TaskState
    PROVE  /\ \A td \in SUBSET (Orders \union Tickets) : [t EXCEPT !.todo = td] \in TaskState /\ [t EXCEPT !.todo = td].todo = td
           /\ \A td \in SUBSET (Orders \union Tickets), o \in Orders :
                 LET v == [t EXCEPT !.todo = td, !.o = o] IN v \in TaskState /\ v.todo = td /\ v.o = o
           /\ \A o \in Orders : [t EXCEPT !.o = o] \in TaskState /\ [t EXCEPT !.o = o].o = o
           /\ \A n \in Nat : [t EXCEPT !.n = n] \in TaskState
           /\ [t EXCEPT !.o = NoOrder] \in TaskState /\ [t EXCEPT !.o = NoOrder].todo = t.todo
           /\ \A n \in Nat : LET v == [t EXCEPT !.o = NoOrder, !.n = n] IN v \in TaskState /\ v.todo = t.todo
<1>1. \A td \in SUBSET (Orders \union Tickets) : [t EXCEPT !.todo = td] \in TaskState /\ [t EXCEPT !.todo = td].todo = td
  BY DEF TaskState
<1>2. ASSUME NEW o \in Orders \union {NoOrder}
      PROVE  /\ [t EXCEPT !.o = o] \in TaskState /\ [t EXCEPT !.o = o].o = o /\ [t EXCEPT !.o = o].todo = t.todo
             /\ \A td \in SUBSET (Orders \union Tickets) :
                   LET v == [t EXCEPT !.todo = td, !.o = o] IN v \in TaskState /\ v.todo = td /\ v.o = o
             /\ \A n \in Nat : LET v == [t EXCEPT !.o = o, !.n = n] IN v \in TaskState /\ v.todo = t.todo
  <2>1. [t EXCEPT !.o = o] \in TaskState /\ [t EXCEPT !.o = o].o = o /\ [t EXCEPT !.o = o].todo = t.todo
    BY DEF TaskState
  <2>2. ASSUME NEW td \in SUBSET (Orders \union Tickets)
        PROVE  LET v == [t EXCEPT !.todo = td, !.o = o] IN v \in TaskState /\ v.todo = td /\ v.o = o
    BY DEF TaskState
  <2>3. ASSUME NEW n \in Nat
        PROVE  LET v == [t EXCEPT !.o = o, !.n = n] IN v \in TaskState /\ v.todo = t.todo
    BY DEF TaskState
  <2> QED
    BY <2>1, <2>2, <2>3
<1>3. \A n \in Nat : [t EXCEPT !.n = n] \in TaskState
  BY DEF TaskState
<1> QED
  BY <1>1, <1>2, <1>3

(* A cancel of the ticket an order rests under... *)
LEMMA CancelGoes ==
    ASSUME TypeInv, OrdersFit, NEW c \in Tasks, Alone(c), NEW v \in TaskState, v.o \in Orders, NEW k \in Attempts,
           NEW pc \in {"cancel_one", "cancel_request", "demote_cancel_one", "expire_cancel"},
           pc # "cancel_one" => mem'.ord[v.o].st = "pending",
           pc = "demote_cancel_one" => v.o \notin v.todo /\ \A q \in v.todo : mem'.ord[q].st = "pending",
           pc = "expire_cancel" => v.o \in Timed /\ v.todo \subseteq Timed,
           Goto(c, Await(v, pc, "cancel", k, 0))
    PROVE  \E u : Goes(c, u)
<1> DEFINE u == Await(v, pc, "cancel", k, 0)
<1>1. pc \notin {"find_order", "place"}
  OBVIOUS
<1>2. u.pc = pc /\ u.op = "cancel" /\ u.o = v.o /\ u.k = k /\ u.todo = v.todo /\ Answered(ticket, deals, mem', u)
  BY <1>1, AwaitKnows
<1> HIDE DEF u
<1>3. AtPoint(mem'.ord, u)
  BY <1>2 DEF AtPoint, Call, SendPoints, ConfirmPoints
<1> QED
  BY <1>2, <1>3 DEF Goes, u

(* ...and its answer. *)
LEMMA WritesCancelled ==
    ASSUME TypeInv, OrdersFit, NEW c \in Tasks, AtPoint(mem.ord, task[c]), Answered(ticket, deals, mem, task[c]),
           task[c].pc \in {"cancel_one", "cancel_request", "demote_cancel_one"}, task[c].ans = Ack,
           mem.ord[task[c].o].st = "pending", fills' = fills,
           LET o == task[c].o IN \/ Save(Tracked(o, [mem.ord[o] EXCEPT !.st = "cancelled"]))
                                 \/ Keep(Tracked(o, [mem.ord[o] EXCEPT !.st = "cancelled"]))
    PROVE  Writes /\ \A q \in Orders \ {task[c].o} : mem'.ord[q] = mem.ord[q]
<1>1. task[c].o \in Orders /\ task[c].k \in Attempts
  BY DEF AtPoint, Call
<1>2. ticket[<<task[c].o, task[c].k>>].st = "gone"
  BY DEF Answered
<1> QED
  BY <1>1, <1>2, WritesStage

(* A stop is tracked as tight as the broker has it. *)
LEMMA WritesTightened ==
    ASSUME TypeInv, OrdersFit, NEW o \in Orders, mem.ord[o].st = "open", NEW sl \in 1..MaxSl,
           Save(Tracked(o, [mem.ord[o] EXCEPT !.sl = sl])), fills' = fills,
           ticket[<<o, mem.ord[o].pos>>].st = "position" => ticket[<<o, mem.ord[o].pos>>].sl = sl
    PROVE  Writes
<1> DEFINE q == mem.ord[o]
           r == [q EXCEPT !.sl = sl]
<1>0. /\ q \in TrackedOrder /\ Fits(ticket, o, q) /\ Counted(deals, mem.seen, o, q)
      /\ fills[o] <= (IF q.pos # 0 THEN 1 ELSE 0)
  BY Holds DEF OrdersFit, Tasks
<1>1. r \in TrackedOrder /\ r.st = "open" /\ r.pos = q.pos /\ r.sl = sl
  BY <1>0 DEF TrackedOrder
<1>2. Save(Tracked(o, r)) /\ sl >= sl
  OBVIOUS
<1> HIDE DEF r
<1>3. Fits(ticket, o, r)
  BY <1>0, <1>1, <1>2 DEF Fits
<1>4. Counted(deals, mem.seen, o, r)
  BY <1>0, <1>1 DEF Counted, Fillable
<1>5. r.st = mem.ord[o].st
  BY <1>1
<1>6. \A p \in Orders \ {o} : fills'[p] = fills[p]
  OBVIOUS
<1>7. fills'[o] <= (IF r.pos # 0 THEN 1 ELSE 0)
  BY <1>0, <1>1
<1> QED
  BY <1>1, <1>2, <1>3, <1>4, <1>5, <1>6, <1>7, WritesOrder

StartControls ==
    \/ \E op \in {"halt", "halt_close"} : Halt(op)
    \/ \E o \in Orders : RequestCancel(o) \/ RequestClose(o) \/ \E sl \in 1..MaxSl : RequestTighten(o, sl)
    \/ Demote

LEMMA ControlStarts ==
    ASSUME TypeInv, OneTask, serial, OrdersFit, StartControls
    PROVE  \E u : Goes("control", u)
<1>0. "control" \in Tasks /\ Idle \in TaskState
  BY IdleType DEF Tasks
<1>1. UNCHANGED <<mem, journal, fills>> /\ MayStart("control")
  BY DEF StartControls, Halt, RequestCancel, RequestClose, RequestTighten, Demote, StartControl
<1>2. Alone("control")
  BY <1>0, <1>1, AloneSteps
<1>3. ASSUME NEW op, Halt(op) PROVE \E u : Goes("control", u)
  <2>1. PICK n \in {0, 1} : Goto("control", Await([Idle EXCEPT !.n = n], "cancel_list", "pending_orders", 0, 0))
    BY <1>3 DEF Halt
  <2>2. [Idle EXCEPT !.n = n] \in TaskState
    BY <1>0, LocalStates
  <2>3. "cancel_list" \in PlainPoints /\ "pending_orders" = Call("cancel_list")
    BY DEF PlainPoints, Call
  <2> QED
    BY <1>0, <1>2, <2>1, <2>2, <2>3, PlainAwait
<1>4. ASSUME NEW o \in Orders
      PROVE  /\ [Idle EXCEPT !.o = o] \in TaskState /\ [Idle EXCEPT !.o = o].o = o
             /\ mem.ord[o] \in TrackedOrder /\ mem.ord[o].pos \in 0..2 /\ mem.ord[o].oid \in 0..2
  <2>1. mem.ord[o] \in TrackedOrder
    BY <1>0, Holds
  <2> QED
    BY <1>0, <2>1, LocalStates DEF TrackedOrder
<1>5. ASSUME NEW o \in Orders, RequestCancel(o) PROVE \E u : Goes("control", u)
  <2> DEFINE v == [Idle EXCEPT !.o = o]
  <2>1. mem'.ord[o].st = "pending" /\ mem.ord[o].oid \in Attempts
    BY <1>1, <1>4, <1>5 DEF RequestCancel, Attempts
  <2>2. Goto("control", Await(v, "cancel_request", "cancel", mem.ord[o].oid, 0)) /\ v \in TaskState /\ v.o = o
    BY <1>4, <1>5 DEF RequestCancel
  <2> HIDE DEF v
  <2> QED
    BY <1>0, <1>2, <2>1, <2>2, CancelGoes
<1>6. ASSUME NEW o \in Orders, RequestClose(o) PROVE \E u : Goes("control", u)
  <2>1. "close_request" \in PlainPoints /\ "close" = Call("close_request")
    BY DEF PlainPoints, Call
  <2>2. Goto("control", Await([Idle EXCEPT !.o = o], "close_request", "close", mem.ord[o].pos, 0))
    BY <1>6 DEF RequestClose
  <2> QED
    BY <1>0, <1>2, <1>4, <2>1, <2>2, PlainAwait
<1>7. ASSUME NEW o \in Orders, NEW sl \in 1..MaxSl, RequestTighten(o, sl) PROVE \E u : Goes("control", u)
  <2> DEFINE v == [Idle EXCEPT !.o = o]
             u == Await(v, "tighten", "modify", mem.ord[o].pos, sl)
  <2>1. Goto("control", u) /\ v \in TaskState /\ v.o = o /\ mem.ord[o].st = "open" /\ sl > mem.ord[o].sl
    BY <1>4, <1>7 DEF RequestTighten
  <2> HIDE DEF v
  <2>2. /\ u.pc = "tighten" /\ u.op = "modify" /\ u.o = o /\ u.k = mem.ord[o].pos /\ u.sl = sl
        /\ Answered(ticket, deals, mem', u)
    BY <2>1, AwaitKnows
  <2> HIDE DEF u
  <2>3. AtPoint(mem'.ord, u)
    BY <1>1, <2>1, <2>2 DEF AtPoint, Call, SendPoints, ConfirmPoints
  <2> QED
    BY <1>2, <2>1, <2>2, <2>3 DEF Goes
<1>8. CASE Demote
  <2> DEFINE td == {o \in Orders : mem.ord[o].st = "pending"}
             v == [Idle EXCEPT !.todo = td]
             u == Run(v, "demote_cancel")
  <2>1. Goto("control", u)
    BY <1>8 DEF Demote
  <2>2. v \in TaskState /\ v.todo = td
    <3>1. td \in SUBSET (Orders \union Tickets)
      OBVIOUS
    <3> HIDE DEF td
    <3> QED
      BY <1>0, <3>1, LocalStates
  <2>3. \A o \in v.todo : mem'.ord[o].st = "pending"
    BY <1>1, <2>2
  <2> HIDE DEF v, td
  <2>4. AtPoint(mem'.ord, u) /\ Answered(ticket, deals, mem', u)
    BY <2>2, <2>3, RunKnows DEF Internal
  <2> QED
    BY <1>2, <2>1, <2>4 DEF Goes
<1> QED
  BY <1>3, <1>5, <1>6, <1>7, <1>8, Zenon DEF StartControls

GoingControls ==
    ControlLost \/ GotList \/ CancelNext \/ CancelledOne \/ CloseNext \/ ClosedOne \/ RequestDone \/ DemoteNext
    \/ DemotedOne

LEMMA ControlGoes ==
    ASSUME TInv, Serial, serial, GoingControls
    PROVE  (\E u : Goes("control", u)) /\ Writes
<1> DEFINE c == "control"
           t == task[c]
<1>0. /\ TypeInv /\ OneTask /\ OrdersFit /\ AtPoint(mem.ord, t) /\ Answered(ticket, deals, mem, t)
      /\ c \in Tasks /\ t \in TaskState /\ TaskShape(c, t, mem, Len(deals), acked)
      /\ \A o \in Orders : mem.ord[o] \in TrackedOrder
  BY Holds DEF TInv, IInv, Serial, PointsHold, Tasks
<1>1. fills' = fills /\ t.pc # "idle"
  BY DEF GoingControls, ControlLost, GotList, CancelNext, CancelledOne, CloseNext, ClosedOne, RequestDone, DemoteNext,
         DemotedOne, At
<1>2. Alone(c)
  BY <1>0, <1>1, AloneSteps
<1>3. UNCHANGED <<mem, journal>> \/ Save(mem) => Writes
  BY <1>0, <1>1, WritesNothing DEF Save
<1>4. Done(c) => \E u : Goes(c, u)
  BY <1>0, <1>2, IdleGoes
<1>5. /\ \A pc \in {"cancel_next", "close_next", "demote_close"} : \A v \in TaskState :
             Goto(c, Run(v, pc)) => \E u : Goes(c, u)
  <2>1. {"cancel_next", "close_next", "demote_close"} \subseteq Internal \ {"expire_next", "demote_cancel"}
    BY DEF Internal
  <2> QED
    BY <1>0, <1>2, <2>1, PlainRun
<1>6. \A v \in TaskState : \A k :
        /\ Goto(c, Await(v, "close_list", "open_positions", k, 0)) => \E u : Goes(c, u)
        /\ Goto(c, Await(v, "close_one", "close", k, 0)) => \E u : Goes(c, u)
        /\ Goto(c, Await(v, "demote_close_one", "close", k, 0)) => \E u : Goes(c, u)
  <2>1. /\ {"close_list", "close_one", "demote_close_one"} \subseteq PlainPoints
        /\ Call("close_list") = "open_positions" /\ Call("close_one") = "close" /\ Call("demote_close_one") = "close"
    BY DEF PlainPoints, Call
  <2> QED
    BY <1>0, <1>2, <2>1, PlainAwait
<1>7. t.pc \in HaltPoints => t.todo \subseteq Tickets
  BY <1>0 DEF TaskShape
<1>8. t.pc \in {"demote_cancel", "demote_close"} => t.todo \subseteq Orders
  BY <1>0 DEF TaskShape, HaltPoints
<1>9. /\ \A td \in SUBSET (Orders \union Tickets) : [t EXCEPT !.todo = td] \in TaskState
      /\ [t EXCEPT !.o = NoOrder] \in TaskState /\ [t EXCEPT !.o = NoOrder].todo = t.todo
      /\ LET v == [t EXCEPT !.o = NoOrder, !.n = 1] IN v \in TaskState /\ v.todo = t.todo
  BY <1>0, LocalStates
<1>10. CASE ControlLost
  BY <1>3, <1>4, <1>10 DEF ControlLost
<1>11. CASE GotList
  <2>1. Listed(t) \in SUBSET (Orders \union Tickets)
    BY <1>0 DEF Listed, TaskState, Tickets
  <2>2. /\ UNCHANGED <<mem, journal>>
        /\ \/ Goto(c, Run([t EXCEPT !.todo = Listed(t)], "cancel_next"))
           \/ Goto(c, Run([t EXCEPT !.todo = Listed(t)], "close_next"))
    BY <1>11 DEF GotList
  <2>3. \E u : Goes(c, u)
    BY <1>5, <1>9, <2>1, <2>2
  <2> QED
    BY <1>3, <2>2, <2>3
<1>12. CASE CancelNext
  <2>0. t.pc = "cancel_next" /\ t.todo \subseteq Tickets
    BY <1>7, <1>12 DEF CancelNext, At, HaltPoints
  <2>1. ASSUME NEW i \in t.todo, UNCHANGED <<mem, journal>>,
               Goto(c, Await([t EXCEPT !.todo = @ \ {i}, !.o = i[1]], "cancel_one", "cancel", i[2], 0))
        PROVE  \E u : Goes(c, u)
    <3> DEFINE td == t.todo \ {i}
               v == [t EXCEPT !.todo = td, !.o = i[1]]
    <3>1. i[1] \in Orders /\ i[2] \in Attempts /\ td \in SUBSET (Orders \union Tickets)
      BY <2>0 DEF Tickets
    <3>2. Goto(c, Await(v, "cancel_one", "cancel", i[2], 0))
      BY <2>1
    <3> HIDE DEF td
    <3>3. v \in TaskState /\ v.o = i[1]
      <4>1. v \in TaskState
        BY <1>0, <3>1, LocalStates
      <4>2. v.o = i[1]
        BY <1>0 DEF TaskState
      <4> QED
        BY <4>1, <4>2
    <3> HIDE DEF v
    <3> QED
      BY <1>0, <1>2, <3>1, <3>2, <3>3, CancelGoes
  <2>2. CASE Save(mem) /\ (Goto(c, Await(t, "close_list", "open_positions", 0, 0)) \/ Done(c))
    BY <1>0, <1>3, <1>4, <1>6, <2>2
  <2> QED
    BY <1>3, <1>12, <2>1, <2>2 DEF CancelNext
<1>13. CASE CancelledOne
  <2>0. t.pc = "cancel_one" /\ Goto(c, Run([t EXCEPT !.o = NoOrder], "cancel_next"))
    BY <1>13 DEF CancelledOne, At
  <2>1. \E u : Goes(c, u)
    BY <1>5, <1>9, <2>0
  <2>2. CASE t.ans = Ack /\ mem.ord[t.o].st = "pending" /\ Keep(Tracked(t.o, [mem.ord[t.o] EXCEPT !.st = "cancelled"]))
    BY <1>0, <1>1, <2>0, <2>1, <2>2, WritesCancelled
  <2> QED
    BY <1>3, <1>13, <2>1, <2>2 DEF CancelledOne
<1>14. CASE CloseNext
  <2>0. t.pc = "close_next" /\ t.todo \subseteq Tickets
    BY <1>7, <1>14 DEF CloseNext, At, HaltPoints
  <2>1. ASSUME NEW i \in t.todo,
               Goto(c, Await([t EXCEPT !.todo = @ \ {i}, !.o = i[1]], "close_one", "close", i[2], 0))
        PROVE  \E u : Goes(c, u)
    <3> DEFINE td == t.todo \ {i}
               v == [t EXCEPT !.todo = td, !.o = i[1]]
    <3>1. i[1] \in Orders /\ td \in SUBSET (Orders \union Tickets)
      BY <2>0 DEF Tickets
    <3>2. Goto(c, Await(v, "close_one", "close", i[2], 0))
      BY <2>1
    <3> HIDE DEF td
    <3>3. v \in TaskState
      BY <1>0, <3>1, LocalStates
    <3> HIDE DEF v
    <3> QED
      BY <1>6, <3>2, <3>3
  <2> QED
    BY <1>3, <1>4, <1>14, <2>1 DEF CloseNext
<1>15. CASE ClosedOne
  <2>1. Goto(c, Run([t EXCEPT !.o = NoOrder], "close_next")) /\ UNCHANGED <<mem, journal>>
    BY <1>15 DEF ClosedOne
  <2>2. \E u : Goes(c, u)
    BY <1>5, <1>9, <2>1
  <2> QED
    BY <1>3, <2>1, <2>2
<1>16. CASE RequestDone
  <2>1. CASE UNCHANGED <<mem, journal>> \/ Save(mem)
    BY <1>3, <1>4, <1>16, <2>1 DEF RequestDone
  <2>2. CASE t.pc = "cancel_request" /\ t.ans = Ack /\ Save(Tracked(t.o, [mem.ord[t.o] EXCEPT !.st = "cancelled"]))
    <3>1. mem.ord[t.o].st = "pending"
      BY <1>0, <2>2 DEF AtPoint
    <3>2. Writes
      BY <1>0, <1>1, <2>2, <3>1, WritesCancelled
    <3> QED
      BY <1>4, <1>16, <3>2 DEF RequestDone
  <2>3. CASE t.pc = "tighten" /\ t.ans = Ack /\ Save(Tracked(t.o, [mem.ord[t.o] EXCEPT !.sl = t.sl]))
    <3>1. t.o \in Orders /\ mem.ord[t.o].st = "open" /\ t.sl \in 1..MaxSl /\ t.k = mem.ord[t.o].pos
      BY <1>0, <2>3 DEF AtPoint, TaskShape, OrderPoints
    <3>2. ticket[<<t.o, mem.ord[t.o].pos>>].st = "position" => ticket[<<t.o, mem.ord[t.o].pos>>].sl = t.sl
      BY <1>0, <2>3, <3>1 DEF Answered
    <3>3. Writes
      BY <1>0, <1>1, <2>3, <3>1, <3>2, WritesTightened
    <3> QED
      BY <1>4, <1>16, <3>3 DEF RequestDone
  <2> QED
    BY <1>16, <2>1, <2>2, <2>3 DEF RequestDone
<1>17. CASE DemoteNext
  <2>1. ASSUME NEW o \in t.todo, t.pc = "demote_cancel", UNCHANGED <<mem, journal>>,
               Goto(c, Await([t EXCEPT !.todo = @ \ {o}, !.o = o], "demote_cancel_one", "cancel", mem.ord[o].oid, 0))
        PROVE  \E u : Goes(c, u)
    <3> DEFINE td == t.todo \ {o}
               v == [t EXCEPT !.todo = td, !.o = o]
    <3>1. o \in Orders /\ td \in SUBSET (Orders \union Tickets)
      BY <1>8, <2>1
    <3>2. Goto(c, Await(v, "demote_cancel_one", "cancel", mem.ord[o].oid, 0))
      BY <2>1
    <3>3. \A q \in t.todo : mem'.ord[q].st = "pending"
      BY <1>0, <2>1 DEF AtPoint
    <3>4. o \notin td /\ (\A q \in td : mem'.ord[q].st = "pending") /\ mem'.ord[o].st = "pending"
      BY <3>3
    <3>5. mem.ord[o].oid \in Attempts
      <4>1. Fits(ticket, o, mem.ord[o]) /\ mem.ord[o].st = "pending" /\ mem.ord[o].oid \in 0..2
        BY <1>0, <2>1, <3>1, <3>4 DEF OrdersFit, TrackedOrder
      <4> QED
        BY <4>1 DEF Fits, Attempts
    <3> HIDE DEF td
    <3>6. v \in TaskState /\ v.o = o /\ v.todo = td
      <4>1. v \in TaskState
        BY <1>0, <3>1, LocalStates
      <4>2. v.o = o /\ v.todo = td
        BY <1>0 DEF TaskState
      <4> QED
        BY <4>1, <4>2
    <3> HIDE DEF v
    <3> QED
      BY <1>0, <1>2, <3>1, <3>2, <3>4, <3>5, <3>6, CancelGoes
  <2>2. CASE /\ Save(mem)
             /\ Done(c) \/ Goto(c, Run([t EXCEPT !.todo = {o \in Orders : mem.ord[o].st = "open"}], "demote_close"))
    <3>1. {o \in Orders : mem.ord[o].st = "open"} \in SUBSET (Orders \union Tickets)
      OBVIOUS
    <3>2. \E u : Goes(c, u)
      BY <1>4, <1>5, <1>9, <2>2, <3>1
    <3> QED
      BY <1>3, <2>2, <3>2
  <2>3. ASSUME NEW o \in t.todo, t.pc = "demote_close",
               Goto(c, Await([t EXCEPT !.todo = @ \ {o}, !.o = o], "demote_close_one", "close", mem.ord[o].pos, 0))
        PROVE  \E u : Goes(c, u)
    <3> DEFINE td == t.todo \ {o}
               v == [t EXCEPT !.todo = td, !.o = o]
    <3>1. o \in Orders /\ td \in SUBSET (Orders \union Tickets)
      BY <1>8, <2>3
    <3>2. Goto(c, Await(v, "demote_close_one", "close", mem.ord[o].pos, 0))
      BY <2>3
    <3> HIDE DEF td
    <3>3. v \in TaskState
      BY <1>0, <3>1, LocalStates
    <3> HIDE DEF v
    <3> QED
      BY <1>6, <3>2, <3>3
  <2>4. CASE /\ At(c, "demote_cancel")
             /\ \/ /\ \E o \in t.todo :
                        Goto(c, Await([t EXCEPT !.todo = @ \ {o}, !.o = o], "demote_cancel_one", "cancel", mem.ord[o].oid, 0))
                   /\ UNCHANGED <<mem, journal>>
                \/ /\ Save(mem)
                   /\ IF t.n = 1 THEN Done(c)
                      ELSE Goto(c, Run([t EXCEPT !.todo = {o \in Orders : mem.ord[o].st = "open"}], "demote_close"))
    BY <1>3, <2>1, <2>2, <2>4 DEF At
  <2>5. CASE /\ At(c, "demote_close") /\ UNCHANGED <<mem, journal>>
             /\ \/ \E o \in t.todo :
                     Goto(c, Await([t EXCEPT !.todo = @ \ {o}, !.o = o], "demote_close_one", "close", mem.ord[o].pos, 0))
                \/ Done(c)
    BY <1>3, <1>4, <2>3, <2>5 DEF At
  <2> QED
    BY <1>17, <2>4, <2>5, Zenon DEF DemoteNext
<1>18. CASE DemotedOne
  <2>0. \A q \in t.todo : t.pc = "demote_cancel_one" => mem.ord[q].st = "pending" /\ q # t.o /\ q \in Orders
    <3>1. t.pc = "demote_cancel_one" => t.todo \subseteq Orders
      BY <1>0 DEF TaskShape, HaltPoints
    <3> QED
      BY <1>0, <3>1 DEF AtPoint
  <2>1. ASSUME NEW v \in TaskState, v.todo = t.todo, \A q \in t.todo : mem'.ord[q].st = "pending",
               Goto(c, Run(v, "demote_cancel"))
        PROVE  \E u : Goes(c, u)
    <3>1. AtPoint(mem'.ord, Run(v, "demote_cancel")) /\ Answered(ticket, deals, mem', Run(v, "demote_cancel"))
      <4>1. "demote_cancel" \in Internal /\ "demote_cancel" # "expire_next"
        BY DEF Internal
      <4> QED
        BY <2>1, <4>1, RunKnows
    <3> QED
      BY <1>2, <2>1, <3>1 DEF Goes
  <2>2. CASE /\ t.pc = "demote_cancel_one" /\ t.ans = Ack /\ Keep(Tracked(t.o, [mem.ord[t.o] EXCEPT !.st = "cancelled"]))
             /\ Goto(c, Run([t EXCEPT !.o = NoOrder], "demote_cancel"))
    <3>1. mem.ord[t.o].st = "pending"
      BY <1>0, <2>2 DEF AtPoint
    <3>2. Writes /\ \A q \in Orders \ {t.o} : mem'.ord[q] = mem.ord[q]
      BY <1>0, <1>1, <2>2, <3>1, WritesCancelled
    <3>3. \A q \in t.todo : mem'.ord[q].st = "pending"
      BY <2>0, <2>2, <3>2
    <3> QED
      BY <1>9, <2>1, <2>2, <3>2, <3>3
  <2>3. CASE /\ t.pc = "demote_cancel_one" /\ Goto(c, Run([t EXCEPT !.o = NoOrder, !.n = 1], "demote_cancel"))
             /\ UNCHANGED <<mem, journal>>
    <3>1. \A q \in t.todo : mem'.ord[q].st = "pending"
      BY <2>0, <2>3
    <3>2. \E u : Goes(c, u)
      BY <1>9, <2>1, <2>3, <3>1
    <3> QED
      BY <1>3, <2>3, <3>2
  <2>4. CASE Goto(c, Run([t EXCEPT !.o = NoOrder], "demote_close")) /\ (Save(mem) \/ UNCHANGED <<mem, journal>>)
    <3>1. \E u : Goes(c, u)
      BY <1>5, <1>9, <2>4
    <3> QED
      BY <1>3, <2>4, <3>1
  <2> QED
    BY <1>18, <2>2, <2>3, <2>4 DEF DemotedOne, At
<1> QED
  BY <1>10, <1>11, <1>12, <1>13, <1>14, <1>15, <1>16, <1>17, <1>18 DEF GoingControls

LEMMA SerialControl ==
    ASSUME TInv, DealLog, Serial, serial, ControlSteps
    PROVE  Serial' /\ DealLog' /\ Follows
<1>0. TypeInv /\ OneTask /\ OrdersFit /\ "control" \in Tasks \ {"cycle"}
  BY DEF TInv, IInv, Serial, Tasks
<1>1. UNCHANGED <<ticket, deals, trades, outbox>>
  BY DEF ControlSteps, Halt, RequestCancel, RequestClose, RequestTighten, Demote, StartControl,
         ControlLost, GotList, CancelNext, CancelledOne, CloseNext, ClosedOne, RequestDone,
         DemoteNext, DemotedOne, Quiet, brokerVars
<1>2. StartControls \/ GoingControls
  BY DEF ControlSteps, StartControls, GoingControls
<1>3. (\E u : Goes("control", u)) /\ Writes
  <2>1. CASE StartControls
    <3>1. UNCHANGED <<mem, journal, fills>>
      BY <2>1 DEF StartControls, Halt, RequestCancel, RequestClose, RequestTighten, Demote, StartControl
    <3>2. Writes
      BY <1>0, <3>1, WritesNothing
    <3> QED
      BY <1>0, <2>1, <3>2, ControlStarts
  <2>2. CASE GoingControls
    BY <2>2, ControlGoes
  <2> QED
    BY <1>2, <2>1, <2>2
<1> QED
  BY <1>0, <1>1, <1>3, SerialOther

-----------------------------------------------------------------------------
(* The cycle, but for the deal it applies. *)
LEMMA CycleGoesOn ==
    ASSUME TypeInv, OneTask, serial, OrdersFit, AtPoint(mem.ord, task["cycle"]),
           StartCycle \/ CycleLost \/ GotDeals \/ DealsApplied \/ ExpireDone \/ StopsNext
    PROVE  /\ \E u : Goes("cycle", u)
           /\ fills' = fills /\ (Save(mem) \/ UNCHANGED <<mem, journal>>)
           /\ task["cycle"].pc = "apply_deal" => Save(mem) \/ ~(mem.seen > task["cycle"].m)
<1> DEFINE c == "cycle"
           t == task[c]
<1>0. /\ c \in Tasks /\ t \in TaskState /\ Idle \in TaskState
      /\ t.ans.n \in Nat /\ mem.seen \in Nat
      /\ due \subseteq Timed /\ Timed \subseteq Orders
  <2>1. t \in TaskState /\ mem.seen \in Nat /\ c \in Tasks
    BY Known
  <2>2. due \subseteq Timed /\ Timed \subseteq Orders
    BY BrokerAssumption DEF TypeInv, TypeOK, BrokerTypeOK, BrokerAssumption
  <2>3. t.ans.n \in Nat
    BY <2>1 DEF TaskState
  <2> QED
    BY <2>1, <2>2, <2>3, IdleType
<1>1. /\ MayStart(c) => Alone(c) /\ t.pc = "idle"
      /\ t.pc # "idle" => Alone(c)
  BY <1>0, AloneSteps
<1>2. CASE StartCycle
  <2>1. "deals" \in PlainPoints /\ "deals" = Call("deals")
    BY DEF PlainPoints, Call
  <2>2. MayStart(c) /\ Goto(c, Await(Idle, "deals", "deals", 0, 0)) /\ UNCHANGED <<mem, journal, fills>>
    BY <1>2 DEF StartCycle
  <2>3. \E u : Goes(c, u)
    BY <1>0, <1>1, <2>1, <2>2, PlainAwait
  <2> QED
    BY <1>1, <2>2, <2>3
<1>3. CASE CycleLost
  <2>1. t.pc \notin {"idle", "apply_deal"} /\ Done(c) /\ UNCHANGED <<mem, journal, fills>>
    BY <1>3 DEF CycleLost
  <2> QED
    BY <1>0, <1>1, <2>1, IdleGoes
<1>4. CASE GotDeals
  <2> DEFINE v == [t EXCEPT !.n = t.ans.n, !.m = mem.seen]
  <2>1. t.pc = "deals" /\ Goto(c, Run(v, "apply_deal")) /\ UNCHANGED <<mem, journal, fills>>
    BY <1>4 DEF GotDeals, At
  <2>2. v \in TaskState
    BY <1>0 DEF TaskState
  <2>3. "apply_deal" \in Internal \ {"expire_next", "demote_cancel"}
    BY DEF Internal
  <2> HIDE DEF v
  <2>4. \E u : Goes(c, u)
    BY <1>0, <1>1, <2>1, <2>2, <2>3, PlainRun
  <2> QED
    BY <2>1, <2>4
<1>5. CASE DealsApplied
  <2> DEFINE td == {o \in due : mem.ord[o].st \in Active}
             v == [t EXCEPT !.n = 0, !.m = 0, !.todo = td]
  <2>1. /\ t.pc = "apply_deal" /\ Goto(c, Run(v, "expire_next")) /\ fills' = fills
        /\ IF mem.seen > t.m THEN Save(mem) ELSE UNCHANGED <<mem, journal>>
    BY <1>5 DEF DealsApplied, At
  <2>2. v \in TaskState /\ v.todo = td
    BY <1>0 DEF TaskState
  <2>3. v.todo \subseteq Timed /\ "expire_next" \in Internal
    BY <1>0, <2>2 DEF Internal
  <2> HIDE DEF v, td
  <2>4. AtPoint(mem'.ord, Run(v, "expire_next")) /\ Answered(ticket, deals, mem', Run(v, "expire_next"))
    BY <2>2, <2>3, RunKnows
  <2> QED
    BY <1>1, <2>1, <2>4 DEF Goes
<1>6. CASE ExpireDone
  <2> DEFINE td == {o \in Orders : mem.ord[o].st \in Active}
             v == [t EXCEPT !.n = 0, !.todo = td]
  <2>1. /\ t.pc = "expire_next" /\ Goto(c, Run(v, "stops_next")) /\ fills' = fills
        /\ Save(mem) \/ UNCHANGED <<mem, journal>>
    BY <1>6 DEF ExpireDone, At
  <2>2. v \in TaskState
    BY <1>0 DEF TaskState
  <2>3. "stops_next" \in Internal \ {"expire_next", "demote_cancel"}
    BY DEF Internal
  <2> HIDE DEF v, td
  <2>4. \E u : Goes(c, u)
    BY <1>0, <1>1, <2>1, <2>2, <2>3, PlainRun
  <2> QED
    BY <2>1, <2>4
<1>7. CASE StopsNext
  <2>0. t.pc = "stops_next" /\ UNCHANGED <<mem, journal, fills>>
    BY <1>7 DEF StopsNext, At
  <2>1. ASSUME NEW o \in Unconfirmed(t), Goto(c, ConfirmStop([t EXCEPT !.todo = @ \ {o}], o, "stops_next"))
        PROVE  \E u : Goes(c, u)
    <3> DEFINE td == t.todo \ {o}
               v == [t EXCEPT !.todo = td]
    <3>1. v \in TaskState
      <4>1. td \in SUBSET (Orders \union Tickets)
        BY <1>0 DEF TaskState
      <4> QED
        BY <1>0, <4>1, LocalStates
    <3>2. mem'.ord[o].st = "open" /\ Goto(c, ConfirmStop(v, o, "stops_next"))
      BY <2>0, <2>1 DEF Unconfirmed
    <3> HIDE DEF v
    <3>3. AtPoint(mem'.ord, ConfirmStop(v, o, "stops_next")) /\ Answered(ticket, deals, mem', ConfirmStop(v, o, "stops_next"))
      BY <3>1, <3>2, ConfirmStopKnows
    <3> QED
      BY <1>1, <2>0, <3>2, <3>3 DEF Goes
  <2>2. ASSUME Done(c) PROVE \E u : Goes(c, u)
    BY <1>0, <1>1, <2>0, <2>2, IdleGoes
  <2> QED
    BY <1>7, <2>0, <2>1, <2>2 DEF StopsNext
<1> QED
  BY <1>2, <1>3, <1>4, <1>5, <1>6, <1>7

(* An order that is cancelled at the broker, or no longer there, counts as expired. *)
LEMMA ExpiredGoes ==
    ASSUME TypeInv, OrdersFit, Alone("cycle"), AtPoint(mem.ord, task["cycle"]), fills' = fills,
           task["cycle"].pc \in {"expire_cancel", "expire_check"}, Expired(task["cycle"])
    PROVE  Writes /\ \E u : Goes("cycle", u)
<1> DEFINE c == "cycle"
           t == task[c]
           v == [t EXCEPT !.n = 1, !.o = NoOrder]
<1>0. c \in Tasks /\ t \in TaskState /\ t.o \in Orders
  BY Holds DEF TaskShape, OrderPoints, KeepPoints, Tasks
<1>1. mem.ord[t.o].st = "pending" /\ t.o \in Timed /\ t.todo \subseteq Timed
  BY DEF AtPoint
<1>2. Keep(Tracked(t.o, [mem.ord[t.o] EXCEPT !.st = "expired"])) /\ Goto(c, Run(v, "expire_next"))
  BY DEF Expired
<1>3. Writes
  BY <1>0, <1>1, <1>2, WritesStage
<1>4. v \in TaskState /\ v.todo = t.todo
  BY <1>0 DEF TaskState
<1>5. "expire_next" \in Internal /\ "expire_next" # "demote_cancel"
  BY DEF Internal
<1> HIDE DEF v
<1>6. AtPoint(mem'.ord, Run(v, "expire_next")) /\ Answered(ticket, deals, mem', Run(v, "expire_next"))
  BY <1>1, <1>4, <1>5, RunKnows
<1> QED
  BY <1>2, <1>3, <1>6 DEF Goes

(* The orders whose expiry has passed. *)
LEMMA ExpiringGoes ==
    ASSUME TypeInv, OneTask, serial, OrdersFit, AtPoint(mem.ord, task["cycle"]),
           ExpireNext \/ ExpireCancelled \/ ExpireChecked
    PROVE  /\ \E u : Goes("cycle", u)
           /\ Writes /\ task["cycle"].pc # "apply_deal"
<1> DEFINE c == "cycle"
           t == task[c]
<1>0. c \in Tasks /\ t \in TaskState /\ fills' = fills /\ Timed \subseteq Orders
  BY Known, BrokerAssumption DEF ExpireNext, ExpireCancelled, ExpireChecked, BrokerAssumption
<1>1. t.pc \in {"expire_next", "expire_cancel", "expire_check"} /\ t.todo \subseteq Timed
  BY DEF ExpireNext, ExpireCancelled, ExpireChecked, At, AtPoint
<1>2. Alone(c)
  BY <1>0, <1>1, AloneSteps
<1>3. UNCHANGED <<mem, journal>> => Writes
  BY <1>0, WritesNothing
<1>4. CASE ExpireNext
  <2> PICK o \in Expirable(t) : Goto(c, Await([t EXCEPT !.o = o, !.todo = @ \ {o}], "expire_cancel", "cancel", mem.ord[o].oid, 0))
    BY <1>4 DEF ExpireNext
  <2> DEFINE td == t.todo \ {o}
             v == [t EXCEPT !.o = o, !.todo = td]
  <2>1. o \in Orders /\ o \in Timed /\ mem.ord[o].st = "pending" /\ mem.ord[o].oid # 0 /\ UNCHANGED <<mem, journal>>
    BY <1>0, <1>1, <1>4 DEF Expirable, ExpireNext
  <2>2. mem.ord[o].oid \in Attempts
    BY <1>0, <2>1, Holds DEF TrackedOrder, Attempts
  <2>3. v \in TaskState /\ v.o = o /\ v.todo = td
    <3>1. td \in SUBSET (Orders \union Tickets) /\ o \in Orders \union {NoOrder}
      BY <1>0, <2>1 DEF TaskState
    <3> QED
      BY <1>0, <3>1 DEF TaskState
  <2>4. v.todo \subseteq Timed /\ Goto(c, Await(v, "expire_cancel", "cancel", mem.ord[o].oid, 0))
    BY <1>1, <2>3
  <2> HIDE DEF v, td
  <2>5. \E u : Goes(c, u)
    BY <1>0, <1>2, <2>1, <2>2, <2>3, <2>4, CancelGoes
  <2> QED
    BY <1>1, <1>3, <1>4, <2>5 DEF ExpireNext, At
<1>5. CASE t.pc \in {"expire_cancel", "expire_check"} /\ Expired(t)
  BY <1>0, <1>2, <1>5, ExpiredGoes
<1>6. CASE /\ t.pc = "expire_cancel" /\ Goto(c, Await(t, "expire_check", "pending_orders", 0, 0))
           /\ UNCHANGED <<mem, journal>>
  <2> DEFINE u == Await(t, "expire_check", "pending_orders", 0, 0)
  <2>1. u.pc = "expire_check" /\ u.op = "pending_orders" /\ u.o = t.o /\ u.todo = t.todo /\ Answered(ticket, deals, mem', u)
    BY <1>0, AwaitKnows
  <2> HIDE DEF u
  <2>2. mem'.ord[t.o].st = "pending" /\ t.o \in Timed /\ t.todo \subseteq Timed
    BY <1>6 DEF AtPoint
  <2>3. AtPoint(mem'.ord, u)
    BY <2>1, <2>2 DEF AtPoint, Call, SendPoints, ConfirmPoints
  <2>4. \E w : Goes(c, w)
    BY <1>2, <1>6, <2>1, <2>3 DEF Goes, u
  <2> QED
    BY <1>3, <1>6, <2>4
<1>7. CASE t.pc = "expire_check" /\ Goto(c, Run([t EXCEPT !.o = NoOrder], "expire_next")) /\ UNCHANGED <<mem, journal>>
  <2> DEFINE v == [t EXCEPT !.o = NoOrder]
  <2>1. v \in TaskState /\ v.todo = t.todo
    BY <1>0, LocalStates
  <2>2. "expire_next" \in Internal /\ "expire_next" # "demote_cancel" /\ Goto(c, Run(v, "expire_next"))
    BY <1>7 DEF Internal
  <2> HIDE DEF v
  <2>3. AtPoint(mem'.ord, Run(v, "expire_next")) /\ Answered(ticket, deals, mem', Run(v, "expire_next"))
    BY <1>1, <2>1, <2>2, RunKnows
  <2> QED
    BY <1>2, <1>3, <1>7, <2>2, <2>3 DEF Goes
<1>8. CASE ExpireCancelled
  BY <1>5, <1>6, <1>8 DEF ExpireCancelled, At
<1>9. CASE ExpireChecked
  BY <1>5, <1>7, <1>9 DEF ExpireChecked, At
<1> QED
  BY <1>4, <1>8, <1>9

LEMMA SerialExpiring ==
    ASSUME TInv, DealLog, Serial, serial, CountingNothing
    PROVE  Serial' /\ DealLog' /\ Follows
<1>0. TypeInv /\ OneTask /\ OrdersFit /\ AtPoint(mem.ord, task["cycle"]) /\ "cycle" \in Tasks
  BY DEF TInv, IInv, Serial, PointsHold, Tasks
<1>1. UNCHANGED <<ticket, deals, trades, outbox>>
  BY DEF CountingNothing, StartCycle, CycleLost, GotDeals, DealsApplied, ExpireNext, ExpireCancelled,
         ExpireChecked, ExpireDone, StopsNext, Quiet, brokerVars
<1>2. CASE StartCycle \/ CycleLost \/ GotDeals \/ DealsApplied \/ ExpireDone \/ StopsNext
  <2>1. /\ \E u : Goes("cycle", u)
        /\ fills' = fills /\ (Save(mem) \/ UNCHANGED <<mem, journal>>)
        /\ task["cycle"].pc = "apply_deal" => Save(mem) \/ ~(mem.seen > task["cycle"].m)
    BY <1>0, <1>2, CycleGoesOn
  <2>2. Writes
    BY <1>0, <2>1, WritesNothing DEF Save
  <2>3. task["cycle"].pc = "apply_deal" => journal' = mem' \/ ~(mem.seen > task["cycle"].m)
    BY <2>1 DEF Save
  <2> QED
    BY <1>0, <1>1, <2>1, <2>2, <2>3, SerialTask
<1>3. CASE ExpireNext \/ ExpireCancelled \/ ExpireChecked
  <2>1. /\ \E u : Goes("cycle", u)
        /\ Writes /\ task["cycle"].pc # "apply_deal"
    BY <1>0, <1>3, ExpiringGoes
  <2> QED
    BY <1>0, <1>1, <2>1, SerialTask
<1> QED
  BY <1>2, <1>3 DEF CountingNothing

-----------------------------------------------------------------------------
(* The deal that is applied is the next of the log, and its ticket has gone as far. *)
LEMMA NextDeal ==
    ASSUME TInv, DealLog, ApplyDeal
    PROVE  LET n == mem.seen + 1
               d == deals[n]
               o == d.tk[1]
               k == d.tk[2]
           IN  /\ o \in Orders /\ k \in Attempts /\ d.tk = <<o, k>> /\ n \in Nat
               /\ d.entry = "in" => ticket[<<o, k>>].st \in Filled /\ ~Logs(deals, n, <<o, k>>, "out")
               /\ d.entry = "out" => ticket[<<o, k>>].st = "closed"
               /\ \A i, e : Logs(deals, n, i, e) <=> Logs(deals, mem.seen, i, e) \/ (d.tk = i /\ d.entry = e)
<1> DEFINE t == task["cycle"]
           n == mem.seen + 1
           d == deals[n]
           o == d.tk[1]
           k == d.tk[2]
<1>1. n \in 1..Len(deals) /\ n \in Nat /\ mem.seen \in Nat /\ Len(deals) \in Nat
  <2>1. mem.seen < t.n /\ t.pc = "apply_deal"
    BY DEF ApplyDeal, At
  <2>2. t.n \in Nat /\ mem.seen \in Nat /\ Len(deals) \in Nat /\ TypeInv /\ "cycle" \in Tasks
    BY Known DEF TInv, IInv, TaskState
  <2>3. t.n <= Len(deals)
    BY <2>1, <2>2, Holds DEF TaskShape
  <2> QED
    BY <2>1, <2>2, <2>3
<1>2. d.tk \in Tickets /\ d.entry \in {"in", "out"}
  BY <1>1, DealTickets DEF TInv, IInv
<1>3. o \in Orders /\ k \in Attempts /\ d.tk = <<o, k>>
  BY <1>2 DEF Tickets
<1>4. ASSUME NEW i, NEW e PROVE Logs(deals, n, i, e) <=> Logs(deals, mem.seen, i, e) \/ (d.tk = i /\ d.entry = e)
  <2>1. \A j : j \in 1..n <=> j \in 1..mem.seen \/ j = n
    BY <1>1
  <2> QED
    BY <1>1, <2>1 DEF Logs
<1>5. Logs(deals, Len(deals), <<o, k>>, d.entry)
  BY <1>1, <1>3 DEF Logs
<1>6. ASSUME d.entry = "in", Logs(deals, n, <<o, k>>, "out") PROVE FALSE
  <2> PICK j \in 1..n : j \in 1..Len(deals) /\ deals[j].tk = <<o, k>> /\ deals[j].entry = "out"
    BY <1>6 DEF Logs
  <2>1. n < j
    BY <1>1, <1>3, <1>6 DEF DealLog
  <2> QED
    BY <1>1, <2>1
<1>7. <<o, k>> \in Tickets
  BY <1>2, <1>3
<1>8. d.entry = "in" => ticket[<<o, k>>].st \in Filled
  BY <1>5, <1>7 DEF DealLog
<1>9. d.entry = "out" => ticket[<<o, k>>].st = "closed"
  BY <1>5, <1>7 DEF DealLog
<1> QED
  BY <1>1, <1>3, <1>4, <1>6, <1>8, <1>9

(* A deal that does not open its order: what is written stays in memory, and the sync goes on. *)
LEMMA SyncGoesOn ==
    ASSUME TInv, DealLog, Serial, serial, Writes, UNCHANGED <<journal, task, ticket, deals, trades>>,
           task["cycle"].pc = "apply_deal", mem'.seen = mem.seen + 1,
           \A o \in outbox' : o \in outbox \/ (o \in Orders /\ mem.ord[o].st = "open" /\ mem'.ord[o].st = "closed")
    PROVE  Serial' /\ DealLog' /\ Follows
<1> DEFINE t == task["cycle"]
<1>0. /\ TypeInv /\ CountedAlike /\ OneTask /\ PointsHold /\ OrdersFit /\ TradesOfClosed
      /\ "cycle" \in Tasks /\ task \in [Tasks -> TaskState] /\ t \in TaskState
      /\ mem.seen \in Nat /\ t.m \in Nat /\ trades \in [Orders -> 0..2] /\ outbox \in SUBSET Orders
  BY Known DEF TInv, IInv, Serial, TaskState
<1>1. Goes("cycle", t)
  <2>1. Goto("cycle", t)
    BY <1>0 DEF Goto
  <2>2. Alone("cycle")
    BY <1>0, AloneAt
  <2>3. AtPoint(mem.ord, t)
    BY <1>0 DEF PointsHold
  <2>4. AtPoint(mem'.ord, t)
    BY <2>3 DEF AtPoint, Call, SendPoints, ConfirmPoints
  <2>5. Answered(ticket, deals, mem', t)
    BY DEF Answered
  <2> QED
    BY <2>1, <2>2, <2>4, <2>5 DEF Goes
<1>2. PointsHold' /\ OneTask'
  BY <1>0, <1>1, PointsGo
<1>3. OrdersFit'
  BY <1>0, WritesFit
<1>4. Follows /\ \A o \in Orders : mem.ord[o].st = "closed" => mem'.ord[o].st = "closed"
  BY <1>0, WritesFollow
<1>5. mem'.seen > task'["cycle"].m /\ task'["cycle"].pc = "apply_deal"
  BY <1>0 DEF CountedAlike, Syncing
<1>6. TradesOfClosed'
  <2>1. ASSUME NEW o \in Orders, o \in outbox' PROVE trades[o] = 0 /\ mem'.ord[o].st = "closed"
    <3>1. CASE o \in outbox
      BY <1>0, <1>4, <3>1 DEF TradesOfClosed
    <3>2. CASE mem.ord[o].st = "open" /\ mem'.ord[o].st = "closed"
      <4>1. journal.ord[o].st # "closed"
        BY <1>0, <3>2 DEF OrdersFit, Behind, Ends
      <4>2. trades[o] <= 1 /\ trades[o] # 1 /\ trades[o] \in 0..2
        BY <1>0, <4>1 DEF TradesOfClosed
      <4> QED
        BY <3>2, <4>2
    <3> QED
      BY <2>1, <3>1, <3>2
  <2> QED
    BY <1>0, <1>5, <2>1 DEF TradesOfClosed
<1>7. DealLog'
  BY DEF DealLog
<1> QED
  BY <1>2, <1>3, <1>4, <1>6, <1>7 DEF Serial

LEMMA SerialApply ==
    ASSUME TInv, DealLog, Serial, serial, ApplyDeal
    PROVE  Serial' /\ DealLog' /\ Follows
<1> DEFINE c == "cycle"
           t == task[c]
           n == mem.seen + 1
           d == deals[n]
           o == d.tk[1]
           k == d.tk[2]
           r == mem.ord[o]
<1>0. /\ TypeInv /\ OneTask /\ OrdersFit
      /\ c \in Tasks /\ t \in TaskState /\ t.pc = "apply_deal"
      /\ UNCHANGED <<ticket, deals, trades>>
      /\ mem \in ExecState /\ fills \in [Orders -> 0..2]
  BY Holds, Known DEF TInv, IInv, Serial, ApplyDeal, At, Quiet, brokerVars
<1>1. /\ o \in Orders /\ k \in Attempts /\ d.tk = <<o, k>> /\ n \in Nat
      /\ d.entry = "in" => ticket[<<o, k>>].st \in Filled /\ ~Logs(deals, n, <<o, k>>, "out")
      /\ d.entry = "out" => ticket[<<o, k>>].st = "closed"
      /\ \A i, e : Logs(deals, n, i, e) <=> Logs(deals, mem.seen, i, e) \/ (d.tk = i /\ d.entry = e)
  BY NextDeal
<1>2. /\ r \in TrackedOrder /\ Fits(ticket, o, r) /\ Counted(deals, mem.seen, o, r)
      /\ Behind(journal.ord[o], r) /\ fills[o] <= (IF r.pos # 0 THEN 1 ELSE 0)
  BY <1>0, <1>1 DEF OrdersFit, ExecState
<1>3. CASE /\ d.entry = "in" /\ r.st \in Fillable
           /\ Save([Seen EXCEPT !.ord[o] = Opened(r, k)])
           /\ fills' = Count(fills, o)
           /\ Goto(c, ConfirmStop(t, o, "apply_deal"))
           /\ UNCHANGED outbox
  <2> DEFINE x == Opened(r, k)
  <2>0. r.st \in Fillable /\ ticket[<<o, k>>].st \in Filled
    BY <1>1, <1>3
  <2>1. x \in TrackedOrder /\ x.st = "open" /\ x.pos = k /\ k # 0 /\ Fits(ticket, o, x)
        /\ <<r.st, "open">> \in Life!Edges /\ r.pos = 0
    <3> HIDE DEF n, d, o, k, r
    <3> QED
      BY <1>1, <1>2, <2>0, OpenedFits
  <2>2. Save([Seen EXCEPT !.ord[o] = x])
    BY <1>3
  <2> HIDE DEF x
  <2>3. Counted(deals, n, o, x)
    BY <1>1, <1>3, <2>1 DEF Counted, Fillable
  <2>4. mem'.ord[o] = x /\ mem'.seen = n /\ journal' = mem' /\ \A q \in Orders \ {o} : mem'.ord[q] = mem.ord[q]
    BY <1>0, <1>1, <2>2 DEF Save, Seen, ExecState
  <2>5. fills'[o] <= 1 /\ \A q \in Orders \ {o} : fills'[q] = fills[q]
    <3>1. fills[o] \in 0..2 /\ fills[o] <= 0
      BY <1>0, <1>1, <1>2, <2>1
    <3>2. fills[o] = 0
      BY <3>1
    <3>3. fills' = [fills EXCEPT ![o] = IF fills[o] < 2 THEN fills[o] + 1 ELSE fills[o]]
      BY <1>3 DEF Count
    <3>4. fills \in [Orders -> 0..2] /\ o \in Orders
      BY <1>0, <1>1
    <3> HIDE DEF n, d, o, k, r
    <3>5. fills'[o] = 1
      BY <3>2, <3>3, <3>4
    <3> QED
      BY <3>3, <3>4, <3>5
  <2>6. Writes
    <3>1. ASSUME NEW q \in Orders \ {o}
          PROVE  Fits(ticket, q, mem.ord[q]) /\ Counted(deals, n, q, mem.ord[q]) /\ fills[q] <= (IF mem.ord[q].pos # 0 THEN 1 ELSE 0)
      <4>1. \A j : d.tk # <<q, j>>
        BY <1>1
      <4> QED
        BY <1>0, <1>1, <4>1 DEF OrdersFit, Counted
    <3> HIDE DEF n, d, o, k, r
    <3>2. ASSUME NEW q \in Orders
          PROVE  /\ Fits(ticket, q, mem'.ord[q])
                 /\ Counted(deals, mem'.seen, q, mem'.ord[q])
                 /\ mem'.ord[q].st = mem.ord[q].st \/ <<mem.ord[q].st, mem'.ord[q].st>> \in Life!Edges
                 /\ fills'[q] <= (IF mem'.ord[q].pos # 0 THEN 1 ELSE 0)
      <4>1. CASE q = o
        BY <2>1, <2>3, <2>4, <2>5, <4>1 DEF r
      <4>2. CASE q # o
        BY <2>4, <2>5, <3>1, <4>2
      <4> QED
        BY <4>1, <4>2
    <3> QED
      BY <2>4, <3>2 DEF Writes
  <2>7. Goes(c, ConfirmStop(t, o, "apply_deal"))
    <3>1. Alone(c)
      BY <1>0, AloneAt
    <3>2. AtPoint(mem'.ord, ConfirmStop(t, o, "apply_deal")) /\ Answered(ticket, deals, mem', ConfirmStop(t, o, "apply_deal"))
      BY <1>0, <2>1, <2>4, ConfirmStopKnows
    <3> QED
      BY <1>3, <3>1, <3>2 DEF Goes
  <2> HIDE DEF n, d, o, k, r
  <2> QED
    BY <1>0, <1>3, <2>4, <2>6, <2>7, SerialTask
<1>4. ASSUME Keep(Seen) \/ (Keep([Seen EXCEPT !.ord[o].st = "closed"]) /\ d.entry = "out" /\ r.st = "open" /\ r.pos = k),
             Keep(Seen) => IF d.entry = "in" THEN r.st \notin Fillable ELSE r.st # "open" \/ r.pos # k,
             UNCHANGED <<task, fills>>,
             \A q \in outbox' : q \in outbox \/ (q = o /\ r.st = "open" /\ mem'.ord[o].st = "closed")
      PROVE  Serial' /\ DealLog' /\ Follows
  <2>1. journal' = journal /\ mem'.seen = n /\ \A q \in Orders \ {o} : mem'.ord[q] = mem.ord[q]
    <3>1. CASE Keep(Seen)
      <4>1. journal' = journal /\ mem' = [mem EXCEPT !.seen = mem.seen + 1]
        BY <3>1 DEF Keep, Seen
      <4> QED
        BY <1>0, <4>1 DEF ExecState
    <3>2. CASE Keep([Seen EXCEPT !.ord[o].st = "closed"])
      <4>1. journal' = journal /\ mem' = [[mem EXCEPT !.seen = mem.seen + 1] EXCEPT !.ord[o].st = "closed"]
        BY <3>2 DEF Keep, Seen
      <4>2. o \in Orders
        BY <1>1
      <4> HIDE DEF d, o, k, r
      <4> QED
        BY <1>0, <4>1, <4>2 DEF ExecState
    <3> QED
      BY <1>4, <3>1, <3>2
  <2>2. /\ Fits(ticket, o, mem'.ord[o]) /\ Counted(deals, n, o, mem'.ord[o])
        /\ mem'.ord[o].st = r.st \/ <<r.st, mem'.ord[o].st>> \in Life!Edges
        /\ mem'.ord[o].pos = r.pos /\ Behind(journal.ord[o], mem'.ord[o])
    <3>1. CASE Keep(Seen)
      <4>1. mem'.ord[o] = r
        BY <1>0, <1>1, <3>1 DEF Keep, Seen, ExecState
      <4>2. Counted(deals, n, o, r)
        <5>1. IF d.entry = "in" THEN r.st \notin Fillable ELSE r.st # "open" \/ r.pos # k
          BY <1>4, <3>1
        <5>2. ASSUME NEW j \in Attempts, NEW e
              PROVE  Logs(deals, n, <<o, j>>, e) <=> Logs(deals, mem.seen, <<o, j>>, e) \/ (k = j /\ d.entry = e)
          BY <1>1
        <5> HIDE DEF n, d, o, k, r
        <5> QED
          BY <1>2, <5>1, <5>2 DEF Counted
      <4> QED
        BY <1>2, <4>1, <4>2
    <3>2. CASE Keep([Seen EXCEPT !.ord[o].st = "closed"]) /\ d.entry = "out" /\ r.st = "open" /\ r.pos = k
      <4> DEFINE x == [r EXCEPT !.st = "closed"]
      <4>1. mem'.ord[o] = x
        BY <1>0, <1>1, <3>2 DEF Keep, Seen, ExecState
      <4>2. x.st = "closed" /\ x.pos = r.pos /\ x.oid = r.oid /\ x.sl = r.sl /\ x.conf = r.conf
        BY <1>2 DEF TrackedOrder
      <4> HIDE DEF x
      <4>3. Fits(ticket, o, x)
        BY <1>1, <1>2, <3>2, <4>2 DEF Fits
      <4>4. Counted(deals, n, o, x)
        BY <4>2 DEF Counted, Fillable
      <4>5. Behind(journal.ord[o], x)
        BY <1>2, <3>2, <4>2 DEF Behind, Ends
      <4>6. <<"open", "closed">> \in Life!Edges
        BY DEF Life!Edges
      <4> QED
        BY <3>2, <4>1, <4>2, <4>3, <4>4, <4>5, <4>6
    <3> QED
      BY <1>4, <3>1, <3>2
  <2>3. ASSUME NEW q \in Orders \ {o}
        PROVE  Fits(ticket, q, mem.ord[q]) /\ Counted(deals, n, q, mem.ord[q]) /\ Behind(journal.ord[q], mem.ord[q])
               /\ fills[q] <= (IF mem.ord[q].pos # 0 THEN 1 ELSE 0)
    <3>1. \A j : d.tk # <<q, j>>
      BY <1>1
    <3> QED
      BY <1>0, <1>1, <3>1 DEF OrdersFit, Counted
  <2>4. \A q \in outbox' : q \in outbox \/ (q \in Orders /\ mem.ord[q].st = "open" /\ mem'.ord[q].st = "closed")
    BY <1>1, <1>4
  <2>5. mem'.seen = mem.seen + 1
    BY <2>1
  <2>6. fills[o] <= (IF mem'.ord[o].pos # 0 THEN 1 ELSE 0)
    BY <1>2, <2>2
  <2>7. mem'.ord[o].st = mem.ord[o].st \/ <<mem.ord[o].st, mem'.ord[o].st>> \in Life!Edges
    BY <2>2
  <2> HIDE DEF n, d, o, k, r
  <2>8. Writes
    <3>1. ASSUME NEW q \in Orders
          PROVE  /\ Fits(ticket, q, mem'.ord[q])
                 /\ Counted(deals, mem'.seen, q, mem'.ord[q])
                 /\ mem'.ord[q].st = mem.ord[q].st \/ <<mem.ord[q].st, mem'.ord[q].st>> \in Life!Edges
                 /\ fills'[q] <= (IF mem'.ord[q].pos # 0 THEN 1 ELSE 0)
                 /\ Behind(journal.ord[q], mem'.ord[q])
      <4>1. CASE q = o
        BY <1>4, <2>1, <2>2, <2>6, <2>7, <4>1
      <4>2. CASE q # o
        BY <1>4, <2>1, <2>3, <4>2
      <4> QED
        BY <4>1, <4>2
    <3> QED
      BY <2>1, <3>1 DEF Writes
  <2> QED
    BY <1>0, <1>4, <2>1, <2>4, <2>5, <2>8, SyncGoesOn
<1>5. CASE /\ d.entry = "out" /\ r.st = "open" /\ r.pos = k
           /\ Keep([Seen EXCEPT !.ord[o].st = "closed"])
           /\ outbox' = IF r.entered THEN outbox \union {o} ELSE outbox
           /\ UNCHANGED <<task, fills>>
  <2>1. mem'.ord[o].st = "closed"
    BY <1>0, <1>1, <1>2, <1>5 DEF Keep, Seen, ExecState, TrackedOrder
  <2>2. \A q \in outbox' : q \in outbox \/ (q = o /\ r.st = "open" /\ mem'.ord[o].st = "closed")
    BY <1>5, <2>1
  <2>3. Keep(Seen) => FALSE
    <3>1. Keep(Seen) => mem'.ord[o].st = "open"
      BY <1>0, <1>1, <1>5 DEF Keep, Seen, ExecState
    <3> QED
      BY <2>1, <3>1
  <2> QED
    BY <1>4, <1>5, <2>2, <2>3
<1>6. CASE /\ IF d.entry = "in" THEN r.st \notin Fillable ELSE r.st # "open" \/ r.pos # k
           /\ Keep(Seen)
           /\ UNCHANGED <<task, fills, outbox>>
  BY <1>4, <1>6
<1> QED
  BY <1>3, <1>5, <1>6 DEF ApplyDeal

LEMMA SerialCycle ==
    ASSUME TInv, DealLog, Serial, serial, CycleSteps
    PROVE  Serial' /\ DealLog' /\ Follows
  BY SerialExpiring, SerialApply DEF CycleSteps, CountingNothing

-----------------------------------------------------------------------------
(* What waits is published, once each. *)
LEMMA SerialFlush ==
    ASSUME TInv, DealLog, Serial, Flush
    PROVE  Serial' /\ DealLog' /\ Publishes
<1>0. /\ OneTask /\ PointsHold /\ OrdersFit /\ TradesOfClosed
      /\ UNCHANGED <<mem, journal, task, fills, ticket, deals>> /\ outbox' = {}
      /\ trades \in [Orders -> 0..2] /\ outbox \in SUBSET Orders
  BY Known DEF TInv, IInv, Serial, Flush, brokerVars
<1>1. task["cycle"].pc # "apply_deal"
  BY DEF Flush, Internal, Tasks
<1>2. ASSUME NEW o \in Orders
      PROVE  /\ o \in outbox => journal.ord[o].st = "closed" /\ trades[o] = 0 /\ trades'[o] = 1
             /\ o \notin outbox => trades'[o] = trades[o]
  <2>1. o \in outbox => journal.ord[o].st = "closed" /\ trades[o] = 0
    BY <1>0, <1>1 DEF TradesOfClosed
  <2>2. trades'[o] = (IF o \in outbox THEN Count(trades, o)[o] ELSE trades[o])
    BY DEF Flush
  <2>3. o \in outbox => Count(trades, o)[o] = 1
    BY <1>0, <2>1 DEF Count
  <2> QED
    BY <2>1, <2>2, <2>3
<1>3. TradesOfClosed'
  BY <1>0, <1>2 DEF TradesOfClosed
<1>4. Publishes
  BY <1>0, <1>2 DEF Publishes
<1>5. OrdersFit'
  BY <1>0 DEF OrdersFit
<1>6. PointsHold' /\ OneTask' /\ DealLog'
  BY <1>0 DEF PointsHold, OneTask, DealLog
<1> QED
  BY <1>3, <1>4, <1>5, <1>6 DEF Serial

(* What is saved of an order fits as well: what ended since then has not been saved. *)
LEMMA SavedFits ==
    ASSUME NEW tk, NEW o, NEW r, NEW saved, Fits(tk, o, r), Behind(saved, r)
    PROVE  Fits(tk, o, saved)
<1>1. saved.pos = r.pos /\ saved.oid = r.oid /\ saved.sl = r.sl /\ saved.conf = r.conf
  BY DEF Behind
<1>2. CASE saved.st = r.st
  BY <1>1, <1>2 DEF Fits
<1>3. CASE <<saved.st, r.st>> \in Ends
  <2>1. CASE saved.st = "open" /\ r.st = "closed"
    BY <1>1, <2>1 DEF Fits, Filled
  <2>2. CASE saved.st = "pending" /\ r.st \in {"expired", "cancelled"}
    BY <1>1, <2>2 DEF Fits
  <2> QED
    BY <1>3, <2>1, <2>2 DEF Ends
<1> QED
  BY <1>2, <1>3 DEF Behind

(* The process starts again from what is saved. *)
LEMMA SerialCrash ==
    ASSUME TInv, DealLog, Serial, Crash \/ CrashInExecute
    PROVE  Serial' /\ DealLog' /\ Follows
<1>0. /\ TypeInv /\ OrdersFit /\ TradesOfClosed
      /\ UNCHANGED <<ticket, deals, fills, trades>> /\ outbox' = {}
      /\ task' = [c \in Tasks |-> Idle] /\ mem' = journal'
      /\ mem \in ExecState /\ journal \in ExecState
  BY Known DEF TInv, IInv, Serial, Crash, CrashInExecute, brokerVars
<1>1. journal' = journal \/ (journal'.ord = mem.ord /\ journal'.seen = mem.seen)
  BY <1>0 DEF Crash, CrashInExecute, ExecState
<1>2. \A c \in Tasks : task'[c] = Idle /\ Idle.pc = "idle" /\ Idle.op = "none"
  BY <1>0, IdleType
<1>3. PointsHold' /\ OneTask'
  <2>1. \A tk, ds, m, ord : Answered(tk, ds, m, Idle) /\ AtPoint(ord, Idle)
    BY <1>2, IdleAnswered DEF Tasks
  <2> QED
    BY <1>2, <2>1 DEF PointsHold, OneTask
<1>4. ASSUME NEW o \in Orders
      PROVE  /\ Fits(ticket, o, journal'.ord[o]) /\ Counted(deals, journal'.seen, o, journal'.ord[o])
             /\ journal'.ord[o].pos = mem.ord[o].pos
             /\ journal'.ord[o].st = journal.ord[o].st \/ <<journal.ord[o].st, journal'.ord[o].st>> \in Life!Edges
             /\ journal.ord[o].st = "closed" => journal'.ord[o].st = "closed"
  <2>1. /\ Fits(ticket, o, mem.ord[o]) /\ Counted(deals, mem.seen, o, mem.ord[o])
        /\ Counted(deals, journal.seen, o, journal.ord[o]) /\ Behind(journal.ord[o], mem.ord[o])
    BY <1>0 DEF OrdersFit
  <2>2. CASE journal' = journal
    BY <2>1, <2>2, SavedFits DEF Behind
  <2>3. CASE journal'.ord = mem.ord /\ journal'.seen = mem.seen
    <3>1. journal.ord[o].st = mem.ord[o].st \/ <<journal.ord[o].st, mem.ord[o].st>> \in Ends
      BY <2>1 DEF Behind
    <3>2. /\ journal.ord[o].st = mem.ord[o].st \/ <<journal.ord[o].st, mem.ord[o].st>> \in Life!Edges
          /\ journal.ord[o].st = "closed" => mem.ord[o].st = "closed"
      BY <3>1, Edges DEF Ends
    <3> QED
      BY <2>1, <2>3, <3>2
  <2> QED
    BY <1>1, <2>2, <2>3
<1>5. OrdersFit'
  <2>1. \A o \in Orders : fills[o] <= (IF mem.ord[o].pos # 0 THEN 1 ELSE 0)
    BY <1>0 DEF OrdersFit
  <2> QED
    BY <1>0, <1>4, <2>1 DEF OrdersFit, Behind
<1>6. TradesOfClosed' /\ Follows
  BY <1>0, <1>4 DEF TradesOfClosed, Follows
<1>7. DealLog'
  BY <1>0 DEF DealLog
<1> QED
  BY <1>3, <1>5, <1>6, <1>7 DEF Serial

-----------------------------------------------------------------------------
LEMMA SerialInit == Init => DealLog /\ Serial
<1> SUFFICES ASSUME Init PROVE DealLog /\ Serial
  OBVIOUS
<1>1. /\ deals = <<>> /\ Len(deals) = 0 /\ outbox = {} /\ journal = mem
      /\ \A o \in Orders : trades[o] = 0 /\ fills[o] = 0 /\ mem.ord[o] = Untracked
      /\ \A c \in Tasks : task[c] = Idle
      /\ \A i \in Tickets : ticket[i].st = "none"
  BY DEF Init, BrokerInit
<1>2. Idle.pc = "idle" /\ Idle.op = "none"
  BY IdleType
<1>3. PointsHold /\ OneTask
  <2>1. \A tk, ds, m, ord : Answered(tk, ds, m, Idle) /\ AtPoint(ord, Idle)
    BY <1>2, IdleAnswered
  <2> QED
    BY <1>1, <1>2, <2>1 DEF PointsHold, OneTask
<1>4. \A n, i, e : ~Logs(deals, n, i, e)
  BY <1>1 DEF Logs
<1>5. DealLog
  BY <1>1, <1>4 DEF DealLog, Filled
<1>6. OrdersFit
  BY <1>1 DEF OrdersFit, Fits, Counted, Behind, Untracked, Fillable
<1>7. TradesOfClosed
  BY <1>1 DEF TradesOfClosed
<1> QED
  BY <1>3, <1>5, <1>6, <1>7 DEF Serial

(* One step of the tasks, one after the other. *)
LEMMA SerialNext ==
    ASSUME TInv, DealLog, Serial, serial, [Next]_vars
    PROVE  Serial' /\ DealLog' /\ (Follows \/ Publishes)
<1>1. CASE UNCHANGED vars
  <2>1. UNCHANGED <<ticket, deals, mem, journal, task, fills, outbox, trades>>
    BY <1>1 DEF vars, omVars, brokerVars
  <2>2. OneTask' /\ PointsHold'
    BY <2>1 DEF Serial, OneTask, PointsHold
  <2>3. OrdersFit' /\ TradesOfClosed'
    BY <2>1 DEF Serial, OrdersFit, TradesOfClosed
  <2>4. DealLog' /\ Follows
    BY <2>1 DEF DealLog, Follows
  <2> QED
    BY <2>2, <2>3, <2>4 DEF Serial
<1>2. CASE \E c \in Tasks : Serve(c)
  BY <1>2, SerialServe
<1>3. CASE \E c \in {"decisions", "cycle"} : ConfirmSteps(c)
  BY <1>3, SerialConfirm
<1> QED
  BY <1>1, <1>2, <1>3, SerialBroker, SerialDecisions, SerialCycle, SerialControl, SerialFlush, SerialCrash DEF Next

(* The composition does not change how tasks run. *)
LEMMA ModeStays == [Next]_vars => serial' = serial
<1>1. CASE DecisionSteps
  BY <1>1 DEF DecisionSteps, DropDecision, RefuseEntry, Execute, Retry, FoundPosition, FoundOrder, Placed, Quiet
<1>2. ASSUME NEW c, ConfirmSteps(c) PROVE serial' = serial
  BY <1>2 DEF ConfirmSteps, StopSeen, StopAsked, StopChecked, StopClosed, Quiet
<1>3. CASE CycleSteps
  BY <1>3 DEF CycleSteps, StartCycle, CycleLost, GotDeals, ApplyDeal, DealsApplied, ExpireNext, ExpireCancelled,
         ExpireChecked, ExpireDone, StopsNext, Quiet
<1>4. CASE ControlSteps
  BY <1>4 DEF ControlSteps, Halt, RequestCancel, RequestClose, RequestTighten, Demote, StartControl,
         ControlLost, GotList, CancelNext, CancelledOne, CloseNext, ClosedOne, RequestDone,
         DemoteNext, DemotedOne, Quiet
<1>5. ASSUME NEW c, Serve(c) PROVE serial' = serial
  BY <1>5 DEF Serve
<1>6. CASE Flush \/ Crash \/ CrashInExecute \/ UNCHANGED vars \/ (BrokerNext /\ UNCHANGED omVars)
  BY <1>6 DEF Flush, Crash, CrashInExecute, vars, omVars
<1> QED
  BY <1>1, <1>2, <1>3, <1>4, <1>5, <1>6 DEF Next

(* What holds while tasks run one after the other is inductive. *)
LEMMA SerialInductive == /\ Init => SInv
                         /\ SInv /\ [Next]_vars => SInv'
<1>1. Init => SInv
  BY Inductive, CountedInit, SerialInit DEF SInv, TInv
<1>2. SInv /\ [Next]_vars => SInv'
  BY Inductive, CountedNext, SerialNext, ModeStays DEF SInv, TInv
<1> QED
  BY <1>1, <1>2

-----------------------------------------------------------------------------
(* With one task at a time, the journal and the published trades implement OrderLife: every write
   leaves each order at its stage or one edge further, and a trade is published once, of an order
   that is saved as closed, across lost calls, crashes and restarts. *)
THEOREM JournalImplementsOrderLife == Spec /\ serial => OrdersFollowLife
<1>1. Init => Life!Init
  BY DEF Init, Life!Init, Untracked
<1>2. SInv /\ serial /\ [Next]_vars => [Life!Next]_<<[o \in Orders |-> journal.ord[o].st], trades>>
  <2> SUFFICES ASSUME SInv, serial, [Next]_vars
               PROVE  [Life!Next]_<<[o \in Orders |-> journal.ord[o].st], trades>>
    OBVIOUS
  <2>1. Serial' /\ (Follows \/ Publishes)
    BY SerialNext DEF SInv
  <2>2. TypeInv'
    BY Inductive DEF SInv, TInv, IInv
  <2>3. journal' \in ExecState /\ trades' \in [Orders -> 0..2]
    BY <2>2 DEF TypeInv, TypeOK
  <2>4. CASE Follows
    <3>1. \A s \in OrderStates : s \in {e[1] : e \in Life!Edges} \union {e[2] : e \in Life!Edges}
      <4>1. /\ \A s \in {"none", "sending", "pending", "open"} : \E e \in Life!Edges : e[1] = s
            /\ \A s \in {"rejected", "cancelled", "expired", "closed"} : \E e \in Life!Edges : e[2] = s
        BY DEF Life!Edges
      <4> QED
        BY <4>1 DEF OrderStates
    <3>2. \A o \in Orders : journal'.ord[o].st \in OrderStates
      BY <2>3 DEF ExecState, TrackedOrder
    <3>3. [o \in Orders |-> journal'.ord[o].st]
             \in [Orders -> {e[1] : e \in Life!Edges} \union {e[2] : e \in Life!Edges}]
      BY <3>1, <3>2
    <3>4. Life!Advance
      BY <2>4, <3>3 DEF Follows, Life!Advance
    <3> QED
      BY <3>4 DEF Life!Next
  <2>5. CASE Publishes
    <3>1. \A o \in Orders : trades'[o] \in 0..1
      BY <2>1, <2>3 DEF Serial, TradesOfClosed
    <3>2. trades' \in [Orders -> 0..1]
      BY <2>3, <3>1
    <3>3. Life!Publish
      BY <2>5, <3>2 DEF Publishes, Life!Publish
    <3> QED
      BY <3>3 DEF Life!Next
  <2> QED
    BY <2>1, <2>4, <2>5
<1>3. serial /\ [Next]_vars => serial'
  BY ModeStays
<1> QED
  BY <1>1, <1>2, <1>3, SerialInductive, PTL DEF Spec, OrdersFollowLife, Life!Spec

(* With one task at a time and without a crash a fill is recorded once: what the answer to a placement or the search
   before it reported is not recorded again when its deal is applied. *)
THEOREM FillRecordedOnce == Spec => []FilledOnce
<1>1. SInv => FilledOnce
  <2> SUFFICES ASSUME SInv, serial, NEW o \in Orders PROVE fills[o] <= 1
    BY DEF FilledOnce
  <2>1. fills[o] \in 0..2 /\ fills[o] <= (IF mem.ord[o].pos # 0 THEN 1 ELSE 0)
    BY DEF SInv, Serial, OrdersFit, TInv, IInv, TypeInv, TypeOK
  <2> QED
    BY <2>1
<1> QED
  BY <1>1, SerialInductive, PTL DEF Spec

(* With one task at a time, a stop that counts as confirmed is at the broker, at least as tight as
   the tracked one, as long as the position is open. *)
THEOREM ConfirmedStopsAreSet == Spec => []ConfirmedIsProtected
<1>1. SInv => ConfirmedIsProtected
  <2> SUFFICES ASSUME SInv, serial, NEW o \in Orders, NEW k \in Attempts,
                      mem.ord[o].conf, mem.ord[o].pos = k, ticket[<<o, k>>].st = "position"
               PROVE  ticket[<<o, k>>].sl >= mem.ord[o].sl
    BY DEF ConfirmedIsProtected
  <2>1. Fits(ticket, o, mem.ord[o])
    BY DEF SInv, Serial, OrdersFit
  <2> QED
    BY <2>1 DEF Fits, Attempts
<1> QED
  BY <1>1, SerialInductive, PTL DEF Spec

(* With one task at a time, once every deal is applied and no task is under way, an order is
   tracked as open under just the ticket that is a position at the broker. *)
THEOREM TrackedAgreesWithBroker == Spec => []PositionsAgree
<1>1. SInv => PositionsAgree
  <2> SUFFICES ASSUME SInv, serial, Settled, NEW o \in Orders \ Timed, SentOnce(o), NEW k \in Attempts
               PROVE  mem.ord[o].st = "open" /\ mem.ord[o].pos = k <=> ticket[<<o, k>>].st = "position"
    BY DEF PositionsAgree
  <2> DEFINE r == mem.ord[o]
  <2>0. /\ Fits(ticket, o, r) /\ Counted(deals, Len(deals), o, r) /\ DealLog /\ Recorded /\ WriteAhead
        /\ r \in TrackedOrder /\ r.pos \in 0..2 /\ (r.pos # 0 => r.pos \in Attempts)
        /\ \A j \in Attempts : <<o, j>> \in Tickets
    <3>1. Fits(ticket, o, r) /\ Counted(deals, Len(deals), o, r) /\ DealLog /\ Recorded /\ WriteAhead
      BY DEF SInv, Serial, OrdersFit, TInv, IInv, Recorded, Settled
    <3>2. r \in TrackedOrder
      BY Holds DEF SInv, TInv, IInv, Tasks
    <3> QED
      BY <3>1, <3>2 DEF TrackedOrder, Attempts, Tickets
  <2>1. ASSUME r.st = "open", r.pos = k PROVE ticket[<<o, k>>].st = "position"
    <3>1. ticket[<<o, k>>].st \in Filled
      BY <2>0, <2>1 DEF Fits, Attempts
    <3>2. ticket[<<o, k>>].st # "closed"
      BY <2>0, <2>1 DEF DealLog, Counted
    <3> QED
      BY <3>1, <3>2 DEF Filled
  <2>2. ASSUME ticket[<<o, k>>].st = "position" PROVE r.st = "open" /\ r.pos = k
    <3>1. r.st \notin Fillable
      BY <2>0, <2>2 DEF DealLog, Counted, Filled
    <3>2. r.st # "none"
      <4>1. journal.ord[o].st # "none"
        BY <2>0, <2>2 DEF WriteAhead
      <4> QED
        BY <2>0, <4>1 DEF Recorded
    <3>3. \A j \in Attempts : ticket[<<o, j>>].st # "none" => j = k
      BY <2>2 DEF SentOnce, Once, Attempts
    <3>4. r.st \in {"open", "closed"} => r.pos = k
      BY <2>0, <3>3 DEF Fits, Filled
    <3>5. r.st # "closed"
      BY <2>0, <2>2, <3>4 DEF Fits
    <3>6. r.st # "cancelled"
      BY <2>0, <2>2, <3>3 DEF Fits
    <3>7. r.st # "expired"
      BY <2>0 DEF Fits
    <3>8. r.st # "rejected"
      BY <2>0, <2>2 DEF Fits, Live, SentOnce
    <3> QED
      BY <2>0, <3>1, <3>2, <3>4, <3>5, <3>6, <3>7, <3>8 DEF TrackedOrder, OrderStates, Fillable
  <2> QED
    BY <2>1, <2>2
<1> QED
  BY <1>1, SerialInductive, PTL DEF Spec
=============================================================================
