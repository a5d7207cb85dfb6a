-------------------------- MODULE TradingPath_proofs --------------------------
(***************************************************************************)
(* Proofs about TradingPath, for any signals, equities, ages and bounds, in *)
(* both modes and with any restarts: an entry never stands on an approval  *)
(* from after a halt, an approval misses no position but the youngest, and *)
(* a signal lives as SignalLife says, with one order at most; and when the *)
(* pump of the one-process demo rests, a halt or a demotion left nothing.  *)
(*                                                                         *)
(* The first part follows an approval from the account update it counted   *)
(* to the order at the broker.  What it says is put into one formula of    *)
(* the present, Approval, which every step keeps (Evolves): time passes, a *)
(* halt is entered now or before, and an order that is new at the broker   *)
(* is one of now.  What is left for each action is where the updates,      *)
(* decisions and orders come from that it adds.                            *)
(*                                                                         *)
(* The second part gives every stream its kind of message.  An approval is *)
(* the least of what the limits leave room for; that it is a number at all *)
(* rests on the sums over the open positions being numbers, which is shown *)
(* by a least counterexample: induction on the size of the set summed.     *)
(*                                                                         *)
(* The third part is the demo's: what may be unread, or under way at the   *)
(* broker, while the pump is where (PumpRest), and what of a halt or of a  *)
(* demotion is still to be read while something is left (HaltKept,         *)
(* DemotionKept).                                                          *)
(***************************************************************************)
EXTENDS TradingPath, FiniteSetTheorems, WellFoundedInduction, TLAPS

(* basis has every signal of live that the broker had before t. *)
Sees(basis, t, live, ent) ==
    \A s \in live : \A i \in DOMAIN ent[s] : ent[s][i].at < t => s \in basis

(* An approval of the time at: not from after a halt, and blind to the youngest positions only. *)
Approval(at, basis, now, halted, live, ent) ==
    /\ at \in Nat /\ at <= now
    /\ halted # Never => at <= halted
    /\ Sees(basis, at - MaxAccountAge - MaxLag, live, ent)

Counted(u) == {e.id : e \in u.exposures}

(* An account update stamped at most MaxLag after the positions were read. *)
Stamped(u, now, live, ent) ==
    /\ u.at \in Nat /\ u.at <= now
    /\ Sees(Counted(u), u.at - MaxLag, live, ent)

(* The same while the update waits for its stamp. *)
BeingRead(u, now, live, ent) ==
    /\ DOMAIN u = {"at", "equity", "exposures"}
    /\ u.at \in Nat /\ u.at <= now /\ now <= u.at + MaxLag
    /\ Sees(Counted(u), u.at, live, ent)

Authorised(p, now, halted, live, ent) ==
    /\ p.verified \in Nat /\ p.verified <= p.decided + DecisionTtl
    /\ Approval(p.decided, p.basis, now, halted, live, ent)

PlacingFields == {"signal", "lots", "decided", "verified", "basis", "sent"}

-----------------------------------------------------------------------------
(* The inductive invariant. *)
IsSeq(s) == s \in Seq({s[i] : i \in DOMAIN s})

(* The cursors that matter. *)
Tracked == {<<"risk", "account">>, <<"execution", "decisions">>}

Shapes ==
    /\ time \in Nat
    /\ DOMAIN log = Streams /\ IsSeq(log["account"]) /\ IsSeq(log["decisions"])
    /\ DOMAIN cursor = Readers /\ \A r \in Tracked : cursor[r] \in Nat
    /\ DOMAIN account = {"risk", "allocator"}
    /\ gate \in [halted : Nat, seq : Int]
    /\ orders \in [Signals -> {None, "sending", "pending", "open", "closed", "cancelled", "rejected"}]
    /\ entered = [s \in Signals |-> entered[s]] /\ \A s \in Signals : IsSeq(entered[s])
    /\ \A s \in Signals : \A i \in DOMAIN entered[s] : entered[s][i].at \in Nat
    /\ broker = [s \in Signals |-> broker[s]]
    /\ \A s \in Signals :
          \/ broker[s] = Nothing
          \/ DOMAIN broker[s] = {"state", "lots"} /\ broker[s].state \in {"pending", "open", "closed", "cancelled"}
    /\ \A p \in placing : DOMAIN p = PlacingFields

(* One order of a signal at most: it is not journalled yet, or on its way, or at the broker. *)
Once ==
    \A s \in Signals :
        /\ Len(entered[s]) <= 1
        /\ orders[s] = None => entered[s] = <<>> /\ \A p \in placing : p.signal # s
        /\ \A p \in placing : p.signal = s =>
              /\ ~p.sent => entered[s] = <<>>
              /\ \A q \in placing : q.signal = s => q = p

UpdatesOK == \A i \in DOMAIN log["account"] : Stamped(log["account"][i], time, Live, entered)
HeldOK == account["risk"] # NoAccount => Stamped(account["risk"], time, Live, entered)
ReadOK == reading # NoAccount => BeingRead(reading, time, Live, entered)

DecisionsOK ==
    \A i \in DOMAIN log["decisions"] :
        log["decisions"][i].lots > 0 =>
            Approval(log["decisions"][i].at, log["decisions"][i].basis, time, gate.halted, Live, entered)

PlacingOK == \A p \in placing : Authorised(p, time, gate.halted, Live, entered)

EntriesOK ==
    \A s \in Signals : \A i \in DOMAIN entered[s] : Authorised(entered[s][i], time, gate.halted, Live, entered)

IInv == Shapes /\ Once /\ UpdatesOK /\ HeldOK /\ ReadOK /\ DecisionsOK /\ PlacingOK /\ EntriesOK

-----------------------------------------------------------------------------
(* A step: time passes, a halt is entered at most now, and what is at the broker was there
   before or is an order of now. *)
Grew(live, live2, ent, ent2, now) ==
    \A s \in live2 : \A i \in DOMAIN ent2[s] :
        \/ s \in live /\ i \in DOMAIN ent[s] /\ ent2[s][i] = ent[s][i]
        \/ ent2[s][i].at = now

Halts(halted, halted2, now) == halted2 = halted \/ (halted = Never /\ halted2 = now)

LEMMA SeesStays ==
    ASSUME NEW basis, NEW t \in Int, NEW now \in Int, t <= now,
           NEW live, NEW live2, NEW ent, NEW ent2,
           Grew(live, live2, ent, ent2, now), Sees(basis, t, live, ent)
    PROVE  Sees(basis, t, live2, ent2)
  BY DEF Sees, Grew

LEMMA ApprovalStays ==
    ASSUME NEW now \in Int, NEW now2 \in Int, now <= now2,
           NEW halted, NEW halted2, Halts(halted, halted2, now),
           NEW live, NEW live2, NEW ent, NEW ent2, Grew(live, live2, ent, ent2, now),
           NEW at, NEW basis, Approval(at, basis, now, halted, live, ent)
    PROVE  Approval(at, basis, now2, halted2, live2, ent2)
<1>1. at \in Nat /\ at <= now2 /\ (halted2 # Never => at <= halted2)
  BY DEF Approval, Halts
<1>2. at - MaxAccountAge - MaxLag \in Int /\ at - MaxAccountAge - MaxLag <= now
  BY TradingPathAssumption DEF Approval
<1>3. Sees(basis, at - MaxAccountAge - MaxLag, live2, ent2)
  BY <1>2, SeesStays DEF Approval
<1> QED
  BY <1>1, <1>3 DEF Approval

LEMMA PlacedStays ==
    ASSUME NEW now \in Int, NEW now2 \in Int, now <= now2,
           NEW halted, NEW halted2, Halts(halted, halted2, now),
           NEW live, NEW live2, NEW ent, NEW ent2, Grew(live, live2, ent, ent2, now),
           NEW p, Authorised(p, now, halted, live, ent)
    PROVE  Authorised(p, now2, halted2, live2, ent2)
  BY ApprovalStays DEF Authorised

LEMMA StampedStays ==
    ASSUME NEW now \in Int, NEW now2 \in Int, now <= now2,
           NEW live, NEW live2, NEW ent, NEW ent2, Grew(live, live2, ent, ent2, now),
           NEW u, Stamped(u, now, live, ent)
    PROVE  Stamped(u, now2, live2, ent2)
<1>1. u.at - MaxLag \in Int /\ u.at - MaxLag <= now
  BY TradingPathAssumption DEF Stamped
<1>2. Sees(Counted(u), u.at - MaxLag, live2, ent2)
  BY <1>1, SeesStays DEF Stamped
<1> QED
  BY <1>2 DEF Stamped

LEMMA BeingReadStays ==
    ASSUME NEW now \in Int, NEW now2 \in Int, now <= now2,
           NEW live, NEW live2, NEW ent, NEW ent2, Grew(live, live2, ent, ent2, now),
           NEW u, BeingRead(u, now, live, ent), now2 <= u.at + MaxLag
    PROVE  BeingRead(u, now2, live2, ent2)
<1>1. Sees(Counted(u), u.at, live2, ent2)
  BY SeesStays DEF BeingRead
<1> QED
  BY <1>1 DEF BeingRead

-----------------------------------------------------------------------------
(* Sequences. *)
(* t is s and then x. *)
Longer(s, x, t) ==
    /\ IsSeq(t) /\ Len(s) \in Nat /\ Len(t) = Len(s) + 1
    /\ DOMAIN s = 1..Len(s) /\ DOMAIN t = 1..(Len(s) + 1)
    /\ t[Len(s) + 1] = x
    /\ \A i \in DOMAIN s : t[i] = s[i]

LEMMA Extended ==
    ASSUME NEW s, IsSeq(s), NEW x, NEW t, t = s \o <<x>>
    PROVE  Longer(s, x, t)
<1> DEFINE S == {s[i] : i \in DOMAIN s}
           T == S \union {x}
<1>1. s \in Seq(S)
  BY DEF IsSeq
<1>2. s \in Seq(T)
  BY <1>1
<1>3. /\ t \in Seq(T) /\ Len(t) = Len(s) + 1 /\ Len(s) \in Nat
      /\ DOMAIN s = 1..Len(s) /\ DOMAIN t = 1..Len(t)
      /\ t[Len(t)] = x /\ \A i \in DOMAIN s : t[i] = s[i]
  BY <1>2
<1>4. \A i \in 1..Len(t) : t[i] \in {t[j] : j \in DOMAIN t}
  BY <1>3
<1>5. t \in Seq({t[j] : j \in DOMAIN t})
  BY <1>3, <1>4
<1> QED
  BY <1>3, <1>5 DEF IsSeq, Longer

LEMMA EmptyIsSeq == ASSUME NEW s, s = <<>> PROVE IsSeq(s)
<1>1. \A S : <<>> \in Seq(S)
  OBVIOUS
<1> QED
  BY <1>1 DEF IsSeq

LEMMA TrackedAreReaders == Tracked \subseteq Readers
<1>1. Rounds[3] = <<"risk", "account">> /\ Rounds[11] = <<"execution", "decisions">>
      /\ 3 \in 1..Len(Rounds) /\ 11 \in 1..Len(Rounds)
  BY DEF Rounds
<1> QED
  BY <1>1 DEF Readers, Tracked

(* What a delivery does to the cursors, and what is delivered. *)
LEMMA DeliveredCursor ==
    ASSUME Shapes, NEW r, Delivers(r)
    PROVE  DOMAIN cursor' = Readers /\ \A q \in Tracked : cursor'[q] \in Nat
<1>1. cursor' = [cursor EXCEPT ![r] = cursor[r] + 1] /\ DOMAIN cursor = Readers
  BY DEF Delivers, Shapes
<1>2. ASSUME NEW q \in Tracked PROVE cursor'[q] \in Nat
  <2>1. q \in DOMAIN cursor /\ cursor[q] \in Nat
    BY <1>1, TrackedAreReaders DEF Shapes
  <2> QED
    BY <1>1, <2>1
<1> QED
  BY <1>1, <1>2

LEMMA DeliveredAccount ==
    ASSUME Shapes, Delivers(<<"risk", "account">>)
    PROVE  \E i \in DOMAIN log["account"] : Message(<<"risk", "account">>) = log["account"][i]
<1> DEFINE r == <<"risk", "account">>
<1>1. r \in Tracked /\ r[2] = "account"
  BY DEF Tracked
<1>2. cursor[r] \in Nat /\ cursor[r] < Len(log["account"])
  BY <1>1 DEF Shapes, Delivers, Unread
<1>3. DOMAIN log["account"] = 1..Len(log["account"]) /\ Len(log["account"]) \in Nat
  BY DEF Shapes, IsSeq
<1>4. cursor[r] + 1 \in DOMAIN log["account"] /\ Message(r) = log["account"][cursor[r] + 1]
  BY <1>1, <1>2, <1>3 DEF Message
<1> QED
  BY <1>4

LEMMA DeliveredDecision ==
    ASSUME Shapes, Delivers(<<"execution", "decisions">>)
    PROVE  \E i \in DOMAIN log["decisions"] : Message(<<"execution", "decisions">>) = log["decisions"][i]
<1> DEFINE r == <<"execution", "decisions">>
<1>1. r \in Tracked /\ r[2] = "decisions"
  BY DEF Tracked
<1>2. cursor[r] \in Nat /\ cursor[r] < Len(log["decisions"])
  BY <1>1 DEF Shapes, Delivers, Unread
<1>3. DOMAIN log["decisions"] = 1..Len(log["decisions"]) /\ Len(log["decisions"]) \in Nat
  BY DEF Shapes, IsSeq
<1>4. cursor[r] + 1 \in DOMAIN log["decisions"] /\ Message(r) = log["decisions"][cursor[r] + 1]
  BY <1>1, <1>2, <1>3 DEF Message
<1> QED
  BY <1>4

-----------------------------------------------------------------------------
(* What every step does to time, halts and the broker, and what it then leaves true of the updates,
   decisions and orders that it does not add. *)
Evolves ==
    /\ time \in Int /\ time' \in Int /\ time <= time'
    /\ Halts(gate.halted, gate'.halted, time)
    /\ Grew(Live, Live', entered, entered', time)

LEMMA UpdatesStay ==
    ASSUME Evolves, UpdatesOK, log'["account"] = log["account"] \/ log'["account"] = <<>>
    PROVE  UpdatesOK'
<1>1. \A i \in DOMAIN log["account"] : Stamped(log["account"][i], time', Live', entered')
  BY StampedStays DEF Evolves, UpdatesOK
<1> QED
  BY <1>1 DEF UpdatesOK

LEMMA HeldStays ==
    ASSUME Evolves, HeldOK, UpdatesOK,
           \/ account'["risk"] \in {account["risk"], NoAccount}
           \/ \E i \in DOMAIN log["account"] : account'["risk"] = log["account"][i]
    PROVE  HeldOK'
<1>1. account["risk"] # NoAccount => Stamped(account["risk"], time', Live', entered')
  BY StampedStays DEF Evolves, HeldOK
<1>2. \A i \in DOMAIN log["account"] : Stamped(log["account"][i], time', Live', entered')
  BY StampedStays DEF Evolves, UpdatesOK
<1> QED
  BY <1>1, <1>2 DEF HeldOK

LEMMA ReadStays ==
    ASSUME Evolves, ReadOK,
           reading' = NoAccount \/ (reading' = reading /\ time' <= reading.at + MaxLag)
    PROVE  ReadOK'
<1>1. CASE reading' = NoAccount
  BY <1>1 DEF ReadOK
<1>2. CASE reading' = reading /\ time' <= reading.at + MaxLag
  <2>1. reading # NoAccount => BeingRead(reading, time', Live', entered')
    BY <1>2, BeingReadStays DEF Evolves, ReadOK
  <2> QED
    BY <1>2, <2>1 DEF ReadOK
<1> QED
  BY <1>1, <1>2

LEMMA DecisionsStay ==
    ASSUME Evolves, DecisionsOK, log'["decisions"] = log["decisions"] \/ log'["decisions"] = <<>>
    PROVE  DecisionsOK'
<1>1. \A i \in DOMAIN log["decisions"] :
          log["decisions"][i].lots > 0 =>
              Approval(log["decisions"][i].at, log["decisions"][i].basis, time', gate'.halted, Live', entered')
  BY ApprovalStays DEF Evolves, DecisionsOK
<1> QED
  BY <1>1 DEF DecisionsOK

LEMMA PlacingStays ==
    ASSUME Evolves, PlacingOK, placing' \subseteq placing PROVE PlacingOK'
<1>1. \A p \in placing : Authorised(p, time', gate'.halted, Live', entered')
  BY PlacedStays DEF Evolves, PlacingOK
<1> QED
  BY <1>1 DEF PlacingOK

LEMMA EntriesStay ==
    ASSUME Evolves, EntriesOK, entered' = entered PROVE EntriesOK'
<1>1. \A s \in Signals : \A i \in DOMAIN entered[s] : Authorised(entered[s][i], time', gate'.halted, Live', entered')
  BY PlacedStays DEF Evolves, EntriesOK
<1>2. \A s \in Signals : \A i \in DOMAIN entered'[s] : Authorised(entered'[s][i], time', gate'.halted, Live', entered')
  BY <1>1
<1> QED
  BY <1>2 DEF EntriesOK

LEMMA OnceStays ==
    ASSUME Once, entered' = entered, placing' \subseteq placing,
           \A s \in Signals : orders[s] # None => orders'[s] # None
    PROVE  Once'
  BY DEF Once

(* The steps that add nothing. *)
Calm ==
    /\ time' = time
    /\ Halts(gate.halted, gate'.halted, time)
    /\ Live' \subseteq Live /\ entered' = entered
    /\ log'["account"] = log["account"] \/ log'["account"] = <<>>
    /\ log'["decisions"] = log["decisions"] \/ log'["decisions"] = <<>>
    /\ placing' \subseteq placing
    /\ reading' = reading \/ reading' = NoAccount
    /\ \/ account'["risk"] \in {account["risk"], NoAccount}
       \/ \E i \in DOMAIN log["account"] : account'["risk"] = log["account"][i]
    /\ \A s \in Signals : orders[s] # None => orders'[s] # None

LEMMA CalmInv ==
    ASSUME IInv, Calm, Shapes'
    PROVE  IInv'
<1>1. Evolves
  BY DEF Calm, Grew, Evolves, IInv, Shapes
<1>2. reading' = NoAccount \/ (reading' = reading /\ time' <= reading.at + MaxLag)
  BY DEF Calm, IInv, ReadOK, BeingRead
<1>3. UpdatesOK' /\ HeldOK' /\ ReadOK'
  BY <1>1, <1>2, UpdatesStay, HeldStays, ReadStays DEF Calm, IInv
<1>4. DecisionsOK' /\ PlacingOK' /\ EntriesOK' /\ Once'
  BY <1>1, DecisionsStay, PlacingStays, EntriesStay, OnceStays DEF Calm, IInv
<1> QED
  BY <1>3, <1>4 DEF IInv

-----------------------------------------------------------------------------
(* Shapes, part by part. *)
BusShape ==
    /\ DOMAIN log = Streams /\ IsSeq(log["account"]) /\ IsSeq(log["decisions"])
    /\ DOMAIN cursor = Readers /\ \A r \in Tracked : cursor[r] \in Nat

RiskShape == time \in Nat /\ DOMAIN account = {"risk", "allocator"} /\ gate \in [halted : Nat, seq : Int]

BrokerShape ==
    /\ entered = [s \in Signals |-> entered[s]] /\ \A s \in Signals : IsSeq(entered[s])
    /\ \A s \in Signals : \A i \in DOMAIN entered[s] : entered[s][i].at \in Nat
    /\ broker = [s \in Signals |-> broker[s]]
    /\ \A s \in Signals :
          \/ broker[s] = Nothing
          \/ DOMAIN broker[s] = {"state", "lots"} /\ broker[s].state \in {"pending", "open", "closed", "cancelled"}

OrderStates == {None, "sending", "pending", "open", "closed", "cancelled", "rejected"}
ExecShape ==
    /\ orders \in [Signals -> OrderStates]
    /\ \A p \in placing : DOMAIN p = PlacingFields

LEMMA ShapesParts ==
    /\ Shapes <=> BusShape /\ RiskShape /\ BrokerShape /\ ExecShape
    /\ Shapes' <=> BusShape' /\ RiskShape' /\ BrokerShape' /\ ExecShape'
  BY DEF Shapes, BusShape, RiskShape, BrokerShape, ExecShape, OrderStates

LEMMA RiskStays ==
    ASSUME RiskShape, time' = time, account' = account, gate' = gate PROVE RiskShape'
  BY DEF RiskShape

LEMMA BrokerStays ==
    ASSUME BrokerShape, broker' = broker, entered' = entered PROVE BrokerShape' /\ Live' = Live
  BY DEF BrokerShape, Live

LEMMA ExecStays ==
    ASSUME ExecShape, orders' = orders, placing' = placing PROVE ExecShape'
  BY DEF ExecShape

LEMMA BusStays == ASSUME BusShape, log' = log, cursor' = cursor PROVE BusShape'
  BY DEF BusShape

(* A delivery, and a message published on a stream of its own. *)
LEMMA BusDelivers ==
    ASSUME Shapes, NEW r, Delivers(r),
           DOMAIN log' = Streams, log'["account"] = log["account"], log'["decisions"] = log["decisions"]
    PROVE  BusShape'
  BY DeliveredCursor, ShapesParts DEF BusShape

LEMMA Published ==
    ASSUME DOMAIN log = Streams, NEW st \in Streams \ {"account", "decisions"}, NEW ms, Publish(st, ms)
    PROVE  /\ DOMAIN log' = Streams
           /\ log'["account"] = log["account"] /\ log'["decisions"] = log["decisions"]
  BY DEF Publish, Streams

LEMMA Flushed ==
    ASSUME DOMAIN log = Streams, Flush
    PROVE  /\ DOMAIN log' = Streams
           /\ log'["account"] = log["account"] /\ log'["decisions"] = log["decisions"]
  BY DEF Flush, Publish2, Streams

(* The orders at the broker that end, or fill. *)
LEMMA EndedShape ==
    ASSUME BrokerShape, entered' = entered, NEW S \in SUBSET Live,
           broker' = [s \in Signals |-> IF s \in S THEN Ended(s) ELSE broker[s]]
    PROVE  BrokerShape' /\ Live' \subseteq Live
<1>1. ASSUME NEW s \in S
      PROVE  /\ DOMAIN broker'[s] = {"state", "lots"} /\ broker'[s].state \in {"closed", "cancelled"}
  <2>1. s \in Signals /\ broker[s].state \in {"pending", "open"} /\ broker[s] # Nothing
    BY DEF Live, Nothing
  <2>2. DOMAIN broker[s] = {"state", "lots"}
    BY <2>1 DEF BrokerShape
  <2>3. broker'[s] = [broker[s] EXCEPT !.state = IF broker[s].state = "pending" THEN "cancelled" ELSE "closed"]
    BY <2>1 DEF Ended
  <2> QED
    BY <2>2, <2>3
<1>2. \A s \in Signals : s \notin S => broker'[s] = broker[s]
  OBVIOUS
<1>3. BrokerShape'
  BY <1>1, <1>2 DEF BrokerShape
<1>4. Live' \subseteq Live
  BY <1>1, <1>2 DEF Live
<1> QED
  BY <1>3, <1>4

-----------------------------------------------------------------------------
(* The steps that leave the broker, the orders and the approvals alone. *)
LEMMA SchedulerCalm ==
    ASSUME IInv, PumpMoves \/ MinuteMoves
    PROVE  Calm /\ Shapes'
<1>1. UNCHANGED <<time, log, cursor, account, gate, placing, orders, broker, entered, reading>>
  BY DEF PumpMoves, MinuteMoves, busVars, riskVars, execVars, brokerVars
<1>2. Shapes'
  BY <1>1, ShapesParts, RiskStays, BrokerStays, ExecStays, BusStays DEF IInv
<1> QED
  BY <1>1, <1>2 DEF Calm, Halts, Live

LEMMA EmitCalm ==
    ASSUME IInv, NEW s \in Signals, Emit(s)
    PROVE  Calm /\ Shapes'
<1>1. UNCHANGED <<time, cursor, account, gate, placing, orders, broker, entered, reading>> /\ Publish("signals", <<s>>)
  BY DEF Emit, riskVars, execVars, brokerVars
<1>2. /\ DOMAIN log' = Streams
      /\ log'["account"] = log["account"] /\ log'["decisions"] = log["decisions"]
  BY <1>1, Published DEF IInv, Shapes, Streams
<1>3. BusShape'
  BY <1>1, <1>2 DEF IInv, Shapes, BusShape
<1>4. Shapes'
  BY <1>1, <1>3, ShapesParts, RiskStays, BrokerStays, ExecStays DEF IInv
<1> QED
  BY <1>1, <1>2, <1>4 DEF Calm, Halts, Live

(* The handlers that keep a view, a size or another service's account. *)
LEMMA ViewCalm ==
    ASSUME IInv, NEW v \in Viewers, OnStage(v)
    PROVE  Calm /\ Shapes'
<1>1. UNCHANGED <<time, log, account, gate, placing, orders, broker, entered, reading>> /\ Delivers(<<v, "stages">>)
  BY DEF OnStage, execVars, brokerVars
<1>2. BusShape'
  BY <1>1, BusDelivers DEF IInv, Shapes
<1>3. Shapes'
  BY <1>1, <1>2, ShapesParts, RiskStays, BrokerStays, ExecStays DEF IInv
<1> QED
  BY <1>1, <1>3 DEF Calm, Halts, Live

LEMMA AllocatorCalm ==
    ASSUME IInv, AllocatorOnAccount
    PROVE  Calm /\ Shapes'
<1>1. /\ UNCHANGED <<time, log, gate, placing, orders, broker, entered, reading>>
      /\ Delivers(<<"allocator", "account">>)
      /\ account' = [account EXCEPT !["allocator"] = Message(<<"allocator", "account">>)]
  BY DEF AllocatorOnAccount, execVars, brokerVars
<1>2. BusShape'
  BY <1>1, BusDelivers DEF IInv, Shapes
<1>3. DOMAIN account' = {"risk", "allocator"} /\ account'["risk"] = account["risk"]
  BY <1>1 DEF IInv, Shapes
<1>4. RiskShape'
  BY <1>1, <1>3 DEF RiskShape, IInv, Shapes
<1>5. Shapes'
  BY <1>1, <1>2, <1>4, ShapesParts, BrokerStays, ExecStays DEF IInv
<1> QED
  BY <1>1, <1>3, <1>5 DEF Calm, Halts, Live

LEMMA SignalCalm ==
    ASSUME IInv, OnSignal
    PROVE  Calm /\ Shapes'
<1>1. /\ UNCHANGED <<time, account, gate, placing, orders, broker, entered, reading>>
      /\ Delivers(<<"allocator", "signals">>)
      /\ log' = log \/ \E ms : Publish("intents", ms)
  BY DEF OnSignal, riskVars, execVars, brokerVars
<1>2. /\ DOMAIN log' = Streams
      /\ log'["account"] = log["account"] /\ log'["decisions"] = log["decisions"]
  BY <1>1, Published DEF IInv, Shapes, Streams
<1>3. BusShape'
  BY <1>1, <1>2, BusDelivers DEF IInv
<1>4. Shapes'
  BY <1>1, <1>3, ShapesParts, RiskStays, BrokerStays, ExecStays DEF IInv
<1> QED
  BY <1>1, <1>2, <1>4 DEF Calm, Halts, Live

(* The gate's account is one the bus has delivered; a halt is of now. *)
LEMMA RiskAccountCalm ==
    ASSUME IInv, RiskOnAccount
    PROVE  Calm /\ Shapes'
<1> DEFINE update == Message(<<"risk", "account">>)
<1>1. /\ UNCHANGED <<time, placing, orders, broker, entered, reading>>
      /\ Delivers(<<"risk", "account">>)
      /\ account' = [account EXCEPT !["risk"] = update]
      /\ \/ gate' = gate /\ log' = log
         \/ gate.halted = Never /\ gate' = [gate EXCEPT !.halted = time] /\ Publish("halts", <<time>>)
  BY DEF RiskOnAccount, execVars, brokerVars
<1>2. /\ DOMAIN log' = Streams
      /\ log'["account"] = log["account"] /\ log'["decisions"] = log["decisions"]
  BY <1>1, Published DEF IInv, Shapes, Streams
<1>3. BusShape'
  BY <1>1, <1>2, BusDelivers DEF IInv
<1>4. DOMAIN account' = {"risk", "allocator"} /\ account'["risk"] = update
  BY <1>1 DEF IInv, Shapes
<1>5. gate' \in [halted : Nat, seq : Int] /\ Halts(gate.halted, gate'.halted, time)
  BY <1>1 DEF IInv, Shapes, Halts
<1>6. RiskShape'
  BY <1>1, <1>4, <1>5 DEF RiskShape, IInv, Shapes
<1>7. Shapes'
  BY <1>1, <1>3, <1>6, ShapesParts, BrokerStays, ExecStays DEF IInv
<1>8. \E i \in DOMAIN log["account"] : account'["risk"] = log["account"][i]
  BY <1>1, <1>4, DeliveredAccount DEF IInv
<1> HIDE DEF update
<1> QED
  BY <1>1, <1>2, <1>5, <1>7, <1>8 DEF Calm, Live

(* A halt or a demotion ends what it finds. *)
LEMMA HaltCalm ==
    ASSUME IInv, OnHalt
    PROVE  Calm /\ Shapes'
<1>1. /\ UNCHANGED <<time, log, account, gate, placing, entered, reading>>
      /\ Delivers(<<"execution", "halts">>)
      /\ broker' = [s \in Signals |-> IF s \in Live THEN Ended(s) ELSE broker[s]]
      /\ orders' = [s \in Signals |-> IF broker[s].state = "pending" /\ orders[s] = "pending"
                                      THEN "cancelled" ELSE orders[s]]
  BY DEF OnHalt, riskVars
<1>2. BusShape'
  BY <1>1, BusDelivers DEF IInv, Shapes
<1>3. BrokerShape' /\ Live' \subseteq Live
  BY <1>1, EndedShape, ShapesParts DEF IInv
<1>4. ExecShape' /\ \A s \in Signals : orders[s] # None => orders'[s] # None
  <2>1. ExecShape
    BY ShapesParts DEF IInv
  <2> QED
    BY <1>1, <2>1 DEF ExecShape, OrderStates, None
<1>5. Shapes'
  BY <1>1, <1>2, <1>3, <1>4, ShapesParts, RiskStays DEF IInv
<1> QED
  BY <1>1, <1>3, <1>4, <1>5 DEF Calm, Halts

LEMMA ControlCalm ==
    ASSUME IInv, OnControl
    PROVE  Calm /\ Shapes'
<1> DEFINE pending == {s \in Signals : orders[s] = "pending"}
           filled == {s \in pending : broker[s].state # "pending"}
           closed == IF filled = {} THEN {s \in Signals : orders[s] = "open"} ELSE {}
           ended == (pending \ filled) \union (closed \intersect Live)
<1>1. /\ UNCHANGED <<time, log, account, gate, placing, entered, reading>>
      /\ Delivers(<<"execution", "control">>)
      /\ broker' = [s \in Signals |-> IF s \in ended THEN Ended(s) ELSE broker[s]]
      /\ orders' = [s \in Signals |-> IF s \in pending \ filled THEN "cancelled" ELSE orders[s]]
  BY DEF OnControl, riskVars
<1>2. BusShape'
  BY <1>1, BusDelivers DEF IInv, Shapes
<1>3. ended \in SUBSET Live
  BY DEF Live
<1>4. ExecShape' /\ \A s \in Signals : orders[s] # None => orders'[s] # None
  <2>1. ExecShape
    BY ShapesParts DEF IInv
  <2> HIDE DEF filled, pending
  <2> QED
    BY <1>1, <2>1 DEF ExecShape, OrderStates, None
<1> HIDE DEF ended
<1>5. BrokerShape' /\ Live' \subseteq Live
  BY <1>1, <1>3, EndedShape, ShapesParts DEF IInv
<1>6. Shapes'
  BY <1>1, <1>2, <1>4, <1>5, ShapesParts, RiskStays DEF IInv
<1> QED
  BY <1>1, <1>4, <1>5, <1>6 DEF Calm, Halts

LEMMA SizeCalm ==
    ASSUME IInv, ExecutionOnIntent
    PROVE  Calm /\ Shapes'
<1>1. UNCHANGED <<time, log, account, gate, placing, orders, broker, entered, reading>> /\ Delivers(<<"execution", "intents">>)
  BY DEF ExecutionOnIntent, riskVars, brokerVars
<1>2. BusShape'
  BY <1>1, BusDelivers DEF IInv, Shapes
<1>3. Shapes'
  BY <1>1, <1>2, ShapesParts, RiskStays, BrokerStays, ExecStays DEF IInv
<1> QED
  BY <1>1, <1>3 DEF Calm, Halts, Live

(* The broker's answer to a placement. *)
LEMMA AckedCalm ==
    ASSUME IInv, NEW p \in placing, Acked(p)
    PROVE  Calm /\ Shapes'
<1>1. /\ UNCHANGED <<time, log, cursor, account, gate, broker, entered, reading>>
      /\ placing' = placing \ {p}
      /\ orders' = [orders EXCEPT ![p.signal] = IF Resting(p.signal) THEN "pending" ELSE "open"]
  BY DEF Acked, busVars, riskVars, brokerVars
<1>2. ExecShape' /\ \A s \in Signals : orders[s] # None => orders'[s] # None
  <2>1. ExecShape
    BY ShapesParts DEF IInv
  <2> QED
    BY <1>1, <2>1 DEF ExecShape, OrderStates, None
<1>3. Shapes'
  BY <1>1, <1>2, ShapesParts, RiskStays, BrokerStays, BusStays DEF IInv
<1> QED
  BY <1>1, <1>2, <1>3 DEF Calm, Halts, Live

(* The market fills a resting entry or closes a position. *)
LEMMA MarketCalm ==
    ASSUME IInv, NEW s \in Signals, Fills(s) \/ Stopped(s)
    PROVE  Calm /\ Shapes'
<1>1. UNCHANGED <<time, log, cursor, account, gate, placing, orders, entered, reading>>
  BY DEF Fills, Stopped, busVars, riskVars, execVars
<1>2. BrokerShape
  BY ShapesParts DEF IInv
<1>3. BrokerShape' /\ Live' \subseteq Live
  <2>1. CASE Fills(s)
    <3>1. broker[s].state = "pending" /\ broker' = [broker EXCEPT ![s] = [broker[s] EXCEPT !.state = "open"]]
      BY <2>1 DEF Fills
    <3>2. DOMAIN broker[s] = {"state", "lots"}
      BY <3>1, <1>2 DEF BrokerShape, Nothing
    <3>3. DOMAIN broker'[s] = {"state", "lots"} /\ broker'[s].state = "open"
      BY <3>1, <3>2, <1>2 DEF BrokerShape
    <3>4. /\ broker' = [u \in Signals |-> broker'[u]]
          /\ \A u \in Signals : u # s => broker'[u] = broker[u]
      BY <3>1, <1>2 DEF BrokerShape
    <3>5. BrokerShape'
      BY <3>3, <3>4, <1>1, <1>2 DEF BrokerShape
    <3>6. Live' \subseteq Live
      BY <3>1, <3>4 DEF Live
    <3> QED
      BY <3>5, <3>6
  <2>2. CASE Stopped(s)
    <3>1. s \in Live /\ broker' = [broker EXCEPT ![s] = Ended(s)]
      BY <2>2 DEF Stopped, Live
    <3>2. broker' = [u \in Signals |-> IF u \in {s} THEN Ended(u) ELSE broker[u]]
      BY <3>1, <1>2 DEF BrokerShape
    <3> QED
      BY <3>1, <3>2, <1>1, <1>2, EndedShape
  <2> QED
    BY <2>1, <2>2
<1>4. Shapes'
  BY <1>1, <1>3, ShapesParts, RiskStays, ExecStays, BusStays DEF IInv
<1> QED
  BY <1>1, <1>3, <1>4 DEF Calm, Halts

(* The lifecycle publishes a stage and an order to close. *)
LEMMA LifecycleCalm ==
    ASSUME IInv, OnTrade \/ Hourly \/ OwnerStops
    PROVE  Calm /\ Shapes'
<1>1. /\ UNCHANGED <<time, account, gate, placing, orders, broker, entered, reading>>
      /\ cursor' = cursor \/ Delivers(<<"lifecycle", "trades">>)
      /\ log' = log \/ Flush
  BY DEF OnTrade, Hourly, OwnerStops, riskVars, execVars, brokerVars
<1>2. /\ DOMAIN log' = Streams
      /\ log'["account"] = log["account"] /\ log'["decisions"] = log["decisions"]
  BY <1>1, Flushed DEF IInv, Shapes
<1>3. BusShape'
  <2>1. CASE cursor' = cursor
    BY <2>1, <1>2 DEF BusShape, IInv, Shapes
  <2>2. CASE Delivers(<<"lifecycle", "trades">>)
    BY <2>2, <1>2, BusDelivers DEF IInv
  <2> QED
    BY <1>1, <2>1, <2>2
<1>4. Shapes'
  BY <1>1, <1>3, ShapesParts, RiskStays, BrokerStays, ExecStays DEF IInv
<1> QED
  BY <1>1, <1>2, <1>4 DEF Calm, Halts, Live

(* A restart forgets what was in memory, and may read a message again. *)
LEMMA RestartAllCalm ==
    ASSUME IInv, RestartAll
    PROVE  Calm /\ Shapes'
<1>1. /\ UNCHANGED <<time, gate, orders, broker, entered>>
      /\ log' = [st \in Streams |-> CASE st = "stages" -> <<stage>> [] st = "halts" -> HaltAgain
                                        [] OTHER -> <<>>]
      /\ cursor' = [r \in Readers |-> 0]
      /\ account' = [v \in DOMAIN account |-> NoAccount]
      /\ placing' = {} /\ reading' = NoAccount
  BY DEF RestartAll, brokerVars
<1>2. DOMAIN log' = Streams /\ log'["account"] = <<>> /\ log'["decisions"] = <<>>
  BY <1>1 DEF Streams
<1>3. BusShape'
  <2>1. IsSeq(log'["account"]) /\ IsSeq(log'["decisions"])
    BY <1>2, EmptyIsSeq
  <2>2. DOMAIN cursor' = Readers /\ \A r \in Tracked : cursor'[r] \in Nat
    BY <1>1, TrackedAreReaders
  <2> QED
    BY <1>2, <2>1, <2>2 DEF BusShape
<1>4. DOMAIN account' = {"risk", "allocator"} /\ account'["risk"] = NoAccount
  BY <1>1 DEF IInv, Shapes
<1>5. RiskShape' /\ ExecShape'
  BY <1>1, <1>4, ShapesParts DEF RiskShape, ExecShape, IInv
<1>6. Shapes'
  BY <1>1, <1>3, <1>5, ShapesParts, BrokerStays DEF IInv
<1> QED
  BY <1>1, <1>2, <1>4, <1>6 DEF Calm, Halts, Live

LEMMA RestartCalm ==
    ASSUME IInv, NEW service,
           NEW again \in {{}} \union {{r} : r \in {r \in Readers : r[1] = service /\ cursor[r] > 0}},
           Restart(service, again)
    PROVE  Calm /\ Shapes'
<1>1. /\ UNCHANGED <<time, gate, orders, broker, entered>>
      /\ log' = [log EXCEPT !["halts"] = IF service = "risk" THEN @ \o HaltAgain ELSE @,
                            !["stages"] = IF service = "lifecycle" THEN Append(@, stage) ELSE @]
      /\ cursor' = [r \in Readers |-> IF r \in again THEN cursor[r] - 1 ELSE cursor[r]]
      /\ account' = [v \in DOMAIN account |-> IF v = service THEN NoAccount ELSE account[v]]
      /\ placing' = placing \/ placing' = {}
      /\ reading' = reading \/ reading' = NoAccount
  BY DEF Restart, brokerVars
<1>2. DOMAIN log' = Streams /\ log'["account"] = log["account"] /\ log'["decisions"] = log["decisions"]
  BY <1>1 DEF IInv, Shapes, Streams
<1>3. \A r \in again : cursor[r] > 0
  OBVIOUS
<1>4. DOMAIN cursor' = Readers /\ \A r \in Tracked : cursor'[r] \in Nat
  BY <1>1, <1>3, TrackedAreReaders DEF IInv, Shapes
<1>5. BusShape'
  BY <1>2, <1>4 DEF BusShape, IInv, Shapes
<1>6. DOMAIN account' = {"risk", "allocator"} /\ account'["risk"] \in {account["risk"], NoAccount}
  BY <1>1 DEF IInv, Shapes
<1>7. RiskShape' /\ ExecShape'
  BY <1>1, <1>6, ShapesParts DEF RiskShape, ExecShape, IInv
<1>8. Shapes'
  BY <1>1, <1>5, <1>7, ShapesParts, BrokerStays DEF IInv
<1> QED
  BY <1>1, <1>2, <1>6, <1>8 DEF Calm, Halts, Live

-----------------------------------------------------------------------------
(* The steps that add an update, a decision or an order, and the clock. *)
LEMMA TickInv ==
    ASSUME IInv, Tick
    PROVE  IInv'
<1>1. /\ UNCHANGED <<log, cursor, account, gate, placing, orders, broker, entered, reading>>
      /\ time' = time + 1 /\ (reading # NoAccount => time < reading.at + MaxLag)
  BY DEF Tick, busVars, riskVars, execVars, brokerVars
<1>2. time \in Nat /\ time' \in Nat
  BY <1>1 DEF IInv, Shapes
<1>3. RiskShape'
  BY <1>1, <1>2, ShapesParts DEF RiskShape, IInv
<1>4. Shapes' /\ Live' = Live
  BY <1>1, <1>3, ShapesParts, BrokerStays, ExecStays, BusStays DEF IInv
<1>5. Evolves
  BY <1>1, <1>2, <1>4 DEF Evolves, Halts, Grew
<1>6. reading' = NoAccount \/ (reading' = reading /\ time' <= reading.at + MaxLag)
  <2>1. reading # NoAccount => reading.at \in Nat
    BY DEF IInv, ReadOK, BeingRead
  <2> QED
    BY <1>1, <1>2, <2>1, TradingPathAssumption
<1>7. UpdatesOK' /\ HeldOK' /\ ReadOK'
  BY <1>1, <1>5, <1>6, UpdatesStay, HeldStays, ReadStays DEF IInv
<1>8. DecisionsOK' /\ PlacingOK' /\ EntriesOK' /\ Once'
  BY <1>1, <1>5, DecisionsStay, PlacingStays, EntriesStay, OnceStays DEF IInv
<1> QED
  BY <1>4, <1>7, <1>8 DEF IInv

(* The gate approves nothing while it is halted, nor on an account update that is too old. *)
LEMMA AnswerTells ==
    ASSUME NEW intent, Answer(intent) > 0
    PROVE  Fresh /\ gate.halted = Never
<1>1. ~(0 > 0)
  OBVIOUS
<1>2. Fresh
  BY <1>1 DEF Answer
<1>3. ASSUME gate.halted # Never PROVE FALSE
  <2>1. Refused([intent EXCEPT !.signal = SignalOf[@]], Snapshot, gate.halted # Never)
    BY <1>3 DEF Refused
  <2>2. Answer(intent) = 0
    BY <1>2, <2>1 DEF Answer, Approved
  <2> QED
    BY <1>1, <2>2
<1> QED
  BY <1>2, <1>3

LEMMA OnIntentInv ==
    ASSUME IInv, OnIntent
    PROVE  IInv'
<1> DEFINE intent == Message(<<"risk", "intents">>)
           lots == Answer(intent)
           d == [signal |-> intent.signal, lots |-> lots, at |-> time, seq |-> gate.seq + 1,
                 basis |-> Counted(account["risk"])]
<1>1. /\ UNCHANGED <<time, account, placing, orders, broker, entered, reading>>
      /\ Delivers(<<"risk", "intents">>)
      /\ gate' = [gate EXCEPT !.seq = gate.seq + 1]
      /\ log' = [log EXCEPT !["decisions"] = log["decisions"] \o <<d>>]
  BY DEF OnIntent, Decide, Publish, execVars, brokerVars, Counted
<1>2. lots > 0 => Fresh /\ gate.halted = Never
  BY AnswerTells
<1>3. d.lots = lots /\ d.at = time /\ d.basis = Counted(account["risk"])
  OBVIOUS
<1> HIDE DEF d, lots
<1>4. /\ DOMAIN log' = Streams /\ log'["account"] = log["account"]
      /\ log'["decisions"] = log["decisions"] \o <<d>>
  BY <1>1 DEF IInv, Shapes, Streams
<1>5. Longer(log["decisions"], d, log'["decisions"])
  BY <1>4, Extended DEF IInv, Shapes
<1>6. BusShape'
  BY <1>1, <1>4, <1>5, DeliveredCursor DEF BusShape, Longer, IInv, Shapes
<1>7. gate' \in [halted : Nat, seq : Int] /\ gate'.halted = gate.halted
  BY <1>1 DEF IInv, Shapes
<1>8. RiskShape'
  BY <1>1, <1>7, ShapesParts DEF RiskShape, IInv
<1>9. Shapes' /\ Live' = Live
  BY <1>1, <1>6, <1>8, ShapesParts, BrokerStays, ExecStays DEF IInv
<1>10. Evolves
  BY <1>1, <1>7, <1>9 DEF Evolves, Halts, Grew, IInv, Shapes
<1>11. UpdatesOK' /\ HeldOK' /\ ReadOK'
  <2>1. reading' = NoAccount \/ (reading' = reading /\ time' <= reading.at + MaxLag)
    BY <1>1 DEF IInv, ReadOK, BeingRead
  <2> QED
    BY <1>1, <1>4, <1>10, <2>1, UpdatesStay, HeldStays, ReadStays DEF IInv
<1>12. PlacingOK' /\ EntriesOK' /\ Once'
  BY <1>1, <1>10, PlacingStays, EntriesStay, OnceStays DEF IInv
<1>13. DecisionsOK'
  <2>1. \A i \in DOMAIN log["decisions"] :
            log["decisions"][i].lots > 0 =>
                Approval(log["decisions"][i].at, log["decisions"][i].basis, time', gate'.halted, Live', entered')
    BY <1>10, ApprovalStays DEF Evolves, DecisionsOK, IInv
  <2>2. d.lots > 0 => Approval(d.at, d.basis, time', gate'.halted, Live', entered')
    <3> SUFFICES ASSUME d.lots > 0
                 PROVE  Approval(time, Counted(account["risk"]), time, gate.halted, Live, entered)
      BY <1>1, <1>3, <1>7, <1>9
    <3>1. /\ gate.halted = Never /\ account["risk"] # NoAccount
          /\ time - account["risk"].at <= MaxAccountAge
      BY <1>2, <1>3 DEF Fresh
    <3>2. Stamped(account["risk"], time, Live, entered)
      BY <3>1 DEF IInv, HeldOK
    <3> DEFINE u == account["risk"]
    <3> HIDE DEF u
    <3>3. u.at \in Nat /\ time \in Nat /\ time - MaxAccountAge - MaxLag <= u.at - MaxLag
      BY <3>1, <3>2, TradingPathAssumption DEF Stamped, IInv, Shapes, u
    <3>4. Sees(Counted(u), u.at - MaxLag, Live, entered)
      BY <3>2 DEF Stamped, u
    <3>5. Sees(Counted(u), time - MaxAccountAge - MaxLag, Live, entered)
      <4> SUFFICES ASSUME NEW s \in Live, NEW i \in DOMAIN entered[s],
                          entered[s][i].at < time - MaxAccountAge - MaxLag
                   PROVE  s \in Counted(u)
        BY DEF Sees
      <4>1. entered[s][i].at \in Int
        BY DEF IInv, Shapes, Live
      <4> QED
        BY <3>3, <3>4, <4>1, TradingPathAssumption DEF Sees
    <3> QED
      BY <3>1, <3>3, <3>5 DEF Approval, u
  <2> QED
    BY <1>5, <2>1, <2>2 DEF DecisionsOK, Longer
<1> QED
  BY <1>9, <1>11, <1>12, <1>13 DEF IInv

(* The order that is placed has the approval's time and basis. *)
LEMMA OnDecisionInv ==
    ASSUME IInv, OnDecision
    PROVE  IInv'
<1> DEFINE d == Message(<<"execution", "decisions">>)
           p == [signal |-> d.signal, lots |-> d.lots, decided |-> d.at, verified |-> time,
                 basis |-> d.basis, sent |-> FALSE]
           s == d.signal
<1>1. /\ UNCHANGED <<time, log, account, gate, broker, entered, reading>>
      /\ Delivers(<<"execution", "decisions">>)
  BY DEF OnDecision, riskVars, brokerVars
<1>2. BusShape'
  BY <1>1, BusDelivers DEF IInv, Shapes
<1>3. CASE UNCHANGED <<orders, placing>>
  <2>1. Shapes'
    BY <1>1, <1>2, <1>3, ShapesParts, RiskStays, BrokerStays, ExecStays DEF IInv
  <2>2. Calm
    BY <1>1, <1>3 DEF Calm, Halts, Live
  <2> QED
    BY <2>1, <2>2, CalmInv
<1>4. CASE Verified(d) /\ orders' = [orders EXCEPT ![s] = "sending"] /\ placing' = placing \union {p}
  <2>1. /\ p.signal = s /\ p.decided = d.at /\ p.verified = time /\ p.basis = d.basis /\ p.sent = FALSE
        /\ DOMAIN p = PlacingFields
    BY DEF PlacingFields
  <2>2. d.lots > 0 /\ orders[s] = None /\ time <= d.at + DecisionTtl
    BY <1>4 DEF Verified
  <2>3. Approval(d.at, d.basis, time, gate.halted, Live, entered)
    <3>1. \E i \in DOMAIN log["decisions"] : d = log["decisions"][i]
      BY <1>1, DeliveredDecision DEF IInv
    <3> QED
      BY <2>2, <3>1 DEF IInv, DecisionsOK
  <2> HIDE DEF p, s, d
  <2>4. ExecShape' /\ \A u \in Signals : orders[u] # None => orders'[u] # None
    <3>1. ExecShape
      BY ShapesParts DEF IInv
    <3> QED
      BY <1>4, <2>1, <3>1 DEF ExecShape, OrderStates, None
  <2>5. Shapes' /\ Live' = Live
    BY <1>1, <1>2, <2>4, ShapesParts, RiskStays, BrokerStays DEF IInv
  <2>6. Evolves
    BY <1>1, <2>5 DEF Evolves, Halts, Grew, IInv, Shapes
  <2>7. UpdatesOK' /\ HeldOK' /\ ReadOK' /\ DecisionsOK' /\ EntriesOK'
    <3>1. reading' = NoAccount \/ (reading' = reading /\ time' <= reading.at + MaxLag)
      BY <1>1 DEF IInv, ReadOK, BeingRead
    <3> QED
      BY <1>1, <2>6, <3>1, UpdatesStay, HeldStays, ReadStays, DecisionsStay, EntriesStay DEF IInv
  <2>8. PlacingOK'
    <3>1. time \in Nat
      BY DEF IInv, Shapes
    <3>2. Authorised(p, time, gate.halted, Live, entered)
      BY <2>1, <2>2, <2>3, <3>1 DEF Authorised
    <3>3. \A q \in placing : Authorised(q, time, gate.halted, Live, entered)
      BY DEF IInv, PlacingOK
    <3>4. \A q \in placing' : Authorised(q, time, gate.halted, Live, entered)
      BY <1>4, <3>2, <3>3
    <3> QED
      BY <1>1, <2>5, <3>4 DEF PlacingOK
  <2>9. Once'
    <3> SUFFICES ASSUME NEW u \in Signals
                 PROVE  /\ Len(entered[u]) <= 1
                        /\ orders'[u] = None => entered[u] = <<>> /\ \A q \in placing' : q.signal # u
                        /\ \A q \in placing' : q.signal = u =>
                              /\ ~q.sent => entered[u] = <<>>
                              /\ \A r \in placing' : r.signal = u => r = q
      BY <1>1 DEF Once
    <3>1. /\ Len(entered[u]) <= 1
          /\ orders[u] = None => entered[u] = <<>> /\ \A q \in placing : q.signal # u
          /\ \A q \in placing : q.signal = u =>
                /\ ~q.sent => entered[u] = <<>>
                /\ \A r \in placing : r.signal = u => r = q
      BY DEF IInv, Once
    <3>2. CASE u = s
      <4>1. orders'[u] # None
        BY <3>2, <1>4 DEF IInv, Shapes, None
      <4>2. entered[u] = <<>> /\ \A q \in placing : q.signal # u
        BY <3>1, <3>2, <2>2
      <4> QED
        BY <1>4, <2>1, <3>1, <3>2, <4>1, <4>2
    <3>3. CASE u # s
      <4>1. orders'[u] = orders[u]
        BY <3>3, <1>4 DEF IInv, Shapes
      <4>2. \A q \in placing' : q.signal = u => q \in placing
        BY <1>4, <2>1, <3>3
      <4>3. \A q \in placing : q.signal # u => \A r \in placing' : r.signal = u => r \in placing
        BY <4>2
      <4> QED
        BY <1>4, <2>1, <3>1, <3>3, <4>1, <4>2
    <3> QED
      BY <3>2, <3>3
  <2> QED
    BY <2>5, <2>7, <2>8, <2>9 DEF IInv
<1> QED
  BY <1>3, <1>4 DEF OnDecision

(* What the broker shows now is in the update. *)
LEMMA CycleInv ==
    ASSUME IInv, Cycle
    PROVE  IInv'
<1>1. /\ UNCHANGED <<time, cursor, account, gate, placing, broker, entered>>
      /\ orders' = [s \in Signals |-> IF s \in Following THEN Journalled(s) ELSE orders[s]]
      /\ Publish("trades", SetToSeq(Ends))
      /\ \E equity \in Levels : reading' = [at |-> time, equity |-> equity, exposures |-> Exposures]
  BY DEF Cycle, riskVars, brokerVars
<1>2. /\ DOMAIN log' = Streams
      /\ log'["account"] = log["account"] /\ log'["decisions"] = log["decisions"]
  BY <1>1, Published DEF IInv, Shapes, Streams
<1>3. BusShape'
  BY <1>1, <1>2 DEF IInv, Shapes, BusShape
<1>4. \A s \in Signals : Journalled(s) \in OrderStates \ {None}
  <2>1. BrokerShape
    BY ShapesParts DEF IInv
  <2> QED
    BY <2>1 DEF BrokerShape, Journalled, OrderStates, None
<1>5. ExecShape' /\ \A s \in Signals : orders[s] # None => orders'[s] # None
  <2>1. ExecShape
    BY ShapesParts DEF IInv
  <2> QED
    BY <1>1, <1>4, <2>1 DEF ExecShape
<1>6. Shapes' /\ Live' = Live
  BY <1>1, <1>3, <1>5, ShapesParts, RiskStays, BrokerStays DEF IInv
<1>7. Evolves
  BY <1>1, <1>6 DEF Evolves, Halts, Grew, IInv, Shapes
<1>8. UpdatesOK' /\ HeldOK' /\ DecisionsOK' /\ PlacingOK' /\ EntriesOK' /\ Once'
  BY <1>1, <1>2, <1>5, <1>7, UpdatesStay, HeldStays, DecisionsStay, PlacingStays, EntriesStay, OnceStays DEF IInv
<1>9. ReadOK'
  <2> PICK equity \in Levels : reading' = [at |-> time, equity |-> equity, exposures |-> Exposures]
    BY <1>1
  <2>1. /\ DOMAIN reading' = {"at", "equity", "exposures"}
        /\ reading'.at = time /\ reading'.exposures = Exposures
    OBVIOUS
  <2>2. ASSUME NEW s \in Live PROVE \E e \in Exposures : e.id = s
    <3> DEFINE e == [id |-> s, symbol |-> SignalOf[s].symbol, side |-> SignalOf[s].side, lots |-> broker[s].lots,
                     entry |-> MarketEntry(s), stop |-> SignalOf[s].stop, strategy |-> SignalOf[s].strategy,
                     external |-> FALSE]
    <3>1. e \in Exposures /\ e.id = s
      BY DEF Exposures
    <3> QED
      BY <3>1
  <2>3. Sees(Counted(reading'), time, Live, entered)
    BY <2>1, <2>2 DEF Sees, Counted
  <2>4. time \in Nat /\ time <= time + MaxLag
    BY TradingPathAssumption DEF IInv, Shapes
  <2>5. BeingRead(reading', time, Live, entered)
    BY <2>1, <2>3, <2>4 DEF BeingRead
  <2> QED
    BY <1>1, <1>6, <2>5 DEF ReadOK
<1> QED
  BY <1>6, <1>8, <1>9 DEF IInv

(* The stamp is at most MaxLag later than what was read. *)
LEMMA PublishAccountInv ==
    ASSUME IInv, PublishAccount
    PROVE  IInv'
<1> DEFINE u == [reading EXCEPT !.at = time]
<1>1. /\ UNCHANGED <<time, cursor, account, gate, placing, orders, broker, entered>>
      /\ reading # NoAccount /\ reading' = NoAccount
      /\ log' = [log EXCEPT !["account"] = log["account"] \o <<u>>]
  BY DEF PublishAccount, Publish, riskVars, execVars, brokerVars
<1>2. BeingRead(reading, time, Live, entered)
  BY <1>1 DEF IInv, ReadOK
<1>3. u.at = time /\ Counted(u) = Counted(reading)
  BY <1>2 DEF BeingRead, Counted
<1> HIDE DEF u
<1>4. /\ DOMAIN log' = Streams /\ log'["decisions"] = log["decisions"]
      /\ log'["account"] = log["account"] \o <<u>>
  BY <1>1 DEF IInv, Shapes, Streams
<1>5. Longer(log["account"], u, log'["account"])
  BY <1>4, Extended DEF IInv, Shapes
<1>6. BusShape'
  BY <1>1, <1>4, <1>5 DEF BusShape, Longer, IInv, Shapes
<1>7. Shapes' /\ Live' = Live
  BY <1>1, <1>6, ShapesParts, RiskStays, BrokerStays, ExecStays DEF IInv
<1>8. Evolves
  BY <1>1, <1>7 DEF Evolves, Halts, Grew, IInv, Shapes
<1>9. HeldOK' /\ ReadOK' /\ DecisionsOK' /\ PlacingOK' /\ EntriesOK' /\ Once'
  BY <1>1, <1>4, <1>8, HeldStays, ReadStays, DecisionsStay, PlacingStays, EntriesStay, OnceStays DEF IInv
<1>10. UpdatesOK'
  <2>1. Sees(Counted(u), time - MaxLag, Live, entered)
    <3> SUFFICES ASSUME NEW s \in Live, NEW i \in DOMAIN entered[s], entered[s][i].at < time - MaxLag
                 PROVE  s \in Counted(reading)
      BY <1>3 DEF Sees
    <3>1. entered[s][i].at \in Nat /\ time \in Nat
      BY DEF IInv, Shapes, Live
    <3>2. entered[s][i].at < reading.at
      BY <1>2, <3>1, TradingPathAssumption DEF BeingRead
    <3> QED
      BY <1>2, <3>2 DEF BeingRead, Sees
  <2>2. Stamped(u, time, Live, entered)
    BY <1>3, <2>1 DEF Stamped, IInv, Shapes
  <2>3. \A i \in DOMAIN log["account"] : Stamped(log["account"][i], time, Live, entered)
    BY DEF IInv, UpdatesOK
  <2>4. \A i \in DOMAIN log'["account"] : Stamped(log'["account"][i], time, Live, entered)
    BY <1>5, <2>2, <2>3 DEF Longer
  <2> QED
    BY <1>1, <1>7, <2>4 DEF UpdatesOK
<1> QED
  BY <1>7, <1>9, <1>10 DEF IInv

(* An order that is new at the broker is one of now; its approval is the one that was verified. *)
LEMMA PlaceInv ==
    ASSUME IInv, NEW p \in placing, Place(p)
    PROVE  IInv'
<1> DEFINE q == [p EXCEPT !.sent = TRUE]
           s == p.signal
           e == Entered(p)
<1>1. /\ UNCHANGED <<time, log, cursor, account, gate, orders, reading>>
      /\ ~p.sent /\ placing' = (placing \ {p}) \union {q}
      /\ \/ UNCHANGED <<broker, entered>>
         \/ /\ s \notin Live /\ entered' = [entered EXCEPT ![s] = Append(entered[s], e)]
            /\ broker' = [broker EXCEPT ![s] =
                             [state |-> IF Resting(s) THEN "pending" ELSE "open", lots |-> p.lots]]
  BY DEF Place, busVars, riskVars, brokerVars
<1>2. DOMAIN p = PlacingFields
  BY DEF IInv, Shapes
<1>3. /\ DOMAIN q = PlacingFields /\ q.signal = s /\ q.sent = TRUE
      /\ q.decided = p.decided /\ q.verified = p.verified /\ q.basis = p.basis
  BY <1>2 DEF PlacingFields
<1>4. e.at = time /\ e.decided = p.decided /\ e.verified = p.verified /\ e.basis = p.basis
  BY DEF Entered
<1>5. time \in Nat /\ Authorised(p, time, gate.halted, Live, entered)
  BY DEF IInv, Shapes, PlacingOK
<1> HIDE DEF q, e
<1>6. ExecShape'
  BY <1>1, <1>3, ShapesParts DEF ExecShape, IInv
(* The broker gets an order of this signal for the first time. *)
<1>7. CASE /\ s \in Signals /\ s \notin Live /\ entered' = [entered EXCEPT ![s] = Append(entered[s], e)]
           /\ broker' = [broker EXCEPT ![s] =
                            [state |-> IF Resting(s) THEN "pending" ELSE "open", lots |-> p.lots]]
  <2>1. entered[s] = <<>>
    BY <1>1, <1>7 DEF IInv, Once
  <2>2. /\ entered' = [u \in Signals |-> entered'[u]] /\ entered'[s] = <<e>>
        /\ \A u \in Signals : u # s => entered'[u] = entered[u]
    <3>1. entered = [u \in Signals |-> entered[u]]
      BY DEF IInv, Shapes
    <3>2. entered' = [u \in Signals |-> IF u = s THEN Append(entered[s], e) ELSE entered[u]]
      BY <1>7, <3>1
    <3>3. Append(entered[s], e) = <<e>>
      BY <2>1
    <3> QED
      BY <1>7, <3>2, <3>3
  <2>3. Longer(<<>>, e, <<>> \o <<e>>)
    <3>1. IsSeq(<<>>)
      BY EmptyIsSeq
    <3> QED
      BY <3>1, Extended
  <2>4. Longer(<<>>, e, entered'[s])
    BY <2>2, <2>3
  <2>5. DOMAIN entered'[s] = {1} /\ entered'[s][1] = e /\ IsSeq(entered'[s]) /\ Len(entered'[s]) = 1
    BY <2>4 DEF Longer
  <2>6. BrokerShape'
    <3>1. BrokerShape
      BY ShapesParts DEF IInv
    <3>2. /\ broker' = [u \in Signals |-> broker'[u]]
          /\ \A u \in Signals : u # s => broker'[u] = broker[u]
      BY <1>7, <3>1 DEF BrokerShape
    <3>3. DOMAIN broker'[s] = {"state", "lots"} /\ broker'[s].state \in {"pending", "open", "closed", "cancelled"}
      BY <1>7, <3>1 DEF BrokerShape
    <3>4. \A u \in Signals : IsSeq(entered'[u])
      BY <2>2, <2>5, <3>1 DEF BrokerShape
    <3>5. \A u \in Signals : \A i \in DOMAIN entered'[u] : entered'[u][i].at \in Nat
      BY <2>2, <2>5, <3>1, <1>4, <1>5 DEF BrokerShape
    <3> QED
      BY <2>2, <3>1, <3>2, <3>3, <3>4, <3>5 DEF BrokerShape
  <2>7. Shapes'
    BY <1>1, <1>6, <2>6, ShapesParts, RiskStays, BusStays DEF IInv
  <2>8. Evolves
    <3>1. Grew(Live, Live', entered, entered', time)
      <4> SUFFICES ASSUME NEW u \in Live', NEW i \in DOMAIN entered'[u]
                   PROVE  \/ u \in Live /\ i \in DOMAIN entered[u] /\ entered'[u][i] = entered[u][i]
                          \/ entered'[u][i].at = time
        BY DEF Grew
      <4>1. u \in Signals
        BY DEF Live
      <4>2. CASE u = s
        BY <4>2, <2>5, <1>4
      <4>3. CASE u # s
        <5>1. u \in Live
          BY <4>1, <4>3, <1>7 DEF Live, IInv, Shapes
        <5> QED
          BY <4>1, <4>3, <5>1, <2>2
      <4> QED
        BY <4>2, <4>3
    <3> QED
      BY <1>1, <1>5, <3>1 DEF Evolves, Halts
  <2>9. UpdatesOK' /\ HeldOK' /\ ReadOK' /\ DecisionsOK'
    <3>1. reading' = NoAccount \/ (reading' = reading /\ time' <= reading.at + MaxLag)
      BY <1>1 DEF IInv, ReadOK, BeingRead
    <3> QED
      BY <1>1, <2>8, <3>1, UpdatesStay, HeldStays, ReadStays, DecisionsStay DEF IInv
  <2>10. Authorised(p, time', gate'.halted, Live', entered')
    BY <1>5, <2>8, PlacedStays DEF Evolves
  <2>11. PlacingOK'
    <3>1. \A r \in placing : Authorised(r, time', gate'.halted, Live', entered')
      BY <2>8, PlacedStays DEF Evolves, IInv, PlacingOK
    <3>2. Authorised(q, time', gate'.halted, Live', entered')
      BY <1>3, <2>10 DEF Authorised
    <3> QED
      BY <1>1, <3>1, <3>2 DEF PlacingOK
  <2>12. EntriesOK'
    <3>1. \A u \in Signals : \A i \in DOMAIN entered[u] : Authorised(entered[u][i], time', gate'.halted, Live', entered')
      BY <2>8, PlacedStays DEF Evolves, IInv, EntriesOK
    <3>2. Authorised(e, time', gate'.halted, Live', entered')
      BY <1>4, <2>10 DEF Authorised
    <3>3. \A u \in Signals : \A i \in DOMAIN entered'[u] : Authorised(entered'[u][i], time', gate'.halted, Live', entered')
      BY <2>2, <2>5, <3>1, <3>2
    <3> QED
      BY <3>3 DEF EntriesOK
  <2>13. Once'
    <3> SUFFICES ASSUME NEW u \in Signals
                 PROVE  /\ Len(entered'[u]) <= 1
                        /\ orders[u] = None => entered'[u] = <<>> /\ \A r \in placing' : r.signal # u
                        /\ \A r \in placing' : r.signal = u =>
                              /\ ~r.sent => entered'[u] = <<>>
                              /\ \A t \in placing' : t.signal = u => t = r
      BY <1>1 DEF Once
    <3>1. /\ Len(entered[u]) <= 1
          /\ orders[u] = None => entered[u] = <<>> /\ \A r \in placing : r.signal # u
          /\ \A r \in placing : r.signal = u =>
                /\ ~r.sent => entered[u] = <<>>
                /\ \A t \in placing : t.signal = u => t = r
      BY DEF IInv, Once
    <3>2. CASE u = s
      <4>1. orders[u] # None
        BY <3>1, <3>2
      <4>2. \A r \in placing' : r.signal = u => r = q
        BY <1>1, <3>1, <3>2
      <4>3. Len(entered'[u]) <= 1
        <5>1. entered'[u] = entered'[s]
          BY <3>2
        <5>2. Len(entered'[u]) = Len(entered'[s])
          BY <5>1, Zenon
        <5> QED
          BY <2>5, <5>2
      <4>4. \A r, t \in placing' : r.signal = u /\ t.signal = u => t = r
        BY <4>2
      <4>5. \A r \in placing' : r.signal = u => r.sent = TRUE
        BY <1>3, <4>2
      <4> QED
        BY <4>1, <4>3, <4>4, <4>5
    <3>3. CASE u # s
      <4>1. entered'[u] = entered[u]
        BY <2>2, <3>3
      <4>2. \A r \in placing' : r.signal = u => r \in placing
        BY <1>1, <1>3, <3>3
      <4> QED
        BY <3>1, <4>1, <4>2
    <3> QED
      BY <3>2, <3>3
  <2> QED
    BY <2>7, <2>9, <2>11, <2>12, <2>13 DEF IInv
(* The broker has the order already. *)
<1>8. CASE UNCHANGED <<broker, entered>>
  <2>1. Shapes' /\ Live' = Live
    BY <1>1, <1>6, <1>8, ShapesParts, RiskStays, BrokerStays, BusStays DEF IInv
  <2>2. Evolves
    BY <1>1, <1>5, <1>8, <2>1 DEF Evolves, Halts, Grew
  <2>3. UpdatesOK' /\ HeldOK' /\ ReadOK' /\ DecisionsOK' /\ EntriesOK'
    <3>1. reading' = NoAccount \/ (reading' = reading /\ time' <= reading.at + MaxLag)
      BY <1>1 DEF IInv, ReadOK, BeingRead
    <3> QED
      BY <1>1, <1>8, <2>2, <3>1, UpdatesStay, HeldStays, ReadStays, DecisionsStay, EntriesStay DEF IInv
  <2>4. PlacingOK'
    <3>1. \A r \in placing : Authorised(r, time', gate'.halted, Live', entered')
      BY <2>2, PlacedStays DEF Evolves, IInv, PlacingOK
    <3>2. Authorised(q, time', gate'.halted, Live', entered')
      BY <1>3, <3>1 DEF Authorised
    <3> QED
      BY <1>1, <3>1, <3>2 DEF PlacingOK
  <2>5. Once'
    <3>1. \A u \in Signals : (\E r \in placing' : r.signal = u) => \E r \in placing : r.signal = u
      BY <1>1, <1>3
    <3>2. \A u \in Signals : \A r, t \in placing' : r.signal = u /\ t.signal = u => r = t
      <4> SUFFICES ASSUME NEW u \in Signals, NEW r \in placing', NEW t \in placing', r.signal = u, t.signal = u
                   PROVE  r = t
        OBVIOUS
      <4>1. \A x, y \in placing : x.signal = u /\ y.signal = u => x = y
        BY DEF IInv, Once
      <4> QED
        BY <1>1, <1>3, <4>1
    <3>3. \A r \in placing' : ~r.sent => r \in placing
      BY <1>1, <1>3
    <3> QED
      BY <1>1, <1>8, <3>1, <3>2, <3>3 DEF Once, IInv
  <2> QED
    BY <2>1, <2>3, <2>4, <2>5 DEF IInv
(* A signal that is none changes nothing at the broker. *)
<1>9. CASE /\ s \notin Signals /\ entered' = [entered EXCEPT ![s] = Append(entered[s], e)]
           /\ broker' = [broker EXCEPT ![s] =
                            [state |-> IF Resting(s) THEN "pending" ELSE "open", lots |-> p.lots]]
  <2>1. broker = [u \in Signals |-> broker[u]] /\ entered = [u \in Signals |-> entered[u]]
    BY DEF IInv, Shapes
  <2>2. broker' = broker
    BY <1>9, <2>1
  <2>3. entered' = entered
    BY <1>9, <2>1
  <2> QED
    BY <1>8, <2>2, <2>3
<1> QED
  BY <1>1, <1>7, <1>8, <1>9

-----------------------------------------------------------------------------
LEMMA InitInv == Init => IInv
<1> SUFFICES ASSUME Init PROVE IInv
  OBVIOUS
<1>1. /\ time = 0 /\ placing = {} /\ reading = NoAccount
      /\ log = [st \in Streams |-> IF st = "stages" THEN <<"live">> ELSE <<>>]
      /\ cursor = [r \in Readers |-> IF r[2] = "stages" THEN 1 ELSE 0]
      /\ account = [v \in {"risk", "allocator"} |-> NoAccount]
      /\ gate = [halted |-> Never, seq |-> 0]
      /\ orders = [s \in Signals |-> None]
      /\ broker = [s \in Signals |-> Nothing]
      /\ entered = [s \in Signals |-> <<>>]
  BY DEF Init
<1>2. DOMAIN log = Streams /\ log["account"] = <<>> /\ log["decisions"] = <<>>
  BY <1>1 DEF Streams
<1>3. BusShape
  <2>1. IsSeq(log["account"]) /\ IsSeq(log["decisions"])
    BY <1>2, EmptyIsSeq
  <2>2. DOMAIN cursor = Readers /\ \A r \in Tracked : cursor[r] \in Nat
    BY <1>1, TrackedAreReaders
  <2> QED
    BY <1>2, <2>1, <2>2 DEF BusShape
<1>4. RiskShape
  BY <1>1, TradingPathAssumption DEF RiskShape, Never
<1>5. \A s \in Signals : entered[s] = <<>> /\ broker[s] = Nothing
  BY <1>1
<1>6. BrokerShape
  <2>1. \A s \in Signals : IsSeq(entered[s])
    BY <1>5, EmptyIsSeq
  <2>2. entered = [s \in Signals |-> entered[s]] /\ broker = [s \in Signals |-> broker[s]]
    BY <1>1
  <2> QED
    BY <1>5, <2>1, <2>2 DEF BrokerShape
<1>7. ExecShape
  BY <1>1 DEF ExecShape, OrderStates
<1>8. Shapes
  BY <1>3, <1>4, <1>6, <1>7, ShapesParts
<1>9. Once
  BY <1>1, <1>5 DEF Once
<1>10. UpdatesOK /\ DecisionsOK /\ PlacingOK /\ EntriesOK
  BY <1>1, <1>2, <1>5 DEF UpdatesOK, DecisionsOK, PlacingOK, EntriesOK
<1>11. HeldOK /\ ReadOK
  BY <1>1 DEF HeldOK, ReadOK
<1> QED
  BY <1>8, <1>9, <1>10, <1>11 DEF IInv

LEMMA StutterInv == IInv /\ UNCHANGED vars => IInv'
<1> SUFFICES ASSUME IInv, UNCHANGED vars PROVE IInv'
  OBVIOUS
<1>1. UNCHANGED <<time, log, cursor, account, gate, placing, orders, broker, entered, reading>>
  BY DEF vars, busVars, riskVars, execVars, brokerVars
<1>2. Shapes'
  BY <1>1, ShapesParts, RiskStays, BrokerStays, ExecStays, BusStays DEF IInv
<1>3. Calm
  BY <1>1 DEF Calm, Halts, Live
<1> QED
  BY <1>2, <1>3, CalmInv

LEMMA StepInv == IInv /\ [Next]_vars => IInv'
<1> SUFFICES ASSUME IInv, Next PROVE IInv'
  BY StutterInv
<1>1. CASE PumpMoves \/ MinuteMoves
  BY <1>1, SchedulerCalm, CalmInv
<1>2. CASE Engine
  <2>1. "engine" \in Viewers
    BY DEF Viewers
  <2> QED
    BY <1>2, <2>1, ViewCalm, EmitCalm, CalmInv DEF Engine
<1>3. CASE Allocator
  <2>1. "allocator" \in Viewers
    BY DEF Viewers
  <2> QED
    BY <1>3, <2>1, ViewCalm, AllocatorCalm, SignalCalm, CalmInv DEF Allocator
<1>4. CASE Risk
  <2>1. "risk" \in Viewers
    BY DEF Viewers
  <2> QED
    BY <1>4, <2>1, ViewCalm, RiskAccountCalm, OnIntentInv, CalmInv DEF Risk
<1>5. CASE Execution
  <2>1. CASE OnHalt \/ OnControl \/ ExecutionOnIntent
    BY <2>1, HaltCalm, ControlCalm, SizeCalm, CalmInv
  <2>2. CASE OnDecision \/ Cycle \/ PublishAccount
    BY <2>2, OnDecisionInv, CycleInv, PublishAccountInv
  <2>3. ASSUME NEW p \in placing, Place(p) \/ Acked(p) PROVE IInv'
    BY <2>3, PlaceInv, AckedCalm, CalmInv
  <2> QED
    BY <1>5, <2>1, <2>2, <2>3 DEF Execution
<1>6. CASE Lifecycle
  BY <1>6, LifecycleCalm, CalmInv DEF Lifecycle
<1>7. CASE Broker
  BY <1>7, MarketCalm, CalmInv DEF Broker
<1>8. CASE Tick
  BY <1>8, TickInv
<1>9. CASE Restarts
  BY <1>9, RestartCalm, RestartAllCalm, CalmInv DEF Restarts
<1> QED
  BY <1>1, <1>2, <1>3, <1>4, <1>5, <1>6, <1>7, <1>8, <1>9 DEF Next

LEMMA Invariance == Spec => []IInv
  BY InitInv, StepInv, PTL DEF Spec

-----------------------------------------------------------------------------
(* Whatever the streams' delays and whoever restarts, nothing enters on an approval from after a halt
   (_on_intent refuses), and nothing on one from before it once the approval's time to live has passed
   (DecisionVerifier.verify). *)
THEOREM NothingEntersHalted == Spec => []HaltStopsEntries
<1>1. IInv => HaltStopsEntries
  <2> SUFFICES ASSUME IInv, gate.halted # Never, NEW s \in Signals, NEW i \in DOMAIN entered[s]
               PROVE  /\ entered[s][i].decided <= gate.halted
                      /\ entered[s][i].verified <= gate.halted + DecisionTtl
    BY DEF HaltStopsEntries
  <2>1. Authorised(entered[s][i], time, gate.halted, Live, entered)
    BY DEF IInv, EntriesOK
  <2>2. gate.halted \in Nat /\ DecisionTtl \in Nat
    BY TradingPathAssumption DEF IInv, Shapes
  <2> QED
    BY <2>1, <2>2 DEF Authorised, Approval
<1> QED
  BY <1>1, Invariance, PTL

(* An approval counts every position still at the broker that was there longer than an account update
   may be old (risk/service.py's max_account_age) and take to be read. *)
THEOREM OnlyTheYoungestUnseen == Spec => []BlindSpotBounded
<1>1. IInv => BlindSpotBounded
  <2> SUFFICES ASSUME IInv, NEW p \in Live, NEW q \in Signals,
                      NEW i \in DOMAIN entered[p], NEW j \in DOMAIN entered[q],
                      entered[q][j].decided > entered[p][i].at + MaxAccountAge + MaxLag
               PROVE  p \in entered[q][j].basis
    BY DEF BlindSpotBounded
  <2>1. Authorised(entered[q][j], time, gate.halted, Live, entered)
    BY DEF IInv, EntriesOK
  <2>2. p \in Signals /\ entered[p][i].at \in Nat
    BY DEF IInv, Shapes, Live
  <2>3. entered[p][i].at < entered[q][j].decided - MaxAccountAge - MaxLag
    BY <2>1, <2>2, TradingPathAssumption DEF Authorised, Approval
  <2> QED
    BY <2>1, <2>3 DEF Authorised, Approval, Sees
<1> QED
  BY <1>1, Invariance, PTL

(* However often its signal, intent or decision is delivered, and whoever restarts, the broker gets one
   order of a signal at most (OrderManager.execute asks the journal, and journals before it sends). *)
OneOrder == \A s \in Signals : Len(entered[s]) <= 1
THEOREM OneOrderOfASignal == Spec => []OneOrder
<1>1. IInv => OneOrder
  BY DEF IInv, Once, OneOrder
<1> QED
  BY <1>1, Invariance, PTL

-----------------------------------------------------------------------------
(* Numbers have least elements; sums over finite sets of them are numbers. *)
LEMMA Below == \A x, y \in Nat : x < y => <<x, y>> \in OpToRel(<, Nat)
  BY Zenon DEF OpToRel

LEMMA Least ==
    ASSUME NEW T \in SUBSET Nat, T # {}
    PROVE  \E n \in T : \A m \in T : n <= m
<1>1. PICK n \in T : \A m \in T : ~ (<<m, n>> \in OpToRel(<, Nat))
  BY Zenon, NatLessThanWellFounded, WFMin
<1>2. ASSUME NEW m \in T PROVE n <= m
  <2>1. ~(m < n)
    BY Zenon, <1>1, Below
  <2>2. n \in Nat /\ m \in Nat
    BY Zenon
  <2> QED
    BY <2>1, <2>2
<1> QED
  BY <1>2, Zenon

(* A sum over the subsets of S as the folds compute it: the element picked, and the rest. *)
Pick(s) == CHOOSE x \in s : TRUE
Adds(f, h, s) == f[s] = IF s = {} THEN 0 ELSE h[Pick(s)] + f[s \ {Pick(s)}]

LEMMA Picked ==
    ASSUME NEW S, IsFiniteSet(S), NEW s \in SUBSET S
    PROVE  /\ Cardinality(s) \in Nat /\ Cardinality(s) <= Cardinality(S) /\ Cardinality(S) \in Nat
           /\ s = {} <=> Cardinality(s) = 0
           /\ s # {} => /\ Pick(s) \in s /\ s \ {Pick(s)} \in SUBSET S
                        /\ Cardinality(s \ {Pick(s)}) = Cardinality(s) - 1
<1>1. IsFiniteSet(s) /\ Cardinality(s) <= Cardinality(S)
  BY FS_Subset
<1>2. Cardinality(s) \in Nat /\ Cardinality(S) \in Nat
  BY <1>1, FS_CardinalityType
<1>3. s = {} <=> Cardinality(s) = 0
  BY <1>1, FS_EmptySet
<1>4. s # {} => Pick(s) \in s
  BY DEF Pick
<1>5. \A x \in s : Cardinality(s \ {x}) = Cardinality(s) - 1
  BY <1>1, FS_RemoveElement
<1> QED
  BY <1>1, <1>2, <1>3, <1>4, <1>5

Upto(h, S, n) == \E f \in [SUBSET S -> Int] : \A s \in SUBSET S : Cardinality(s) <= n => Adds(f, h, s)

LEMMA UptoNext ==
    ASSUME NEW S, IsFiniteSet(S), NEW h \in [S -> Int], NEW n \in Nat, Upto(h, S, n)
    PROVE  Upto(h, S, n + 1)
<1>1. PICK f \in [SUBSET S -> Int] : \A s \in SUBSET S : Cardinality(s) <= n => Adds(f, h, s)
  BY DEF Upto
<1> DEFINE g == [s \in SUBSET S |-> IF Cardinality(s) = n + 1 THEN h[Pick(s)] + f[s \ {Pick(s)}] ELSE f[s]]
<1>2. ASSUME NEW s \in SUBSET S PROVE g[s] \in Int
  <2>1. CASE Cardinality(s) = n + 1
    <3>1. s # {} /\ Pick(s) \in S /\ s \ {Pick(s)} \in SUBSET S
      BY <2>1, Picked
    <3> QED
      BY <2>1, <3>1
  <2>2. CASE Cardinality(s) # n + 1
    BY <2>2
  <2> QED
    BY <2>1, <2>2
<1>3. g \in [SUBSET S -> Int]
  BY <1>2
<1>4. ASSUME NEW s \in SUBSET S, Cardinality(s) <= n + 1 PROVE Adds(g, h, s)
  <2>1. CASE Cardinality(s) = n + 1
    <3>1. s # {} /\ s \ {Pick(s)} \in SUBSET S /\ Cardinality(s \ {Pick(s)}) = n
      BY <2>1, Picked
    <3>2. g[s \ {Pick(s)}] = f[s \ {Pick(s)}] /\ g[s] = h[Pick(s)] + f[s \ {Pick(s)}]
      BY <2>1, <3>1
    <3> QED
      BY <3>1, <3>2 DEF Adds
  <2>2. CASE Cardinality(s) <= n
    <3>0. Cardinality(s) \in Nat
      BY Picked
    <3>1. Adds(f, h, s) /\ g[s] = f[s]
      BY <1>1, <2>2, <3>0
    <3>2. CASE s = {}
      BY <3>1, <3>2 DEF Adds
    <3>3. CASE s # {}
      <4>1. s \ {Pick(s)} \in SUBSET S /\ Cardinality(s \ {Pick(s)}) = Cardinality(s) - 1
        BY <3>3, Picked
      <4>2. Cardinality(s \ {Pick(s)}) # n + 1
        BY <2>2, <3>0, <4>1
      <4>3. g[s \ {Pick(s)}] = f[s \ {Pick(s)}]
        BY <4>1, <4>2
      <4> QED
        BY <3>1, <3>3, <4>3 DEF Adds
    <3> QED
      BY <3>2, <3>3
  <2>3. Cardinality(s) \in Nat
    BY Picked
  <2> QED
    BY <1>4, <2>1, <2>2, <2>3
<1> HIDE DEF g
<1> QED
  BY <1>3, <1>4 DEF Upto

LEMMA UptoAll ==
    ASSUME NEW S, IsFiniteSet(S), NEW h \in [S -> Int]
    PROVE  \A n \in Nat : Upto(h, S, n)
<1> DEFINE Bad == {n \in Nat : ~Upto(h, S, n)}
<1>1. SUFFICES ASSUME Bad # {} PROVE FALSE
  OBVIOUS
<1>2. PICK n \in Bad : \A m \in Bad : n <= m
  BY <1>1, Least
<1>3. CASE n = 0
  <2> DEFINE f == [s \in SUBSET S |-> 0]
  <2>1. f \in [SUBSET S -> Int] /\ \A s \in SUBSET S : Cardinality(s) <= 0 => Adds(f, h, s)
    <3>1. \A s \in SUBSET S : Cardinality(s) \in Nat /\ (s = {} <=> Cardinality(s) = 0)
      BY Picked
    <3> QED
      BY <3>1 DEF Adds
  <2> HIDE DEF f
  <2> QED
    BY <1>3, <2>1 DEF Upto
<1>4. CASE n # 0
  <2>1. n - 1 \in Nat /\ n - 1 \notin Bad /\ (n - 1) + 1 = n
    BY <1>2, <1>4
  <2>2. Upto(h, S, n - 1)
    BY <2>1
  <2> QED
    BY <2>1, <2>2, UptoNext
<1> QED
  BY <1>3, <1>4

Tally(f, h, S) == [s \in SUBSET S |-> IF s = {} THEN 0 ELSE h[Pick(s)] + f[s \ {Pick(s)}]]

LEMMA SumExists ==
    ASSUME NEW S, IsFiniteSet(S), NEW h \in [S -> Int]
    PROVE  \E f : f = Tally(f, h, S)
<1>1. Cardinality(S) \in Nat /\ \A s \in SUBSET S : Cardinality(s) <= Cardinality(S)
  BY Picked
<1>0. Upto(h, S, Cardinality(S))
  BY <1>1, UptoAll
<1>2. PICK f \in [SUBSET S -> Int] : \A s \in SUBSET S : Adds(f, h, s)
  BY <1>0, <1>1 DEF Upto
<1>3. f = Tally(f, h, S)
  BY <1>2 DEF Adds, Tally
<1> QED
  BY <1>3

NotInt(f, S, n) == \E s \in SUBSET S : Cardinality(s) = n /\ f[s] \notin Int

LEMMA SumIsInt ==
    ASSUME NEW S, IsFiniteSet(S), NEW h \in [S -> Int], NEW f, \A s \in SUBSET S : Adds(f, h, s)
    PROVE  \A s \in SUBSET S : f[s] \in Int
<1> DEFINE Bad == {n \in Nat : NotInt(f, S, n)}
<1>0. \A s \in SUBSET S : Cardinality(s) \in Nat
  BY Picked
<1>1. ASSUME Bad # {} PROVE FALSE
  <2>1. PICK n \in Bad : \A m \in Bad : n <= m
    BY <1>1, Least
  <2> HIDE DEF Bad
  <2>0. n \in Nat /\ NotInt(f, S, n) /\ (n - 1 \in Nat => ~NotInt(f, S, n - 1))
    BY <2>1 DEF Bad
  <2>2. PICK s \in SUBSET S : Cardinality(s) = n /\ f[s] \notin Int
    BY <2>0 DEF NotInt
  <2>3. Adds(f, h, s)
    BY <2>2
  <2>4. s # {}
    BY <2>2, <2>3 DEF Adds
  <2>5. /\ Pick(s) \in s /\ s \ {Pick(s)} \in SUBSET S
        /\ Cardinality(s \ {Pick(s)}) = Cardinality(s) - 1
    BY <2>4, Picked
  <2>6. Cardinality(s \ {Pick(s)}) \in Nat
    BY <1>0, <2>5
  <2>7. f[s \ {Pick(s)}] \in Int
    BY <2>0, <2>2, <2>5, <2>6 DEF NotInt
  <2>8. h[Pick(s)] \in Int
    BY <2>5
  <2> QED
    BY <2>2, <2>3, <2>4, <2>7, <2>8 DEF Adds
<1> QED
  BY <1>0, <1>1 DEF NotInt


(* The sum of a function with values that are integers is one. *)
LEMMA SumInt ==
    ASSUME NEW S, IsFiniteSet(S), NEW h \in [S -> Int]
    PROVE  SumFunction(h) \in Int
<1> DEFINE F(f) == [s \in SUBSET S |-> IF s = {} THEN 0 ELSE h[Pick(s)] + f[s \ {Pick(s)}]]
           g == CHOOSE f : f = F(f)
<1>1. PICK f : f = Tally(f, h, S)
  BY SumExists
<1>2. f = F(f)
  BY <1>1 DEF Tally
<1>3. SumFunction(h) = g[S]
  <2>1. DOMAIN h = S
    OBVIOUS
  <2> QED
    BY <2>1 DEF SumFunction, SumFunctionOnSet, FoldFunctionOnSet, MapThenFoldSet, Pick
<1>4. g = F(g)
  <2> HIDE DEF F
  <2> QED
    BY <1>2
<1> HIDE DEF g
<1>5. \A s \in SUBSET S : Adds(g, h, s)
  BY <1>4 DEF Adds
<1> QED
  BY <1>3, <1>5, SumIsInt

-----------------------------------------------------------------------------
(* The gate's answer. *)
HasLeast(S) == S \subseteq Int /\ \E x \in S : \A y \in S : x <= y

LEMMA LeastOfOne == ASSUME NEW x \in Int PROVE HasLeast({x})
  BY DEF HasLeast

LEMMA LeastOfMore ==
    ASSUME NEW S, HasLeast(S), NEW x \in Int
    PROVE  HasLeast(S \union {x})
<1>1. PICK y \in S : \A z \in S : y <= z
  BY DEF HasLeast
<1>2. S \subseteq Int /\ y \in Int
  BY DEF HasLeast
<1>3. CASE x <= y
  <2>1. \A z \in S \union {x} : x <= z
    BY <1>1, <1>2, <1>3
  <2> QED
    BY <1>2, <2>1 DEF HasLeast
<1>4. CASE y <= x
  <2>1. \A z \in S \union {x} : y <= z
    BY <1>1, <1>2, <1>4
  <2> QED
    BY <1>2, <2>1 DEF HasLeast
<1> QED
  BY <1>2, <1>3, <1>4

LEMMA MinIs ==
    ASSUME NEW S, HasLeast(S)
    PROVE  Min(S) \in S /\ \A y \in S : Min(S) <= y
  BY DEF HasLeast, Min

(* A signal, an exposure and the account as the gate counts with them. *)
Priced(signal) ==
    /\ signal.side \in {"buy", "sell"} /\ signal.price \in Nat \ {0} /\ signal.stop \in Nat \ {0}

Open(exposures) ==
    /\ IsFiniteSet(exposures)
    /\ \A e \in exposures : e.lots \in Nat /\ e.entry \in Nat /\ e.stop \in Nat

Counts(snap) ==
    /\ snap.equity \in Nat /\ snap.freeMargin \in Nat /\ snap.marginPerLot \in Nat
    /\ snap.bid \in Nat \ {0} /\ snap.ask \in Nat \ {0}
    /\ Open(snap.exposures)

LEMMA OpenPart == ASSUME NEW E, Open(E), NEW F \in SUBSET E PROVE Open(F)
  BY FS_Subset DEF Open

LEMMA RiskInt ==
    ASSUME NEW E, Open(E), NEW equity \in Nat
    PROVE  OpenRisk(E, equity) \in Int
<1> DEFINE h == [e \in E |-> RiskMoney(e, equity)]
<1>1. ASSUME NEW e \in E PROVE RiskMoney(e, equity) \in Int
  <2>1. e.lots \in Nat /\ e.entry \in Nat /\ e.stop \in Nat /\ RiskPerTrade \in Nat
    BY RiskGateAssumption DEF Open
  <2>2. e.lots * e.entry * 20 \in Int /\ equity * RiskPerTrade \in Int
    BY <2>1
  <2>3. \A d \in Int : 1000 * e.lots * d \in Int
    BY <2>1
  <2>4. Larger(e.lots * e.entry * 20, equity * RiskPerTrade) \in Int
    BY <2>2 DEF Larger
  <2>5. Larger(0, IF e.side = "buy" THEN e.entry - e.stop ELSE e.stop - e.entry) \in Int
    BY <2>1 DEF Larger
  <2> QED
    BY <2>3, <2>4, <2>5 DEF RiskMoney
<1>2. h \in [E -> Int]
  BY <1>1
<1> QED
  BY <1>2, SumInt DEF OpenRisk, Open

LEMMA NotionalInt ==
    ASSUME NEW E, Open(E)
    PROVE  SumFunction([e \in E |-> e.lots * e.entry]) \in Int /\ SumFunction([e \in E |-> e.lots]) \in Int
<1>1. [e \in E |-> e.lots * e.entry] \in [E -> Int]
  BY DEF Open
<1>2. [e \in E |-> e.lots] \in [E -> Int]
  BY DEF Open
<1> QED
  BY <1>1, <1>2, SumInt DEF Open

(* What is not refused can be sized. *)
LEMMA Sized ==
    ASSUME NEW intent, NEW snap, NEW halted,
           Priced(intent.signal), Counts(snap), ~Refused(intent, snap, halted)
    PROVE  /\ Entry(intent.signal, snap) \in Nat \ {0}
           /\ PerLotRisk(intent.signal, snap) \in Nat \ {0}
           /\ snap.marginPerLot > 0 /\ intent.signal.symbol \in Symbols
<1> DEFINE signal == intent.signal
<1>1. Entry(signal, snap) \in Nat \ {0}
  BY DEF Entry, Priced, Counts
<1>2. ~WrongStop(signal, snap) /\ snap.marginPerLot > 0 /\ signal.symbol \in Symbols
  BY DEF Refused, Counts
<1>3. Entry(signal, snap) # signal.stop
  BY <1>1, <1>2 DEF WrongStop, Priced
<1>4. PerLotRisk(signal, snap) \in Nat \ {0}
  BY <1>1, <1>3 DEF PerLotRisk, Distance, Priced
<1> QED
  BY <1>1, <1>2, <1>4

LEMMA RoomHasLeast ==
    ASSUME NEW intent, NEW snap, NEW halted, intent.risk \in Nat, intent.lots \in Nat,
           Priced(intent.signal), Counts(snap), ~Refused(intent, snap, halted)
    PROVE  HasLeast(Room(intent, snap) \union {intent.lots}) /\ MaxLot \in Room(intent, snap)
<1> DEFINE signal == intent.signal
           risk == PerLotRisk(signal, snap)
           perLot == 1000 * risk
           own == {e \in snap.exposures : e.strategy = signal.strategy /\ ~e.external}
           onSymbol == {e \in snap.exposures : e.symbol = signal.symbol}
           notional == SumFunction([e \in snap.exposures |-> e.lots * e.entry])
           entry == Entry(signal, snap)
           a1 == OwnLots(intent, snap)
           a2 == (snap.equity * RiskPerTrade) \div perLot
           a3 == (snap.equity * RiskPerStrategy - OpenRisk(own, snap.equity)) \div perLot
           a4 == (snap.equity * RiskTotal - OpenRisk(snap.exposures, snap.equity)) \div perLot
           a5 == (snap.equity * Leverage - notional) \div entry
           a6 == SymbolLots[signal.symbol] - SumFunction([e \in onSymbol |-> e.lots])
           a8 == snap.freeMargin \div ((MarginRatio + 1) * snap.marginPerLot)
<1>1. /\ snap.equity \in Nat /\ snap.freeMargin \in Nat /\ snap.marginPerLot \in Nat /\ snap.marginPerLot > 0
      /\ entry \in Nat \ {0} /\ risk \in Nat \ {0} /\ signal.symbol \in Symbols
  BY Sized DEF Counts
<1>2. Open(snap.exposures) /\ Open(own) /\ Open(onSymbol)
  BY OpenPart DEF Counts
<1>3. /\ OpenRisk(own, snap.equity) \in Int /\ OpenRisk(snap.exposures, snap.equity) \in Int
      /\ notional \in Int /\ SumFunction([e \in onSymbol |-> e.lots]) \in Int
  BY <1>1, <1>2, RiskInt, NotionalInt
<1> HIDE DEF own, onSymbol, notional, risk, entry
<1>4. perLot \in Nat \ {0}
  BY <1>1
<1>5. \A x \in Int : x \div perLot \in Int /\ x \div entry \in Int
  BY <1>1, <1>4
<1>6. (MarginRatio + 1) * snap.marginPerLot \in Nat \ {0}
  <2>1. \A x, y \in Nat \ {0} : x * y \in Nat \ {0}
    OBVIOUS
  <2>2. MarginRatio + 1 \in Nat \ {0} /\ snap.marginPerLot \in Nat \ {0}
    BY <1>1, RiskGateAssumption
  <2> QED
    BY <2>1, <2>2
<1>7. a1 \in Int
  <2>1. OwnFraction(intent, snap) \in Nat
    <3>1. StageLimit(snap.stage) \in Nat
      BY RiskGateAssumption DEF StageLimit
    <3>2. Smaller(intent.risk, RiskPerTrade) \in Nat
      BY RiskGateAssumption DEF Smaller
    <3> QED
      BY <3>1, <3>2 DEF OwnFraction, Smaller
  <2>2. snap.equity * OwnFraction(intent, snap) \in Int
    BY <1>1, <2>1
  <2>3. a1 = (snap.equity * OwnFraction(intent, snap)) \div perLot
    BY DEF OwnLots, risk
  <2> HIDE DEF a1, perLot
  <2> QED
    BY <1>5, <2>2, <2>3
<1>8. /\ snap.equity * RiskPerTrade \in Int
      /\ snap.equity * RiskPerStrategy - OpenRisk(own, snap.equity) \in Int
      /\ snap.equity * RiskTotal - OpenRisk(snap.exposures, snap.equity) \in Int
      /\ snap.equity * Leverage - notional \in Int
  BY <1>1, <1>3, RiskGateAssumption
<1>9. a2 \in Int /\ a3 \in Int /\ a4 \in Int /\ a5 \in Int
  <2> HIDE DEF perLot
  <2> QED
    BY <1>5, <1>8
<1>10. a6 \in Int
  <2>1. SymbolLots[signal.symbol] \in Nat
    BY <1>1, RiskGateAssumption
  <2> QED
    BY <1>3, <2>1
<1>11. a8 \in Int
  <2> DEFINE d == (MarginRatio + 1) * snap.marginPerLot
  <2>1. \A x \in Nat, y \in Nat \ {0} : x \div y \in Int
    OBVIOUS
  <2>2. d \in Nat \ {0} /\ snap.freeMargin \in Nat
    BY <1>1, <1>6
  <2> HIDE DEF d
  <2>3. snap.freeMargin \div d \in Int
    BY <2>1, <2>2
  <2> QED
    BY <2>3 DEF d
<1> DEFINE small == IF snap.stage = "demo_only" THEN {MinLot} ELSE {}
<1>12. Room(intent, snap) = {a1, a2, a3, a4, a5, a6, MaxLot, a8} \union small
  BY DEF Room, own, onSymbol, notional, entry, risk
<1> HIDE DEF a1, a2, a3, a4, a5, a6, a8, signal, perLot
<1>13. MaxLot \in Int /\ MinLot \in Int
  BY RiskGateAssumption
<1>14. HasLeast({a1, a2, a3, a4, a5, a6, MaxLot, a8})
  <2>1. HasLeast({a1} \union {a2} \union {a3})
    BY <1>7, <1>9, LeastOfOne, LeastOfMore
  <2>2. HasLeast({a1} \union {a2} \union {a3} \union {a4} \union {a5})
    BY <2>1, <1>9, LeastOfMore
  <2>3. HasLeast({a1} \union {a2} \union {a3} \union {a4} \union {a5} \union {a6} \union {MaxLot})
    BY <2>2, <1>10, <1>13, LeastOfMore
  <2>4. HasLeast({a1} \union {a2} \union {a3} \union {a4} \union {a5} \union {a6} \union {MaxLot} \union {a8})
    BY <2>3, <1>11, LeastOfMore
  <2>5. {a1, a2, a3, a4, a5, a6, MaxLot, a8}
        = {a1} \union {a2} \union {a3} \union {a4} \union {a5} \union {a6} \union {MaxLot} \union {a8}
    OBVIOUS
  <2> QED
    BY <2>4, <2>5
<1>15. HasLeast(Room(intent, snap))
  <2>1. CASE small = {}
    <3>1. Room(intent, snap) = {a1, a2, a3, a4, a5, a6, MaxLot, a8}
      BY <1>12, <2>1
    <3> QED
      BY <1>14, <3>1
  <2>2. CASE small = {MinLot}
    BY <1>12, <1>13, <1>14, <2>2, LeastOfMore
  <2> QED
    BY <2>1, <2>2
<1>16. intent.lots \in Int
  OBVIOUS
<1> QED
  BY <1>12, <1>15, <1>16, LeastOfMore

(* It approves no more than was proposed, and no more than an order may have. *)
LEMMA ApprovedLots ==
    ASSUME NEW intent, NEW snap, NEW halted, intent.risk \in Nat, intent.lots \in Nat,
           Priced(intent.signal), Counts(snap)
    PROVE  /\ Approved(intent, snap, halted) \in Int
           /\ Approved(intent, snap, halted) > 0 =>
                 /\ Approved(intent, snap, halted) \in 1..MaxLot
                 /\ Approved(intent, snap, halted) <= intent.lots
<1>1. CASE Refused(intent, snap, halted)
  BY <1>1 DEF Approved
<1>2. CASE ~Refused(intent, snap, halted)
  <2> DEFINE S == Room(intent, snap) \union {intent.lots}
             lots == Min(S)
  <2>1. HasLeast(S) /\ MaxLot \in S /\ intent.lots \in S
    BY <1>2, RoomHasLeast
  <2> HIDE DEF S
  <2>2. lots \in Int /\ lots <= MaxLot /\ lots <= intent.lots /\ MaxLot \in Nat
    BY <2>1, MinIs, RiskGateAssumption DEF HasLeast
  <2>3. Approved(intent, snap, halted) \in {0, lots}
    BY <1>2 DEF Approved, S
  <2> HIDE DEF lots
  <2> QED
    BY <2>2, <2>3
<1> QED
  BY <1>1, <1>2

-----------------------------------------------------------------------------
(* What the streams carry. *)
Stage == {"live", "shadow"}
Exposure ==
    [id : Signals, symbol : STRING, side : {"buy", "sell"}, lots : Nat, entry : Nat, stop : Nat,
     strategy : STRING, external : {FALSE}]
Update == [at : 0..Never, equity : Nat, exposures : {E \in SUBSET Exposure : IsFiniteSet(E)}]
Intent == [signal : Signals, lots : 1..MaxLot, risk : Nat]
Decision == [signal : Signals, lots : Int, at : Nat, seq : Nat, basis : SUBSET Signals]

Msg == [stages |-> Stage, account |-> Update, signals |-> Signals, intents |-> Intent,
        decisions |-> Decision, halts |-> Nat, control |-> {"close"}, trades |-> Signals]

(* The streams hold messages of their kinds, and no reader is ahead of its stream. *)
BusOK ==
    /\ DOMAIN log = Streams /\ \A st \in Streams : log[st] \in Seq(Msg[st])
    /\ DOMAIN cursor = Readers /\ \A r \in Readers : cursor[r] \in 0..Len(log[r[2]])

ClockOK ==
    /\ mode \in {"run", "pump"} /\ owner \in BOOLEAN /\ sched \in AtAccount..Len(Rounds)
    /\ time \in 0..MaxTime /\ updates \in 0..MaxUpdates

KeptOK ==
    /\ stage \in Stage /\ view \in [Viewers -> Stage \union {None}]
    /\ account \in [{"risk", "allocator"} -> Update] /\ reading \in Update
    /\ gate \in [halted : 0..Never, seq : Nat] /\ lastSeq \in 0..gate.seq
    /\ intents \in [Signals -> Nat]
    /\ \A s \in Signals : broker[s].lots \in Nat

SizesOK == asked \in [Signals -> SUBSET (1..MaxLot)] /\ signed \in [Signals -> SUBSET (1..MaxLot)]

(* What is on its way is what was asked for, or signed; a signal on its way to the broker is journalled. *)
Backed ==
    /\ \A i \in DOMAIN log["intents"] : log["intents"][i].lots \in asked[log["intents"][i].signal]
    /\ \A i \in DOMAIN log["decisions"] :
          /\ log["decisions"][i].seq <= gate.seq
          /\ log["decisions"][i].lots > 0 => log["decisions"][i].lots \in signed[log["decisions"][i].signal]
    /\ \A p \in placing :
          p.signal \in Signals /\ orders[p.signal] = "sending" /\ p.lots \in signed[p.signal]

PInv == BusOK /\ ClockOK /\ KeptOK /\ SizesOK /\ Backed

-----------------------------------------------------------------------------
(* Which kinds there are. *)
LEMMA Kinds ==
    /\ Msg["stages"] = Stage /\ Msg["account"] = Update /\ Msg["signals"] = Signals
    /\ Msg["intents"] = Intent /\ Msg["decisions"] = Decision /\ Msg["halts"] = Nat
    /\ Msg["control"] = {"close"} /\ Msg["trades"] = Signals
  BY DEF Msg

LEMMA ReadersOfStreams ==
    /\ \A r \in Readers : r[2] \in Streams
    /\ Len(Rounds) = 12 /\ \A i \in 1..12 : Rounds[i] \in Readers
  BY DEF Readers, Rounds, Streams

LEMMA AreReaders ==
    /\ <<"risk", "account">> \in Readers /\ <<"risk", "intents">> \in Readers
    /\ <<"allocator", "account">> \in Readers /\ <<"allocator", "signals">> \in Readers
    /\ <<"execution", "intents">> \in Readers /\ <<"execution", "decisions">> \in Readers
    /\ <<"execution", "halts">> \in Readers /\ <<"execution", "control">> \in Readers
    /\ <<"lifecycle", "trades">> \in Readers
    /\ \A v \in Viewers : <<v, "stages">> \in Readers
<1>1. \A i \in 1..12 : Rounds[i] \in Readers
  BY ReadersOfStreams
<1>2. /\ Rounds[1] = <<"lifecycle", "trades">> /\ Rounds[2] = <<"risk", "stages">>
      /\ Rounds[3] = <<"risk", "account">> /\ Rounds[4] = <<"risk", "intents">>
      /\ Rounds[5] = <<"allocator", "stages">> /\ Rounds[6] = <<"allocator", "account">>
      /\ Rounds[7] = <<"allocator", "signals">> /\ Rounds[8] = <<"execution", "halts">>
      /\ Rounds[9] = <<"execution", "control">> /\ Rounds[10] = <<"execution", "intents">>
      /\ Rounds[11] = <<"execution", "decisions">> /\ Rounds[12] = <<"engine", "stages">>
  BY DEF Rounds
<1> QED
  BY <1>1, <1>2 DEF Viewers

(* The streams grow by messages of their kinds. *)
Grows == DOMAIN log' = Streams /\ \A st \in Streams : log'[st] \in Seq(Msg[st]) /\ Len(log[st]) <= Len(log'[st])

LEMMA Unpublished == ASSUME BusOK, log' = log PROVE Grows
<1>1. \A st \in Streams : Len(log[st]) \in Nat
  BY DEF BusOK
<1> QED
  BY <1>1 DEF BusOK, Grows

LEMMA Joined ==
    ASSUME NEW S, NEW s \in Seq(S), NEW t \in Seq(S)
    PROVE  s \o t \in Seq(S) /\ Len(s) <= Len(s \o t)
<1>1. s \o t \in Seq(S) /\ Len(s \o t) = Len(s) + Len(t) /\ Len(s) \in Nat /\ Len(t) \in Nat
  OBVIOUS
<1> QED
  BY <1>1

(* One stream, or two, grow and the others stay. *)
LEMMA Appends ==
    ASSUME BusOK, NEW st \in Streams, NEW ms \in Seq(Msg[st]), Publish(st, ms)
    PROVE  Grows /\ log'[st] = log[st] \o ms /\ \A u \in Streams : u # st => log'[u] = log[u]
<1>1. log' = [log EXCEPT ![st] = log[st] \o ms] /\ DOMAIN log = Streams
  BY DEF Publish, BusOK
<1>2. log'[st] = log[st] \o ms /\ DOMAIN log' = Streams /\ \A u \in Streams : u # st => log'[u] = log[u]
  BY <1>1
<1>3. log[st] \in Seq(Msg[st])
  BY DEF BusOK
<1>4. log'[st] \in Seq(Msg[st]) /\ Len(log[st]) <= Len(log'[st])
  BY <1>2, <1>3, Joined, Zenon
<1>5. ASSUME NEW u \in Streams PROVE log'[u] \in Seq(Msg[u]) /\ Len(log[u]) <= Len(log'[u])
  <2>1. CASE u = st
    BY <1>4, <2>1
  <2>2. CASE u # st
    <3>1. log[u] \in Seq(Msg[u]) /\ log'[u] = log[u]
      BY <1>2, <2>2 DEF BusOK
    <3>2. Len(log[u]) \in Nat
      BY <3>1
    <3> QED
      BY <3>1, <3>2
  <2> QED
    BY <2>1, <2>2
<1> QED
  BY <1>2, <1>5 DEF Grows

LEMMA Flushes ==
    ASSUME BusOK, Flush
    PROVE  Grows /\ \A u \in Streams : u \notin {"stages", "control"} => log'[u] = log[u]
<1>1. /\ log' = [log EXCEPT !["stages"] = log["stages"] \o <<"shadow">>, !["control"] = log["control"] \o <<"close">>]
      /\ DOMAIN log = Streams
  BY DEF Flush, Publish2, BusOK
<1>2. /\ DOMAIN log' = Streams
      /\ log'["stages"] = log["stages"] \o <<"shadow">> /\ log'["control"] = log["control"] \o <<"close">>
      /\ \A u \in Streams : u \notin {"stages", "control"} => log'[u] = log[u]
  BY <1>1 DEF Streams
<1>3. \A u \in Streams : log[u] \in Seq(Msg[u])
  BY DEF BusOK
<1>4. log["stages"] \in Seq(Stage) /\ log["control"] \in Seq({"close"})
  BY <1>3, Kinds DEF Streams
<1>5. <<"shadow">> \in Seq(Stage) /\ <<"close">> \in Seq({"close"})
  BY DEF Stage
<1>6. /\ log'["stages"] \in Seq(Stage) /\ Len(log["stages"]) <= Len(log'["stages"])
      /\ log'["control"] \in Seq({"close"}) /\ Len(log["control"]) <= Len(log'["control"])
  BY <1>2, <1>4, <1>5, Joined, Zenon
<1>7. ASSUME NEW u \in Streams PROVE log'[u] \in Seq(Msg[u]) /\ Len(log[u]) <= Len(log'[u])
  <2>1. CASE u \in {"stages", "control"}
    BY <1>6, <2>1, Kinds
  <2>2. CASE u \notin {"stages", "control"}
    <3>1. log[u] \in Seq(Msg[u]) /\ log'[u] = log[u]
      BY <1>2, <1>3, <2>2
    <3>2. Len(log[u]) \in Nat
      BY <3>1
    <3> QED
      BY <3>1, <3>2
  <2> QED
    BY <2>1, <2>2
<1> QED
  BY <1>2, <1>7 DEF Grows

LEMMA BusStep ==
    ASSUME BusOK, Grows, cursor' = cursor \/ \E r \in Readers : Delivers(r)
    PROVE  BusOK'
<1>1. ASSUME NEW r \in Readers
      PROVE  /\ cursor[r] \in Nat /\ cursor[r] <= Len(log[r[2]]) /\ Len(log[r[2]]) \in Nat
             /\ Len(log'[r[2]]) \in Nat /\ Len(log[r[2]]) <= Len(log'[r[2]])
  <2>1. r[2] \in Streams
    BY ReadersOfStreams
  <2>2. log[r[2]] \in Seq(Msg[r[2]]) /\ log'[r[2]] \in Seq(Msg[r[2]]) /\ Len(log[r[2]]) <= Len(log'[r[2]])
    BY <2>1 DEF BusOK, Grows
  <2>3. Len(log[r[2]]) \in Nat /\ Len(log'[r[2]]) \in Nat
    BY <2>2
  <2>4. cursor[r] \in 0..Len(log[r[2]])
    BY DEF BusOK
  <2> QED
    BY <2>2, <2>3, <2>4
<1>2. CASE cursor' = cursor
  BY <1>1, <1>2 DEF BusOK, Grows
<1>3. ASSUME NEW r \in Readers, Delivers(r) PROVE BusOK'
  <2>1. cursor' = [cursor EXCEPT ![r] = cursor[r] + 1] /\ cursor[r] < Len(log[r[2]]) /\ DOMAIN cursor = Readers
    BY <1>3 DEF Delivers, Unread, BusOK
  <2>2. DOMAIN cursor' = Readers
    BY <2>1
  <2>3. \A q \in Readers : cursor'[q] \in 0..Len(log'[q[2]])
    BY <1>1, <2>1
  <2> QED
    BY <2>2, <2>3 DEF BusOK, Grows
<1> QED
  BY <1>2, <1>3

(* What is delivered is of the stream's kind, and a message of it. *)
LEMMA IsDelivered ==
    ASSUME BusOK, NEW r \in Readers, Delivers(r)
    PROVE  Message(r) \in Msg[r[2]] /\ \E i \in DOMAIN log[r[2]] : Message(r) = log[r[2]][i]
<1>1. r[2] \in Streams /\ log[r[2]] \in Seq(Msg[r[2]])
  BY ReadersOfStreams DEF BusOK
<1>2. cursor[r] \in Nat /\ cursor[r] < Len(log[r[2]])
  BY DEF BusOK, Delivers, Unread
<1>3. cursor[r] + 1 \in DOMAIN log[r[2]]
  BY <1>1, <1>2
<1> QED
  BY <1>1, <1>3 DEF Message


-----------------------------------------------------------------------------
(* What a step leaves alone stays as it was. *)
LEMMA ClockStays ==
    ASSUME ClockOK, mode' = mode, time' = time, updates' = updates,
           owner' \in BOOLEAN, sched' \in AtAccount..Len(Rounds)
    PROVE  ClockOK'
  BY DEF ClockOK

LEMMA KeptStays ==
    ASSUME KeptOK, stage' = stage, view' = view, account' = account, reading' = reading, gate' = gate,
           lastSeq' = lastSeq, intents' = intents, broker' = broker
    PROVE  KeptOK'
  BY DEF KeptOK

LEMMA SizesStay == ASSUME SizesOK, asked' = asked, signed' = signed PROVE SizesOK'
  BY DEF SizesOK

LEMMA BackedStays ==
    ASSUME Backed, log'["intents"] = log["intents"], log'["decisions"] = log["decisions"],
           asked' = asked, signed' = signed, gate'.seq = gate.seq,
           placing' \subseteq placing, \A p \in placing' : orders'[p.signal] = orders[p.signal]
    PROVE  Backed'
  BY DEF Backed

-----------------------------------------------------------------------------
(* The positions at the broker as publish_account reports them. *)
LEMMA ExposuresAre ==
    ASSUME KeptOK
    PROVE  Exposures \in SUBSET Exposure /\ IsFiniteSet(Exposures)
<1>1. IsFiniteSet(Live) /\ Live \subseteq Signals
  BY TradingPathAssumption, FS_Subset DEF Live
<1> DEFINE e(s) == [id |-> s, symbol |-> SignalOf[s].symbol, side |-> SignalOf[s].side, lots |-> broker[s].lots,
                    entry |-> MarketEntry(s), stop |-> SignalOf[s].stop, strategy |-> SignalOf[s].strategy,
                    external |-> FALSE]
           f == [s \in Live |-> e(s)]
<1>2. ASSUME NEW s \in Live PROVE e(s) \in Exposure
  <2>1. s \in Signals /\ broker[s].lots \in Nat
    BY <1>1 DEF KeptOK
  <2>2. /\ SignalOf[s].symbol \in STRING /\ SignalOf[s].side \in {"buy", "sell"} /\ SignalOf[s].stop \in Nat
        /\ SignalOf[s].strategy \in STRING /\ SignalOf[s].price \in Nat /\ Quote.ask \in Nat /\ Quote.bid \in Nat
    BY <2>1, TradingPathAssumption
  <2>3. MarketEntry(s) \in Nat
    BY <2>2 DEF MarketEntry
  <2> QED
    BY <2>1, <2>2, <2>3 DEF Exposure
<1>3. Exposures = {e(s) : s \in Live}
  BY DEF Exposures
<1> HIDE DEF e
<1>4. Exposures \in SUBSET Exposure
  BY <1>2, <1>3
<1>5. f \in Surjection(Live, Exposures)
  BY <1>3 DEF Surjection
<1> HIDE DEF f
<1>6. IsFiniteSet(Exposures)
  BY <1>1, <1>5, FS_Surjection
<1> QED
  BY <1>4, <1>6

(* Counting a finite set gives a sequence of its elements. *)
LEMMA SetIsSeq ==
    ASSUME NEW S, NEW T \in SUBSET S, IsFiniteSet(S)
    PROVE  SetToSeq(T) \in Seq(S)
<1>1. Cardinality(T) \in Nat /\ ExistsBijection(1..Cardinality(T), T)
  BY FS_Subset, FS_CardinalityType
<1>2. PICK g : g \in [1..Cardinality(T) -> T] /\ IsInjective(g)
  BY <1>1 DEF ExistsBijection, Bijection, Injection
<1>3. SetToSeq(T) \in [1..Cardinality(T) -> T]
  BY <1>2, Zenon DEF SetToSeq
<1>4. SetToSeq(T) \in [1..Cardinality(T) -> S]
  BY <1>3
<1>5. [1..Cardinality(T) -> S] \subseteq Seq(S)
  BY <1>1
<1> QED
  BY <1>4, <1>5

(* Where the pump goes next. *)
LEMMA MinOfNats ==
    ASSUME NEW T \in SUBSET Nat, T # {}
    PROVE  Min(T) \in T /\ \A m \in T : Min(T) <= m
<1>1. \E n \in T : \A m \in T : n <= m
  BY Least
<1> QED
  BY <1>1, Zenon DEF Min

LEMMA PumpTarget ==
    ASSUME ClockOK, PumpMoves
    PROVE  ClockOK'
<1>1. Ready \subseteq 1..12 /\ 1..12 \subseteq Nat /\ Len(Rounds) = 12
  BY DEF Ready, Rounds
<1> DEFINE ahead == {i \in Ready : i > sched}
<1>2. ahead \subseteq Ready
  OBVIOUS
<1>3. ahead # {} => Min(ahead) \in 1..12
  <2> HIDE DEF ahead
  <2> QED
    BY <1>1, <1>2, MinOfNats
<1>4. Ready # {} => Min(Ready) \in 1..12
  BY <1>1, MinOfNats
<1>5. sched' = IF ahead # {} THEN Min(ahead) ELSE IF Ready # {} THEN Min(Ready) ELSE AtRest
  BY DEF PumpMoves
<1>6. sched' \in AtAccount..12
  <2> HIDE DEF ahead
  <2> QED
    BY <1>3, <1>4, <1>5 DEF AtRest, AtAccount
<1>7. /\ owner' = (owner /\ Ready # {})
      /\ mode' = mode /\ time' = time /\ updates' = updates
  BY DEF PumpMoves
<1> QED
  BY <1>1, <1>6, <1>7 DEF ClockOK

LEMMA NoUpdate == NoAccount \in Update
<1>1. Never \in Nat
  BY TradingPathAssumption DEF Never
<1>2. {} \in {E \in SUBSET Exposure : IsFiniteSet(E)}
  BY FS_EmptySet
<1> QED
  BY <1>1, <1>2 DEF NoAccount, Update

LEMMA StepsAre == {AtAccount, AtSignals, AtHourly, AtRest, 1} \subseteq AtAccount..Len(Rounds)
<1>1. Len(Rounds) = 12
  BY ReadersOfStreams
<1> QED
  BY <1>1 DEF AtAccount, AtSignals, AtHourly, AtRest

-----------------------------------------------------------------------------
(* The scheduler, the engine, and the handlers that keep a view or a size. *)
LEMMA SchedulerKeeps ==
    ASSUME PInv, PumpMoves \/ MinuteMoves
    PROVE  PInv'
<1>1. /\ UNCHANGED <<mode, time, log, cursor, stage, view, account, gate, intents, placing, orders, lastSeq, broker>>
      /\ UNCHANGED <<reading, updates, asked, signed>>
  BY DEF PumpMoves, MinuteMoves, busVars, riskVars, execVars, brokerVars, historyVars
<1>2. ClockOK'
  <2>1. CASE PumpMoves
    BY <2>1, PumpTarget DEF PInv
  <2>2. CASE MinuteMoves
    <3>1. owner' = owner /\ sched' \in {AtAccount, AtHourly}
      BY <2>2 DEF MinuteMoves
    <3>2. sched' \in AtAccount..Len(Rounds) /\ owner' \in BOOLEAN
      BY <3>1, StepsAre DEF PInv, ClockOK
    <3> QED
      BY <1>1, <3>2, ClockStays DEF PInv
  <2> QED
    BY <2>1, <2>2
<1>3. BusOK'
  BY <1>1, Unpublished, BusStep DEF PInv
<1> QED
  BY <1>1, <1>2, <1>3, KeptStays, SizesStay, BackedStays DEF PInv

LEMMA EmitKeeps ==
    ASSUME PInv, NEW s \in Signals, Emit(s)
    PROVE  PInv'
<1>1. /\ UNCHANGED <<mode, time, cursor, sched, owner, stage, view, account, gate, intents, placing, orders, lastSeq>>
      /\ UNCHANGED <<broker, reading, updates, asked, signed>>
      /\ Publish("signals", <<s>>)
  BY DEF Emit, riskVars, execVars, brokerVars, historyVars
<1>2. "signals" \in Streams /\ <<s>> \in Seq(Msg["signals"])
  BY Kinds DEF Streams
<1>3. /\ Grows
      /\ log'["intents"] = log["intents"] /\ log'["decisions"] = log["decisions"]
  <2>1. Grows /\ \A u \in Streams : u # "signals" => log'[u] = log[u]
    BY <1>1, <1>2, Appends DEF PInv
  <2> QED
    BY <2>1 DEF Streams
<1>4. BusOK'
  BY <1>1, <1>3, BusStep DEF PInv
<1> QED
  BY <1>1, <1>3, <1>4, ClockStays, KeptStays, SizesStay, BackedStays DEF PInv, ClockOK

LEMMA ViewKeeps ==
    ASSUME PInv, NEW v \in Viewers, OnStage(v)
    PROVE  PInv'
<1>1. /\ UNCHANGED <<mode, time, log, sched, owner, stage, account, gate, intents, placing, orders, lastSeq>>
      /\ UNCHANGED <<broker, reading, updates, asked, signed>>
      /\ Delivers(<<v, "stages">>)
      /\ view' = [view EXCEPT ![v] = Message(<<v, "stages">>)]
  BY DEF OnStage, execVars, brokerVars, historyVars
<1>2. <<v, "stages">> \in Readers
  BY AreReaders
<1>3. Message(<<v, "stages">>) \in Stage
  BY <1>1, <1>2, IsDelivered, Kinds DEF PInv
<1>4. BusOK'
  BY <1>1, <1>2, Unpublished, BusStep DEF PInv
<1>5. KeptOK'
  BY <1>1, <1>3 DEF KeptOK, PInv
<1> QED
  BY <1>1, <1>4, <1>5, ClockStays, SizesStay, BackedStays DEF PInv, ClockOK

LEMMA AllocatorKeeps ==
    ASSUME PInv, AllocatorOnAccount
    PROVE  PInv'
<1>1. /\ UNCHANGED <<mode, time, log, sched, owner, stage, view, gate, intents, placing, orders, lastSeq>>
      /\ UNCHANGED <<broker, reading, updates, asked, signed>>
      /\ Delivers(<<"allocator", "account">>)
      /\ account' = [account EXCEPT !["allocator"] = Message(<<"allocator", "account">>)]
  BY DEF AllocatorOnAccount, execVars, brokerVars, historyVars
<1>2. Message(<<"allocator", "account">>) \in Update
  BY <1>1, AreReaders, IsDelivered, Kinds DEF PInv
<1>3. BusOK'
  BY <1>1, AreReaders, Unpublished, BusStep DEF PInv
<1>4. KeptOK'
  BY <1>1, <1>2 DEF KeptOK, PInv
<1> QED
  BY <1>1, <1>3, <1>4, ClockStays, SizesStay, BackedStays DEF PInv, ClockOK

LEMMA SizeKeeps ==
    ASSUME PInv, ExecutionOnIntent
    PROVE  PInv'
<1> DEFINE intent == Message(<<"execution", "intents">>)
<1>1. /\ UNCHANGED <<mode, time, log, sched, owner, stage, view, account, gate, placing, orders, lastSeq>>
      /\ UNCHANGED <<broker, reading, updates, asked, signed>>
      /\ Delivers(<<"execution", "intents">>)
      /\ intents' = [intents EXCEPT ![intent.signal] = intent.lots]
  BY DEF ExecutionOnIntent, riskVars, brokerVars, historyVars
<1>2. intent \in Intent
  BY <1>1, AreReaders, IsDelivered, Kinds DEF PInv
<1>3. intent.lots \in Nat
  BY <1>2, RiskGateAssumption DEF Intent
<1>4. BusOK'
  BY <1>1, AreReaders, Unpublished, BusStep DEF PInv
<1> HIDE DEF intent
<1>5. KeptOK'
  BY <1>1, <1>3 DEF KeptOK, PInv
<1> QED
  BY <1>1, <1>4, <1>5, ClockStays, SizesStay, BackedStays DEF PInv, ClockOK

(* The lots the allocator asks for are lots of an order. *)
LEMMA ProposedAre ==
    ASSUME NEW s \in Signals, NEW st, st \in Stage \union {None}, NEW equity \in Nat,
           ProposedLots(s, st, equity) # 0
    PROVE  ProposedLots(s, st, equity) \in 1..MaxLot /\ BudgetOf(st) \in Nat
<1>1. BudgetOf(st) \in Nat
  BY TradingPathAssumption, RiskGateAssumption
  DEF BudgetOf, StageLimit, Smaller, Stage, None
<1>2. MarketEntry(s) \in Nat /\ SignalOf[s].stop \in Nat
  BY TradingPathAssumption DEF MarketEntry
<1> DEFINE perLot == 1000 * Distance(MarketEntry(s), SignalOf[s].stop)
<1>3. perLot \in Nat
  BY <1>2 DEF Distance
<1>4. st # "demo_only"
  BY DEF Stage, None
<1> DEFINE lots == Smaller((equity * BudgetOf(st)) \div perLot, MaxLot)
<1>5. ProposedLots(s, st, equity) = IF BudgetOf(st) = 0 \/ perLot = 0 \/ lots < MinLot THEN 0 ELSE lots
  BY <1>4 DEF ProposedLots
<1>6. perLot # 0 /\ ~(lots < MinLot) /\ ProposedLots(s, st, equity) = lots
  BY <1>5
<1> HIDE DEF perLot
<1>7. equity * BudgetOf(st) \in Nat
  BY <1>1
<1>8. (equity * BudgetOf(st)) \div perLot \in Int
  BY <1>3, <1>6, <1>7
<1>9. lots \in Int /\ lots <= MaxLot
  BY <1>8, RiskGateAssumption DEF Smaller
<1> HIDE DEF lots
<1> QED
  BY <1>1, <1>6, <1>9, RiskGateAssumption

LEMMA AppendedAt ==
    ASSUME NEW S, NEW s \in Seq(S), NEW x, NEW i \in DOMAIN (s \o <<x>>)
    PROVE  (i \in DOMAIN s /\ (s \o <<x>>)[i] = s[i]) \/ (s \o <<x>>)[i] = x
<1>1. Len(s \o <<x>>) = Len(s) + 1 /\ Len(s) \in Nat
  OBVIOUS
<1>2. i \in 1..Len(s) + 1
  BY <1>1
<1> QED
  BY <1>2

LEMMA SignalKeeps ==
    ASSUME PInv, OnSignal
    PROVE  PInv'
<1> DEFINE s == Message(<<"allocator", "signals">>)
           st == view["allocator"]
           lots == ProposedLots(s, st, account["allocator"].equity)
           intent == [signal |-> s, lots |-> lots, risk |-> BudgetOf(st)]
<1>1. /\ UNCHANGED <<mode, time, sched, owner, stage, view, account, gate, intents, placing, orders, lastSeq>>
      /\ UNCHANGED <<broker, reading, updates, signed>>
      /\ Delivers(<<"allocator", "signals">>)
      /\ \/ UNCHANGED <<log, asked>>
         \/ lots # 0 /\ Publish("intents", <<intent>>) /\ asked' = [asked EXCEPT ![s] = @ \union {lots}]
  BY DEF OnSignal, riskVars, execVars, brokerVars
<1>2. s \in Signals
  BY <1>1, AreReaders, IsDelivered, Kinds DEF PInv
<1>3. st \in Stage \union {None} /\ account["allocator"].equity \in Nat
  BY DEF PInv, KeptOK, Viewers, Update
<1> HIDE DEF s, st
<1>4. CASE UNCHANGED <<log, asked>>
  <2>1. BusOK'
    BY <1>1, <1>4, AreReaders, Unpublished, BusStep DEF PInv
  <2> QED
    BY <1>1, <1>4, <2>1, ClockStays, KeptStays, SizesStay, BackedStays DEF PInv, ClockOK
<1>5. CASE lots # 0 /\ Publish("intents", <<intent>>) /\ asked' = [asked EXCEPT ![s] = @ \union {lots}]
  <2>1. lots \in 1..MaxLot /\ BudgetOf(st) \in Nat
    BY <1>2, <1>3, <1>5, ProposedAre
  <2> HIDE DEF lots
  <2>2. intent \in Intent
    BY <1>2, <2>1 DEF Intent
  <2>3. intent.lots = lots /\ intent.signal = s
    OBVIOUS
  <2> HIDE DEF intent
  <2>4. "intents" \in Streams /\ <<intent>> \in Seq(Msg["intents"])
    BY <2>2, Kinds DEF Streams
  <2>5. /\ Grows /\ log'["intents"] = log["intents"] \o <<intent>>
        /\ \A u \in Streams : u # "intents" => log'[u] = log[u]
    BY <1>5, <2>4, Appends DEF PInv
  <2>6. BusOK'
    BY <1>1, <2>5, AreReaders, BusStep DEF PInv
  <2>7. SizesOK' /\ lots \in asked'[s] /\ \A q \in Signals : asked[q] \subseteq asked'[q]
    BY <1>1, <1>2, <1>5, <2>1 DEF PInv, SizesOK
  <2>8. Backed'
    <3>1. log["intents"] \in Seq(Intent)
      BY Kinds DEF PInv, BusOK, Streams
    <3>2. ASSUME NEW i \in DOMAIN log'["intents"]
          PROVE  log'["intents"][i].lots \in asked'[log'["intents"][i].signal]
      <4>1. (i \in DOMAIN log["intents"] /\ log'["intents"][i] = log["intents"][i]) \/ log'["intents"][i] = intent
        BY <2>5, <3>1, AppendedAt
      <4>2. ASSUME i \in DOMAIN log["intents"], log'["intents"][i] = log["intents"][i]
            PROVE  log'["intents"][i].lots \in asked'[log'["intents"][i].signal]
        <5>1. log["intents"][i] \in Intent
          BY <3>1, <4>2
        <5>2. log["intents"][i].signal \in Signals /\ log["intents"][i].lots \in asked[log["intents"][i].signal]
          BY <4>2, <5>1 DEF PInv, Backed, Intent
        <5> QED
          BY <2>7, <4>2, <5>2
      <4> QED
        BY <2>3, <2>7, <4>1, <4>2
    <3>3. log'["decisions"] = log["decisions"]
      BY <2>5 DEF Streams
    <3> QED
      BY <1>1, <3>2, <3>3 DEF PInv, Backed
  <2> QED
    BY <1>1, <2>6, <2>7, <2>8, ClockStays, KeptStays DEF PInv, ClockOK
<1> QED
  BY <1>1, <1>4, <1>5

(* The gate: an account may enter a halt; an answer is numbered and signed. *)
LEMMA RiskAccountKeeps ==
    ASSUME PInv, RiskOnAccount
    PROVE  PInv'
<1> DEFINE update == Message(<<"risk", "account">>)
<1>1. /\ UNCHANGED <<mode, time, sched, owner, stage, view, intents, placing, orders, lastSeq>>
      /\ UNCHANGED <<broker, reading, updates, asked, signed>>
      /\ Delivers(<<"risk", "account">>)
      /\ account' = [account EXCEPT !["risk"] = update]
      /\ \/ gate' = [gate EXCEPT !.halted = time] /\ Publish("halts", <<time>>)
         \/ UNCHANGED <<gate, log>>
  BY DEF RiskOnAccount, execVars, brokerVars, historyVars
<1>2. update \in Update
  BY <1>1, AreReaders, IsDelivered, Kinds DEF PInv
<1> HIDE DEF update
<1>3. time \in 0..MaxTime /\ MaxTime \in Nat
  BY TradingPathAssumption DEF PInv, ClockOK
<1>4. "halts" \in Streams /\ <<time>> \in Seq(Msg["halts"])
  BY <1>3, Kinds DEF Streams
<1>5. /\ Grows
      /\ log'["intents"] = log["intents"] /\ log'["decisions"] = log["decisions"]
  <2>1. CASE Publish("halts", <<time>>)
    <3>1. Grows /\ \A u \in Streams : u # "halts" => log'[u] = log[u]
      BY <2>1, <1>4, Appends DEF PInv
    <3> QED
      BY <3>1 DEF Streams
  <2>2. CASE log' = log
    BY <2>2, Unpublished DEF PInv
  <2> QED
    BY <1>1, <2>1, <2>2
<1>6. BusOK'
  BY <1>1, <1>5, AreReaders, BusStep DEF PInv
<1>7. gate' \in [halted : 0..Never, seq : Nat] /\ gate'.seq = gate.seq
  BY <1>1, <1>3 DEF PInv, KeptOK, Never
<1>8. KeptOK'
  <2>1. account' \in [{"risk", "allocator"} -> Update]
    BY <1>1, <1>2 DEF PInv, KeptOK
  <2> QED
    BY <1>1, <1>7, <2>1 DEF PInv, KeptOK
<1> QED
  BY <1>1, <1>5, <1>6, <1>7, <1>8, ClockStays, SizesStay, BackedStays DEF PInv, ClockOK

LEMMA SignalPriced ==
    ASSUME NEW s \in Signals
    PROVE  Priced(SignalOf[s])
<1>1. /\ SignalOf[s].side \in {"buy", "sell"} /\ SignalOf[s].price \in Nat \ {0}
      /\ SignalOf[s].stop \in Nat \ {0}
  BY TradingPathAssumption
<1> QED
  BY <1>1 DEF Priced

LEMMA AnswerIs ==
    ASSUME KeptOK, NEW intent \in Intent
    PROVE  /\ Answer(intent) \in Int
           /\ Answer(intent) > 0 => Answer(intent) \in 1..MaxLot /\ Answer(intent) <= intent.lots
<1> DEFINE full == [intent EXCEPT !.signal = SignalOf[intent.signal]]
<1>1. intent.signal \in Signals /\ intent.lots \in Nat /\ intent.risk \in Nat
  BY RiskGateAssumption DEF Intent
<1>2. full.signal = SignalOf[intent.signal] /\ full.lots = intent.lots /\ full.risk = intent.risk
  BY DEF Intent
<1>3. Priced(full.signal)
  BY <1>1, <1>2, SignalPriced
<1>4. account["risk"] \in Update
  BY DEF KeptOK
<1>5. Counts(Snapshot)
  <2>1. account["risk"].equity \in Nat /\ IsFiniteSet(account["risk"].exposures)
        /\ account["risk"].exposures \subseteq Exposure
    BY <1>4 DEF Update
  <2>2. Open(account["risk"].exposures)
    BY <2>1 DEF Open, Exposure
  <2>3. /\ Snapshot.equity = account["risk"].equity /\ Snapshot.exposures = account["risk"].exposures
        /\ Snapshot.freeMargin = FreeMargin /\ Snapshot.bid = Quote.bid /\ Snapshot.ask = Quote.ask
        /\ Snapshot.marginPerLot = MarginPerLot
    BY DEF Snapshot
  <2>4. FreeMargin \in Nat /\ MarginPerLot \in Nat /\ Quote.bid \in Nat \ {0} /\ Quote.ask \in Nat \ {0}
    BY TradingPathAssumption
  <2> QED
    BY <2>1, <2>2, <2>3, <2>4 DEF Counts
<1>6. Answer(intent) = IF Fresh THEN Approved(full, Snapshot, gate.halted # Never) ELSE 0
  BY DEF Answer
<1> HIDE DEF full
<1>7. /\ Approved(full, Snapshot, gate.halted # Never) \in Int
      /\ Approved(full, Snapshot, gate.halted # Never) > 0 =>
            /\ Approved(full, Snapshot, gate.halted # Never) \in 1..MaxLot
            /\ Approved(full, Snapshot, gate.halted # Never) <= full.lots
  BY <1>1, <1>2, <1>3, <1>5, ApprovedLots
<1> QED
  BY <1>2, <1>6, <1>7

LEMMA IntentKeeps ==
    ASSUME PInv, OnIntent
    PROVE  PInv'
<1> DEFINE intent == Message(<<"risk", "intents">>)
           s == intent.signal
           lots == Answer(intent)
           d == [signal |-> s, lots |-> lots, at |-> time, seq |-> gate.seq + 1,
                 basis |-> {e.id : e \in account["risk"].exposures}]
<1>1. /\ UNCHANGED <<mode, time, sched, owner, stage, view, account, intents, placing, orders, lastSeq>>
      /\ UNCHANGED <<broker, reading, updates, asked>>
      /\ Delivers(<<"risk", "intents">>)
      /\ gate' = [gate EXCEPT !.seq = gate.seq + 1]
      /\ Publish("decisions", <<d>>)
      /\ signed' = [signed EXCEPT ![s] = IF lots > 0 THEN signed[s] \union {lots} ELSE signed[s]]
  BY DEF OnIntent, Decide, execVars, brokerVars
<1>2. intent \in Intent
  BY <1>1, AreReaders, IsDelivered, Kinds DEF PInv
<1>3. s \in Signals
  BY <1>2 DEF Intent
<1>4. lots \in Int /\ (lots > 0 => lots \in 1..MaxLot)
  BY <1>2, AnswerIs DEF PInv
<1>5. gate \in [halted : 0..Never, seq : Nat] /\ time \in Nat /\ account["risk"] \in Update
  BY TradingPathAssumption DEF PInv, KeptOK, ClockOK
<1> HIDE DEF intent, lots
<1>6. {e.id : e \in account["risk"].exposures} \in SUBSET Signals
  <2>1. account["risk"].exposures \subseteq Exposure
    BY <1>5 DEF Update
  <2>2. \A e \in Exposure : e.id \in Signals
    BY DEF Exposure
  <2> QED
    BY <2>1, <2>2
<1>7. d \in Decision
  BY <1>3, <1>4, <1>5, <1>6 DEF Decision
<1>8. d.lots = lots /\ d.signal = s /\ d.seq = gate.seq + 1
  OBVIOUS
<1> HIDE DEF d, s
<1>9. "decisions" \in Streams /\ <<d>> \in Seq(Msg["decisions"])
  BY <1>7, Kinds DEF Streams
<1>10. /\ Grows /\ log'["decisions"] = log["decisions"] \o <<d>>
       /\ \A u \in Streams : u # "decisions" => log'[u] = log[u]
  BY <1>1, <1>9, Appends DEF PInv
<1>11. BusOK'
  BY <1>1, <1>10, AreReaders, BusStep DEF PInv
<1>12. gate' \in [halted : 0..Never, seq : Nat] /\ gate'.seq = gate.seq + 1 /\ gate.seq \in Nat
  BY <1>1, <1>5
<1>13. KeptOK'
  <2>1. lastSeq \in 0..gate'.seq
    BY <1>12 DEF PInv, KeptOK
  <2> QED
    BY <1>1, <1>12, <2>1 DEF PInv, KeptOK
<1>14. /\ signed' \in [Signals -> SUBSET (1..MaxLot)]
       /\ lots > 0 => lots \in signed'[s]
       /\ \A q \in Signals : signed[q] \subseteq signed'[q]
  BY <1>1, <1>3, <1>4 DEF PInv, SizesOK
<1>15. SizesOK'
  BY <1>1, <1>14 DEF PInv, SizesOK
<1>16. Backed'
  <2>1. log["decisions"] \in Seq(Decision)
    BY Kinds DEF PInv, BusOK, Streams
  <2>2. ASSUME NEW i \in DOMAIN log'["decisions"]
        PROVE  /\ log'["decisions"][i].seq <= gate'.seq
               /\ log'["decisions"][i].lots > 0 =>
                     log'["decisions"][i].lots \in signed'[log'["decisions"][i].signal]
    <3>1. \/ i \in DOMAIN log["decisions"] /\ log'["decisions"][i] = log["decisions"][i]
          \/ log'["decisions"][i] = d
      BY <1>10, <2>1, AppendedAt
    <3>2. CASE i \in DOMAIN log["decisions"] /\ log'["decisions"][i] = log["decisions"][i]
      <4> DEFINE x == log["decisions"][i]
      <4>1. x \in Decision
        BY <2>1, <3>2
      <4>2. x.signal \in Signals /\ x.seq \in Nat /\ x.seq <= gate.seq /\ (x.lots > 0 => x.lots \in signed[x.signal])
        BY <3>2, <4>1 DEF PInv, Backed, Decision
      <4> HIDE DEF x
      <4>3. x.seq <= gate'.seq /\ (x.lots > 0 => x.lots \in signed'[x.signal])
        BY <1>12, <1>14, <4>2
      <4>4. log'["decisions"][i] = x
        BY <3>2 DEF x
      <4> QED
        BY <4>3, <4>4
    <3>3. CASE log'["decisions"][i] = d
      BY <1>8, <1>12, <1>14, <3>3
    <3> QED
      BY <3>1, <3>2, <3>3
  <2>3. log'["intents"] = log["intents"]
    BY <1>10 DEF Streams
  <2>4. \A p \in placing : p.signal \in Signals /\ p.lots \in signed'[p.signal]
    BY <1>14 DEF PInv, Backed
  <2> QED
    BY <1>1, <2>2, <2>3, <2>4 DEF PInv, Backed
<1> QED
  BY <1>1, <1>11, <1>13, <1>15, <1>16, ClockStays DEF PInv, ClockOK

-----------------------------------------------------------------------------
(* Execution and the broker. *)
LEMMA EndedLots ==
    ASSUME IInv, KeptOK, NEW s \in Signals
    PROVE  Ended(s).lots \in Nat
<1>1. broker[s].lots \in Nat
  BY DEF KeptOK
<1>2. broker[s] = Nothing \/ DOMAIN broker[s] = {"state", "lots"}
  BY DEF IInv, Shapes
<1>3. "lots" \in DOMAIN broker[s]
  BY <1>2 DEF Nothing
<1> QED
  BY <1>1, <1>3 DEF Ended

LEMMA HaltKeeps ==
    ASSUME IInv, PInv, OnHalt
    PROVE  PInv'
<1>1. /\ UNCHANGED <<mode, time, log, sched, owner, stage, view, account, gate, intents, placing, lastSeq>>
      /\ UNCHANGED <<reading, updates, asked, signed>>
      /\ Delivers(<<"execution", "halts">>)
      /\ broker' = [s \in Signals |-> IF s \in Live THEN Ended(s) ELSE broker[s]]
      /\ orders' = [s \in Signals |-> IF broker[s].state = "pending" /\ orders[s] = "pending"
                                      THEN "cancelled" ELSE orders[s]]
  BY DEF OnHalt, riskVars, historyVars
<1>2. BusOK'
  BY <1>1, AreReaders, Unpublished, BusStep DEF PInv
<1>3. \A s \in Signals : broker'[s].lots \in Nat
  BY <1>1, EndedLots DEF PInv, KeptOK
<1>4. KeptOK'
  BY <1>1, <1>3 DEF PInv, KeptOK
<1>5. \A p \in placing' : orders'[p.signal] = orders[p.signal]
  BY <1>1 DEF PInv, Backed
<1> QED
  BY <1>1, <1>2, <1>4, <1>5, ClockStays, SizesStay, BackedStays DEF PInv, ClockOK

LEMMA ControlKeeps ==
    ASSUME IInv, PInv, OnControl
    PROVE  PInv'
<1> DEFINE pending == {s \in Signals : orders[s] = "pending"}
           filled == {s \in pending : broker[s].state # "pending"}
           closed == IF filled = {} THEN {s \in Signals : orders[s] = "open"} ELSE {}
           ended == (pending \ filled) \union (closed \intersect Live)
<1>1. /\ UNCHANGED <<mode, time, log, sched, owner, stage, view, account, gate, intents, placing, lastSeq>>
      /\ UNCHANGED <<reading, updates, asked, signed>>
      /\ Delivers(<<"execution", "control">>)
      /\ broker' = [s \in Signals |-> IF s \in ended THEN Ended(s) ELSE broker[s]]
      /\ orders' = [s \in Signals |-> IF s \in pending \ filled THEN "cancelled" ELSE orders[s]]
  BY DEF OnControl, riskVars, historyVars
<1>2. BusOK'
  BY <1>1, AreReaders, Unpublished, BusStep DEF PInv
<1>3. \A s \in Signals : broker'[s].lots \in Nat
  <2> HIDE DEF ended
  <2> QED
    BY <1>1, EndedLots DEF PInv, KeptOK
<1>4. KeptOK'
  BY <1>1, <1>3 DEF PInv, KeptOK
<1>5. \A p \in placing' : orders'[p.signal] = orders[p.signal]
  <2>1. \A p \in placing : p.signal \in Signals /\ p.signal \notin pending
    BY DEF PInv, Backed
  <2> HIDE DEF pending, filled
  <2> QED
    BY <1>1, <2>1
<1> QED
  BY <1>1, <1>2, <1>4, <1>5, ClockStays, SizesStay, BackedStays DEF PInv, ClockOK

LEMMA DecisionKeeps ==
    ASSUME IInv, PInv, OnDecision
    PROVE  PInv'
<1> DEFINE d == Message(<<"execution", "decisions">>)
           p == [signal |-> d.signal, lots |-> d.lots, decided |-> d.at,
                 verified |-> time, basis |-> d.basis, sent |-> FALSE]
<1>1. /\ UNCHANGED <<mode, time, log, sched, owner, stage, view, account, gate, intents, broker>>
      /\ UNCHANGED <<reading, updates, asked, signed>>
      /\ Delivers(<<"execution", "decisions">>)
      /\ lastSeq' = IF Verified(d) THEN d.seq ELSE lastSeq
      /\ \/ /\ Verified(d) /\ orders' = [orders EXCEPT ![d.signal] = "sending"]
            /\ placing' = placing \union {p}
         \/ UNCHANGED <<orders, placing>>
  BY DEF OnDecision, riskVars, brokerVars, historyVars
<1>2. BusOK'
  BY <1>1, AreReaders, Unpublished, BusStep DEF PInv
<1>3. d \in Decision /\ \E i \in DOMAIN log["decisions"] : d = log["decisions"][i]
  <2>1. Msg[<<"execution", "decisions">>[2]] = Decision /\ log[<<"execution", "decisions">>[2]] = log["decisions"]
    BY Kinds
  <2> HIDE DEF d
  <2>2. BusOK /\ <<"execution", "decisions">> \in Readers /\ Delivers(<<"execution", "decisions">>)
    BY <1>1, AreReaders DEF PInv
  <2> QED
    BY <2>1, <2>2, IsDelivered DEF d
<1>4. p.signal = d.signal /\ p.lots = d.lots
  OBVIOUS
<1> HIDE DEF d, p
<1>5. /\ d.signal \in Signals /\ d.seq \in Nat /\ d.seq <= gate.seq
      /\ d.lots > 0 => d.lots \in signed[d.signal]
  BY <1>3 DEF PInv, Backed, Decision
<1>6. KeptOK'
  <2>1. gate.seq \in Nat /\ lastSeq \in 0..gate.seq
    BY DEF PInv, KeptOK
  <2>2. lastSeq' \in 0..gate.seq
    BY <1>1, <1>5, <2>1
  <2> QED
    BY <1>1, <2>2 DEF PInv, KeptOK
<1>7. Backed'
  <2>1. CASE UNCHANGED <<orders, placing>>
    BY <1>1, <2>1, BackedStays DEF PInv
  <2>2. CASE /\ Verified(d) /\ orders' = [orders EXCEPT ![d.signal] = "sending"]
             /\ placing' = placing \union {p}
    <3>1. d.lots \in signed[d.signal]
      BY <1>5, <2>2 DEF Verified
    <3>2. DOMAIN orders = Signals
      BY DEF IInv, Shapes
    <3>3. \A q \in placing : q.signal \in Signals /\ orders[q.signal] = "sending" /\ q.lots \in signed[q.signal]
      BY DEF PInv, Backed
    <3>4. \A s \in Signals : orders'[s] = IF s = d.signal THEN "sending" ELSE orders[s]
      BY <2>2, <3>2
    <3>5. \A q \in placing' : q.signal \in Signals /\ orders'[q.signal] = "sending" /\ q.lots \in signed'[q.signal]
      BY <1>1, <1>4, <1>5, <2>2, <3>1, <3>3, <3>4
    <3> QED
      BY <1>1, <3>5 DEF PInv, Backed
  <2> QED
    BY <1>1, <2>1, <2>2
<1> QED
  BY <1>1, <1>2, <1>6, <1>7, ClockStays, SizesStay DEF PInv, ClockOK

LEMMA PlaceKeeps ==
    ASSUME IInv, PInv, NEW p \in placing, Place(p)
    PROVE  PInv'
<1> DEFINE q == [p EXCEPT !.sent = TRUE]
<1>1. /\ UNCHANGED <<mode, time, log, cursor, sched, owner, stage, view, account, gate, intents, orders, lastSeq>>
      /\ UNCHANGED <<reading, updates, asked, signed>>
      /\ placing' = (placing \ {p}) \union {q}
      /\ \/ broker' = broker
         \/ broker' = [broker EXCEPT ![p.signal] =
                          [state |-> IF Resting(p.signal) THEN "pending" ELSE "open", lots |-> p.lots]]
  BY DEF Place, busVars, riskVars, brokerVars, historyVars
<1>2. BusOK'
  BY <1>1, Unpublished, BusStep DEF PInv
<1>3. DOMAIN p = PlacingFields
  BY DEF IInv, Shapes
<1>4. q.signal = p.signal /\ q.lots = p.lots
  BY <1>3 DEF PlacingFields
<1> HIDE DEF q
<1>5. p.signal \in Signals /\ orders[p.signal] = "sending" /\ p.lots \in signed[p.signal]
  BY DEF PInv, Backed
<1>6. p.lots \in Nat
  BY <1>5, RiskGateAssumption DEF PInv, SizesOK
<1>7. \A s \in Signals : broker'[s].lots \in Nat
  <2> DEFINE o == [state |-> IF Resting(p.signal) THEN "pending" ELSE "open", lots |-> p.lots]
  <2>1. o.lots \in Nat
    BY <1>6
  <2>2. broker' = broker \/ broker' = [broker EXCEPT ![p.signal] = o]
    BY <1>1
  <2> HIDE DEF o
  <2>3. ASSUME NEW s \in Signals PROVE broker'[s] \in {broker[s], o}
    BY <2>2 DEF IInv, Shapes
  <2> QED
    BY <2>1, <2>3 DEF PInv, KeptOK
<1>8. KeptOK'
  BY <1>1, <1>7 DEF PInv, KeptOK
<1>9. Backed'
  BY <1>1, <1>4, <1>5 DEF PInv, Backed
<1> QED
  BY <1>1, <1>2, <1>8, <1>9, ClockStays, SizesStay DEF PInv, ClockOK

LEMMA AckedKeeps ==
    ASSUME IInv, PInv, NEW p \in placing, Acked(p)
    PROVE  PInv'
<1>1. /\ UNCHANGED <<mode, time, log, cursor, sched, owner, stage, view, account, gate, intents, lastSeq, broker>>
      /\ UNCHANGED <<reading, updates, asked, signed>>
      /\ placing' = placing \ {p}
      /\ orders' = [orders EXCEPT ![p.signal] = IF Resting(p.signal) THEN "pending" ELSE "open"]
  BY DEF Acked, busVars, riskVars, brokerVars, historyVars
<1>2. BusOK'
  BY <1>1, Unpublished, BusStep DEF PInv
<1>3. \A q \in placing' : q.signal # p.signal
  <2>1. \A q \in placing : q.signal \in Signals /\ (q.signal = p.signal => q = p)
    BY DEF PInv, Backed, IInv, Once
  <2> QED
    BY <1>1, <2>1
<1>4. \A q \in placing' : orders'[q.signal] = orders[q.signal]
  <2>1. \A q \in placing' : q.signal \in DOMAIN orders
    BY <1>1 DEF PInv, Backed, IInv, Shapes
  <2> QED
    BY <1>1, <1>3, <2>1
<1> QED
  BY <1>1, <1>2, <1>4, ClockStays, KeptStays, SizesStay, BackedStays DEF PInv, ClockOK

LEMMA CycleKeeps ==
    ASSUME IInv, PInv, Cycle
    PROVE  PInv'
<1>1. /\ UNCHANGED <<mode, time, cursor, sched, owner, stage, view, account, gate, intents, placing, lastSeq, broker>>
      /\ UNCHANGED <<asked, signed>>
      /\ orders' = [s \in Signals |-> IF s \in Following THEN Journalled(s) ELSE orders[s]]
      /\ Publish("trades", SetToSeq(Ends))
      /\ \E equity \in Levels : reading' = [at |-> time, equity |-> equity, exposures |-> Exposures]
      /\ updates' = updates + 1 /\ updates < MaxUpdates
  BY DEF Cycle, riskVars, brokerVars, historyVars
<1>2. SetToSeq(Ends) \in Seq(Signals)
  <2>1. Ends \in SUBSET Signals
    BY DEF Ends, Following
  <2> QED
    BY <2>1, SetIsSeq, TradingPathAssumption
<1>3. "trades" \in Streams /\ SetToSeq(Ends) \in Seq(Msg["trades"])
  BY <1>2, Kinds DEF Streams
<1>4. /\ Grows
      /\ log'["intents"] = log["intents"] /\ log'["decisions"] = log["decisions"]
  <2>1. Grows /\ \A u \in Streams : u # "trades" => log'[u] = log[u]
    BY <1>1, <1>3, Appends DEF PInv
  <2> QED
    BY <2>1 DEF Streams
<1>5. BusOK'
  BY <1>1, <1>4, BusStep DEF PInv
<1>6. time \in 0..Never /\ MaxUpdates \in Nat /\ updates \in 0..MaxUpdates
  BY TradingPathAssumption DEF PInv, ClockOK, Never
<1>7. ClockOK'
  BY <1>1, <1>6 DEF PInv, ClockOK
<1>8. reading' \in Update
  <2>1. PICK equity \in Levels : reading' = [at |-> time, equity |-> equity, exposures |-> Exposures]
    BY <1>1
  <2>2. equity \in Nat
    BY TradingPathAssumption
  <2>3. Exposures \in {E \in SUBSET Exposure : IsFiniteSet(E)}
    BY ExposuresAre DEF PInv
  <2> QED
    BY <1>6, <2>1, <2>2, <2>3 DEF Update
<1>9. KeptOK'
  BY <1>1, <1>8 DEF PInv, KeptOK
<1>10. \A p \in placing' : orders'[p.signal] = orders[p.signal]
  BY <1>1 DEF Following, PInv, Backed
<1> QED
  BY <1>1, <1>4, <1>5, <1>7, <1>9, <1>10, SizesStay, BackedStays DEF PInv

LEMMA PublishKeeps ==
    ASSUME PInv, PublishAccount
    PROVE  PInv'
<1> DEFINE u == [reading EXCEPT !.at = time]
<1>1. /\ UNCHANGED <<mode, time, cursor, owner, stage, view, account, gate, intents, placing, orders, lastSeq>>
      /\ UNCHANGED <<broker, updates, asked, signed>>
      /\ Publish("account", <<u>>)
      /\ reading' = NoAccount
      /\ sched' \in {AtSignals, sched}
  BY DEF PublishAccount, riskVars, execVars, brokerVars, historyVars
<1>2. time \in 0..Never
  BY TradingPathAssumption DEF PInv, ClockOK, Never
<1>3. u \in Update
  BY <1>2 DEF PInv, KeptOK, Update
<1> HIDE DEF u
<1>4. "account" \in Streams /\ <<u>> \in Seq(Msg["account"])
  BY <1>3, Kinds DEF Streams
<1>5. /\ Grows
      /\ log'["intents"] = log["intents"] /\ log'["decisions"] = log["decisions"]
  <2>1. Grows /\ \A v \in Streams : v # "account" => log'[v] = log[v]
    BY <1>1, <1>4, Appends DEF PInv
  <2> QED
    BY <2>1 DEF Streams
<1>6. BusOK'
  BY <1>1, <1>5, BusStep DEF PInv
<1>7. sched' \in AtAccount..Len(Rounds)
  BY <1>1, StepsAre DEF PInv, ClockOK
<1>8. KeptOK'
  <2>1. reading' \in Update
    BY <1>1, NoUpdate
  <2> QED
    BY <1>1, <2>1 DEF PInv, KeptOK
<1> QED
  BY <1>1, <1>5, <1>6, <1>7, <1>8, ClockStays, SizesStay, BackedStays DEF PInv, ClockOK

LEMMA LifecycleKeeps ==
    ASSUME PInv, OnTrade \/ Hourly \/ OwnerStops
    PROVE  PInv'
<1>1. /\ UNCHANGED <<mode, time, view, account, gate, intents, placing, orders, lastSeq>>
      /\ UNCHANGED <<broker, reading, updates, asked, signed>>
      /\ cursor' = cursor \/ Delivers(<<"lifecycle", "trades">>)
      /\ log' = log \/ Flush
      /\ stage' = stage \/ stage' = "shadow"
      /\ sched' \in {sched, 1} /\ owner' \in {owner, sched # AtRest}
  BY DEF OnTrade, Hourly, OwnerStops, Demotes, riskVars, execVars, brokerVars, historyVars
<1>2. /\ Grows
      /\ log'["intents"] = log["intents"] /\ log'["decisions"] = log["decisions"]
  <2>1. CASE Flush
    <3>1. Grows /\ \A u \in Streams : u \notin {"stages", "control"} => log'[u] = log[u]
      BY <2>1, Flushes DEF PInv
    <3> QED
      BY <3>1 DEF Streams
  <2>2. CASE log' = log
    BY <2>2, Unpublished DEF PInv
  <2> QED
    BY <1>1, <2>1, <2>2
<1>3. BusOK'
  BY <1>1, <1>2, AreReaders, BusStep DEF PInv
<1>4. sched' \in AtAccount..Len(Rounds) /\ owner' \in BOOLEAN
  BY <1>1, StepsAre DEF PInv, ClockOK
<1>5. KeptOK'
  BY <1>1 DEF PInv, KeptOK, Stage
<1> QED
  BY <1>1, <1>2, <1>3, <1>4, <1>5, ClockStays, SizesStay, BackedStays DEF PInv

LEMMA MarketKeeps ==
    ASSUME IInv, PInv, NEW s \in Signals, Fills(s) \/ Stopped(s)
    PROVE  PInv'
<1>1. /\ UNCHANGED <<mode, time, log, cursor, sched, owner, stage, view, account, gate, intents, placing, orders>>
      /\ UNCHANGED <<lastSeq, reading, updates, asked, signed>>
      /\ \/ broker' = [broker EXCEPT ![s].state = "open"]
         \/ broker' = [broker EXCEPT ![s] = Ended(s)]
  BY DEF Fills, Stopped, busVars, riskVars, execVars, historyVars
<1>2. BusOK'
  BY <1>1, Unpublished, BusStep DEF PInv
<1>3. ASSUME NEW q \in Signals PROVE broker'[q].lots \in Nat
  <2>1. broker[q].lots \in Nat /\ Ended(s).lots \in Nat
    BY EndedLots DEF PInv, KeptOK
  <2>2. broker[q] = Nothing \/ DOMAIN broker[q] = {"state", "lots"}
    BY DEF IInv, Shapes
  <2>3. "lots" \in DOMAIN broker[q]
    BY <2>2 DEF Nothing
  <2>4. DOMAIN broker = Signals
    BY DEF IInv, Shapes
  <2>5. [broker[q] EXCEPT !.state = "open"].lots = broker[q].lots
    BY <2>3
  <2>6. broker'[q] \in {broker[q], [broker[q] EXCEPT !.state = "open"], Ended(s)}
    BY <1>1, <2>4
  <2> QED
    BY <2>1, <2>5, <2>6
<1>4. KeptOK'
  BY <1>1, <1>3 DEF PInv, KeptOK
<1> QED
  BY <1>1, <1>2, <1>4, ClockStays, SizesStay, BackedStays DEF PInv, ClockOK

LEMMA TickKeeps ==
    ASSUME PInv, Tick
    PROVE  PInv'
<1>1. /\ UNCHANGED <<mode, log, cursor, sched, owner, stage, view, account, gate, intents, placing, orders, lastSeq>>
      /\ UNCHANGED <<broker, reading, updates, asked, signed>>
      /\ time < MaxTime /\ time' = time + 1
  BY DEF Tick, busVars, riskVars, execVars, brokerVars, historyVars
<1>2. BusOK'
  BY <1>1, Unpublished, BusStep DEF PInv
<1>3. ClockOK'
  BY <1>1, TradingPathAssumption DEF PInv, ClockOK
<1> QED
  BY <1>1, <1>2, <1>3, KeptStays, SizesStay, BackedStays DEF PInv

(* A restart: streams are read again, or are gone. *)
LEMMA HaltAgainIs ==
    ASSUME ClockOK
    PROVE  HaltAgain \in Seq(Nat)
<1>1. time \in Nat
  BY TradingPathAssumption DEF ClockOK
<1> QED
  BY <1>1 DEF HaltAgain

LEMMA RestartKeeps ==
    ASSUME PInv, NEW service,
           NEW again \in {{}} \union {{r} : r \in {r \in Readers : r[1] = service /\ cursor[r] > 0}},
           Restart(service, again)
    PROVE  PInv'
<1>1. /\ UNCHANGED <<mode, time, updates, sched, owner, stage, gate, orders, lastSeq, broker, asked, signed>>
      /\ cursor' = [r \in Readers |-> IF r \in again THEN cursor[r] - 1 ELSE cursor[r]]
      /\ view' = [v \in Viewers |-> IF v = service THEN None ELSE view[v]]
      /\ account' = [v \in DOMAIN account |-> IF v = service THEN NoAccount ELSE account[v]]
      /\ log' = [log EXCEPT !["halts"] = IF service = "risk" THEN log["halts"] \o HaltAgain ELSE log["halts"],
                            !["stages"] = IF service = "lifecycle" THEN Append(log["stages"], stage)
                                          ELSE log["stages"]]
      /\ intents' = [s \in Signals |-> 0] \/ intents' = intents
      /\ placing' \subseteq placing
      /\ reading' \in {reading, NoAccount}
  BY DEF Restart, brokerVars, historyVars
<1>2. log["halts"] \in Seq(Nat) /\ log["stages"] \in Seq(Stage) /\ DOMAIN log = Streams
  BY Kinds DEF PInv, BusOK, Streams
<1>3. /\ DOMAIN log' = Streams
      /\ log'["halts"] = IF service = "risk" THEN log["halts"] \o HaltAgain ELSE log["halts"]
      /\ log'["stages"] = IF service = "lifecycle" THEN Append(log["stages"], stage) ELSE log["stages"]
      /\ \A u \in Streams : u \notin {"halts", "stages"} => log'[u] = log[u]
  BY <1>1, <1>2 DEF Streams
<1>4. log'["halts"] \in Seq(Nat) /\ Len(log["halts"]) <= Len(log'["halts"])
  <2>1. HaltAgain \in Seq(Nat)
    BY HaltAgainIs DEF PInv
  <2>2. log["halts"] \o HaltAgain \in Seq(Nat) /\ Len(log["halts"]) <= Len(log["halts"] \o HaltAgain)
    BY <1>2, <2>1, Joined
  <2>3. Len(log["halts"]) \in Nat
    BY <1>2
  <2> QED
    BY <1>2, <1>3, <2>2, <2>3
<1>5. log'["stages"] \in Seq(Stage) /\ Len(log["stages"]) <= Len(log'["stages"])
  <2>1. stage \in Stage
    BY DEF PInv, KeptOK
  <2>2. /\ Append(log["stages"], stage) \in Seq(Stage)
        /\ Len(Append(log["stages"], stage)) = Len(log["stages"]) + 1 /\ Len(log["stages"]) \in Nat
    BY <1>2, <2>1
  <2> QED
    BY <1>2, <1>3, <2>2
<1>6. ASSUME NEW u \in Streams PROVE log'[u] \in Seq(Msg[u]) /\ Len(log[u]) <= Len(log'[u])
  <2>1. CASE u \in {"halts", "stages"}
    BY <1>4, <1>5, <2>1, Kinds
  <2>2. CASE u \notin {"halts", "stages"}
    <3>1. log[u] \in Seq(Msg[u]) /\ log'[u] = log[u]
      BY <1>3, <2>2 DEF PInv, BusOK
    <3>2. Len(log[u]) \in Nat
      BY <3>1
    <3> QED
      BY <3>1, <3>2
  <2> QED
    BY <2>1, <2>2
<1>7. BusOK'
  <2>1. ASSUME NEW r \in Readers PROVE cursor'[r] \in 0..Len(log'[r[2]])
    <3>1. r[2] \in Streams /\ cursor[r] \in 0..Len(log[r[2]])
      BY ReadersOfStreams DEF PInv, BusOK
    <3>2. log[r[2]] \in Seq(Msg[r[2]]) /\ log'[r[2]] \in Seq(Msg[r[2]]) /\ Len(log[r[2]]) <= Len(log'[r[2]])
      BY <1>6, <3>1 DEF PInv, BusOK
    <3>3. Len(log[r[2]]) \in Nat /\ Len(log'[r[2]]) \in Nat
      BY <3>2
    <3>4. r \in again => cursor[r] > 0
      OBVIOUS
    <3>5. cursor'[r] = IF r \in again THEN cursor[r] - 1 ELSE cursor[r]
      BY <1>1
    <3> QED
      BY <3>1, <3>2, <3>3, <3>4, <3>5
  <2>2. DOMAIN cursor' = Readers
    BY <1>1
  <2> QED
    BY <1>3, <1>6, <2>1, <2>2 DEF BusOK
<1>8. KeptOK'
  <2>1. reading' \in Update /\ account' \in [{"risk", "allocator"} -> Update]
    BY <1>1, NoUpdate DEF PInv, KeptOK
  <2>2. view' \in [Viewers -> Stage \union {None}] /\ intents' \in [Signals -> Nat]
    BY <1>1 DEF PInv, KeptOK
  <2> QED
    BY <1>1, <2>1, <2>2 DEF PInv, KeptOK
<1>9. log'["intents"] = log["intents"] /\ log'["decisions"] = log["decisions"]
  BY <1>3 DEF Streams
<1> QED
  BY <1>1, <1>7, <1>8, <1>9, ClockStays, SizesStay, BackedStays DEF PInv, ClockOK

LEMMA RestartAllKeeps ==
    ASSUME PInv, RestartAll
    PROVE  PInv'
<1>1. /\ UNCHANGED <<mode, time, updates, stage, gate, orders, lastSeq, broker, asked, signed>>
      /\ log' = [st \in Streams |-> CASE st = "stages" -> <<stage>> [] st = "halts" -> HaltAgain
                                        [] OTHER -> <<>>]
      /\ cursor' = [r \in Readers |-> 0]
      /\ sched' = 1 /\ owner' = FALSE
      /\ view' = [v \in Viewers |-> None]
      /\ account' = [v \in DOMAIN account |-> NoAccount]
      /\ intents' = [s \in Signals |-> 0] /\ placing' = {} /\ reading' = NoAccount
  BY DEF RestartAll, brokerVars, historyVars
<1>2. ASSUME NEW u \in Streams PROVE log'[u] \in Seq(Msg[u])
  <2>1. CASE u = "stages"
    <3>1. <<stage>> \in Seq(Stage)
      BY DEF PInv, KeptOK
    <3> QED
      BY <1>1, <2>1, <3>1, Kinds
  <2>2. CASE u = "halts"
    BY <1>1, <2>2, HaltAgainIs, Kinds DEF PInv
  <2>3. CASE u \notin {"stages", "halts"}
    <3>1. log'[u] = <<>>
      BY <1>1, <2>3
    <3>2. <<>> \in Seq(Msg[u])
      OBVIOUS
    <3> QED
      BY <3>1, <3>2
  <2> QED
    BY <2>1, <2>2, <2>3
<1>3. BusOK'
  <2>1. ASSUME NEW r \in Readers PROVE cursor'[r] \in 0..Len(log'[r[2]])
    <3>1. log'[r[2]] \in Seq(Msg[r[2]])
      BY <1>2, ReadersOfStreams
    <3>2. Len(log'[r[2]]) \in Nat
      BY <3>1
    <3> QED
      BY <1>1, <3>2
  <2> QED
    BY <1>1, <1>2, <2>1 DEF BusOK
<1>4. sched' \in AtAccount..Len(Rounds) /\ owner' \in BOOLEAN
  BY <1>1, StepsAre
<1>5. KeptOK'
  <2>1. reading' \in Update /\ account' \in [{"risk", "allocator"} -> Update]
    BY <1>1, NoUpdate DEF PInv, KeptOK
  <2>2. view' \in [Viewers -> Stage \union {None}] /\ intents' \in [Signals -> Nat]
    BY <1>1
  <2> QED
    BY <1>1, <2>1, <2>2 DEF PInv, KeptOK
<1>6. log'["intents"] = <<>> /\ log'["decisions"] = <<>>
  BY <1>1 DEF Streams
<1>7. Backed'
  BY <1>1, <1>6 DEF Backed
<1> QED
  BY <1>1, <1>3, <1>4, <1>5, <1>7, ClockStays, SizesStay DEF PInv

LEMMA InitKeeps == Init => PInv
<1> SUFFICES ASSUME Init PROVE PInv
  OBVIOUS
<1>1. /\ scenario \in Scenarios /\ mode = scenario.mode /\ time = 0 /\ updates = 0
      /\ log = [st \in Streams |-> IF st = "stages" THEN <<"live">> ELSE <<>>]
      /\ cursor = [r \in Readers |-> IF r[2] = "stages" THEN 1 ELSE 0]
      /\ sched = AtRest /\ owner = FALSE /\ stage = "live"
      /\ view = [v \in Viewers |-> "live"]
      /\ account = [v \in {"risk", "allocator"} |-> NoAccount] /\ reading = NoAccount
      /\ gate = [halted |-> Never, seq |-> 0] /\ lastSeq = 0
      /\ intents = [s \in Signals |-> 0] /\ placing = {}
      /\ broker = [s \in Signals |-> Nothing]
      /\ asked = [s \in Signals |-> {}] /\ signed = [s \in Signals |-> {}]
  BY DEF Init
<1>2. ASSUME NEW u \in Streams
      PROVE  log[u] \in Seq(Msg[u]) /\ Len(log[u]) = IF u = "stages" THEN 1 ELSE 0
  <2>1. CASE u = "stages"
    <3>1. <<"live">> \in Seq(Stage) /\ Len(<<"live">>) = 1
      BY DEF Stage
    <3> QED
      BY <1>1, <2>1, <3>1, Kinds
  <2>2. CASE u # "stages"
    <3>1. log[u] = <<>>
      BY <1>1, <2>2
    <3>2. <<>> \in Seq(Msg[u]) /\ Len(<<>>) = 0
      OBVIOUS
    <3> QED
      BY <2>2, <3>1, <3>2
  <2> QED
    BY <2>1, <2>2
<1>3. BusOK
  <2>1. \A r \in Readers : cursor[r] \in 0..Len(log[r[2]])
    BY <1>1, <1>2, ReadersOfStreams
  <2> QED
    BY <1>1, <1>2, <2>1 DEF BusOK
<1>4. ClockOK
  <2>1. mode \in {"run", "pump"} /\ MaxTime \in Nat /\ MaxUpdates \in Nat
    BY <1>1, TradingPathAssumption
  <2>2. time \in 0..MaxTime /\ updates \in 0..MaxUpdates
    BY <1>1, <2>1
  <2> QED
    BY <1>1, <2>1, <2>2, StepsAre DEF ClockOK
<1>5. Never \in Nat
  BY TradingPathAssumption DEF Never
<1>6. gate \in [halted : 0..Never, seq : Nat] /\ lastSeq \in 0..gate.seq
  BY <1>1, <1>5
<1>7. KeptOK
  BY <1>1, <1>6, NoUpdate DEF KeptOK, Stage, Nothing
<1>8. SizesOK
  BY <1>1 DEF SizesOK
<1>9. log["intents"] = <<>> /\ log["decisions"] = <<>>
  BY <1>1 DEF Streams
<1>10. Backed
  BY <1>1, <1>9 DEF Backed
<1> QED
  BY <1>3, <1>4, <1>7, <1>8, <1>10 DEF PInv

LEMMA StutterKeeps == PInv /\ UNCHANGED vars => PInv'
<1> SUFFICES ASSUME PInv, UNCHANGED vars PROVE PInv'
  OBVIOUS
<1>1. /\ UNCHANGED <<mode, time, log, cursor, sched, owner, stage, view, account, gate, intents, placing, orders>>
      /\ UNCHANGED <<lastSeq, broker, reading, updates, asked, signed>>
  BY DEF vars, busVars, riskVars, execVars, brokerVars, historyVars
<1>2. BusOK'
  BY <1>1, Unpublished, BusStep DEF PInv
<1> QED
  BY <1>1, <1>2, ClockStays, KeptStays, SizesStay, BackedStays DEF PInv, ClockOK

LEMMA StepKeeps == IInv /\ PInv /\ [Next]_vars => PInv'
<1> SUFFICES ASSUME IInv, PInv, Next PROVE PInv'
  BY StutterKeeps
<1>0. "engine" \in Viewers /\ "allocator" \in Viewers /\ "risk" \in Viewers
  BY DEF Viewers
<1>1. CASE PumpMoves \/ MinuteMoves
  BY <1>1, SchedulerKeeps
<1>2. CASE Engine
  BY <1>0, <1>2, ViewKeeps, EmitKeeps DEF Engine
<1>3. CASE Allocator
  BY <1>0, <1>3, ViewKeeps, AllocatorKeeps, SignalKeeps DEF Allocator
<1>4. CASE Risk
  BY <1>0, <1>4, ViewKeeps, RiskAccountKeeps, IntentKeeps DEF Risk
<1>5. CASE Execution
  <2>1. CASE OnHalt \/ OnControl \/ ExecutionOnIntent
    BY <2>1, HaltKeeps, ControlKeeps, SizeKeeps
  <2>2. CASE OnDecision \/ Cycle \/ PublishAccount
    BY <2>2, DecisionKeeps, CycleKeeps, PublishKeeps
  <2>3. ASSUME NEW p \in placing, Place(p) \/ Acked(p) PROVE PInv'
    BY <2>3, PlaceKeeps, AckedKeeps
  <2> QED
    BY <1>5, <2>1, <2>2, <2>3 DEF Execution
<1>6. CASE Lifecycle
  BY <1>6, LifecycleKeeps DEF Lifecycle
<1>7. CASE Broker
  BY <1>7, MarketKeeps DEF Broker
<1>8. CASE Tick
  BY <1>8, TickKeeps
<1>9. CASE Restarts
  BY <1>9, RestartKeeps, RestartAllKeeps DEF Restarts
<1> QED
  BY <1>1, <1>2, <1>3, <1>4, <1>5, <1>6, <1>7, <1>8, <1>9 DEF Next

LEMMA PathInvariance == Spec => [](IInv /\ PInv)
  BY InitInv, StepInv, InitKeeps, StepKeeps, PTL DEF Spec

(* The streams hold messages of their kinds, no reader is ahead of its stream, and what each service keeps
   and each order's status are of their types (core/bus.py, the handlers' assignments). *)
THEOREM PathTypes == Spec => []TypeOK
<1>1. IInv /\ PInv => TypeOK
  <2> SUFFICES ASSUME IInv, PInv PROVE TypeOK
    OBVIOUS
  <2>1. /\ mode \in {"run", "pump"} /\ time \in 0..MaxTime /\ updates \in 0..MaxUpdates
        /\ sched \in AtAccount..Len(Rounds) /\ owner \in BOOLEAN
    BY DEF PInv, ClockOK
  <2>2. DOMAIN log = Streams /\ \A r \in Readers : cursor[r] \in 0..Len(log[r[2]])
    BY DEF PInv, BusOK
  <2>3. /\ stage \in {"live", "shadow"} /\ view \in [Viewers -> {None, "live", "shadow"}]
        /\ gate.halted \in 0..Never /\ gate.seq \in Nat /\ lastSeq \in 0..gate.seq /\ intents \in [Signals -> Nat]
    <3>1. Stage \union {None} = {None, "live", "shadow"}
      BY DEF Stage
    <3> QED
      BY <3>1 DEF PInv, KeptOK, Stage
  <2>4. \A v \in DOMAIN account : account[v].at \in 0..Never
    BY DEF PInv, KeptOK, Update
  <2>5. /\ orders \in [Signals -> {None, "sending", "pending", "open", "closed", "cancelled", "rejected"}]
        /\ \A s \in Signals : broker[s].state \in {None, "pending", "open", "closed", "cancelled"}
    BY DEF IInv, Shapes, Nothing, None
  <2>6. \A p \in placing : orders[p.signal] \in {"sending", "pending", "open"}
    BY DEF PInv, Backed
  <2> QED
    BY <2>1, <2>2, <2>3, <2>4, <2>5, <2>6 DEF TypeOK
<1> QED
  BY <1>1, PathInvariance, PTL

-----------------------------------------------------------------------------
(* What the broker got of each signal, as SignalLife counts it. *)
Sent == [s \in Signals |-> [i \in DOMAIN entered[s] |-> entered[s][i].lots]]

(* Only three actions are of a signal's life. *)
LEMMA Others ==
    ASSUME Next, ~OnSignal, ~OnIntent, ~\E p \in placing : Place(p)
    PROVE  UNCHANGED <<asked, signed, entered>>
<1>1. CASE PumpMoves \/ MinuteMoves
  BY <1>1 DEF PumpMoves, MinuteMoves, historyVars, brokerVars
<1>2. CASE Engine \/ Allocator \/ Risk
  BY <1>2 DEF Engine, Allocator, Risk, OnStage, Emit, AllocatorOnAccount, RiskOnAccount, historyVars, brokerVars
<1>3. CASE Execution
  BY <1>3 DEF Execution, OnHalt, OnControl, ExecutionOnIntent, OnDecision, Cycle, PublishAccount, Acked,
              historyVars, brokerVars
<1>4. CASE Lifecycle \/ Broker \/ Tick \/ Restarts
  BY <1>4 DEF Lifecycle, OnTrade, Hourly, OwnerStops, Broker, Fills, Stopped, Tick, Restarts, Restart, RestartAll,
              historyVars, brokerVars
<1> QED
  BY <1>1, <1>2, <1>3, <1>4 DEF Next

LEMMA Proposes ==
    ASSUME PInv, OnSignal
    PROVE  (\E s \in Signals : Life!Propose(s)) \/ UNCHANGED <<asked, signed, Sent>>
<1> DEFINE s == Message(<<"allocator", "signals">>)
           st == view["allocator"]
           lots == ProposedLots(s, st, account["allocator"].equity)
<1>1. /\ UNCHANGED <<signed, entered>>
      /\ Delivers(<<"allocator", "signals">>)
      /\ \/ asked' = asked
         \/ lots # 0 /\ asked' = [asked EXCEPT ![s] = @ \union {lots}]
  BY DEF OnSignal, brokerVars
<1>2. s \in Signals
  BY <1>1, AreReaders, IsDelivered, Kinds DEF PInv
<1>3. st \in Stage \union {None} /\ account["allocator"].equity \in Nat
  BY DEF PInv, KeptOK, Viewers, Update
<1> HIDE DEF s, st
<1>4. Sent' = Sent
  BY <1>1 DEF Sent
<1>5. lots # 0 => lots \in 1..MaxLot
  BY <1>2, <1>3, ProposedAre
<1> HIDE DEF lots
<1>6. CASE asked' = asked
  BY <1>1, <1>4, <1>6
<1>7. CASE lots # 0 /\ asked' = [asked EXCEPT ![s] = @ \union {lots}]
  <2>1. \E l \in 1..MaxLot : asked' = [asked EXCEPT ![s] = @ \union {l}]
    BY <1>5, <1>7
  <2>2. Life!Propose(s)
    BY <1>1, <1>4, <2>1 DEF Life!Propose, Sent
  <2> QED
    BY <1>2, <2>2
<1> QED
  BY <1>1, <1>6, <1>7

LEMMA Approves ==
    ASSUME PInv, OnIntent
    PROVE  (\E s \in Signals : Life!Approve(s)) \/ UNCHANGED <<asked, signed, Sent>>
<1> DEFINE intent == Message(<<"risk", "intents">>)
           s == intent.signal
           lots == Answer(intent)
<1>1. /\ UNCHANGED <<asked, entered>>
      /\ Delivers(<<"risk", "intents">>)
      /\ signed' = [signed EXCEPT ![s] = IF lots > 0 THEN @ \union {lots} ELSE @]
  BY DEF OnIntent, Decide, brokerVars
<1>2. intent \in Intent /\ \E i \in DOMAIN log["intents"] : intent = log["intents"][i]
  <2>1. Msg[<<"risk", "intents">>[2]] = Intent /\ log[<<"risk", "intents">>[2]] = log["intents"]
    BY Kinds
  <2> HIDE DEF intent
  <2>2. BusOK /\ <<"risk", "intents">> \in Readers /\ Delivers(<<"risk", "intents">>)
    BY <1>1, AreReaders DEF PInv
  <2> QED
    BY <2>1, <2>2, IsDelivered DEF intent
<1>3. lots \in Int /\ (lots > 0 => lots \in 1..MaxLot /\ lots <= intent.lots)
  BY <1>2, AnswerIs DEF PInv
<1> HIDE DEF intent, lots
<1>4. s \in Signals /\ intent.lots \in asked[s]
  BY <1>2 DEF PInv, Backed, Intent
<1>5. Sent' = Sent
  BY <1>1 DEF Sent
<1> HIDE DEF s
<1>6. CASE lots > 0
  <2>1. signed' = [signed EXCEPT ![s] = @ \union {lots}]
    BY <1>1, <1>6
  <2>2. lots \in {l \in 1..MaxLot : l <= intent.lots}
    BY <1>3, <1>6
  <2>3. \E a \in asked[s] : \E l \in {l \in 1..MaxLot : l <= a} : signed' = [signed EXCEPT ![s] = @ \union {l}]
    BY <1>4, <2>1, <2>2
  <2>4. Life!Approve(s)
    BY <1>1, <1>5, <2>3 DEF Life!Approve, Sent
  <2> QED
    BY <1>4, <2>4
<1>7. CASE ~(lots > 0)
  <2>1. signed' = signed
    BY <1>1, <1>7 DEF PInv, SizesOK
  <2> QED
    BY <1>1, <1>5, <2>1
<1> QED
  BY <1>6, <1>7

LEMMA Enters ==
    ASSUME IInv, PInv, NEW p \in placing, Place(p)
    PROVE  (\E s \in Signals : Life!Enter(s)) \/ UNCHANGED <<asked, signed, Sent>>
<1> DEFINE s == p.signal
           e == Entered(p)
<1>1. /\ UNCHANGED <<asked, signed>> /\ ~p.sent
      /\ entered' = entered \/ entered' = [entered EXCEPT ![s] = Append(@, e)]
  BY DEF Place, brokerVars, historyVars
<1>2. s \in Signals /\ p.lots \in signed[s] /\ entered[s] = <<>>
  BY <1>1 DEF PInv, Backed, IInv, Once
<1>3. e.lots = p.lots
  BY DEF Entered
<1> HIDE DEF e, s
<1>4. CASE entered' = entered
  BY <1>1, <1>4 DEF Sent
<1>5. CASE entered' = [entered EXCEPT ![s] = Append(@, e)]
  <2>1. DOMAIN entered = Signals
    BY DEF IInv, Shapes
  <2>2. entered'[s] = <<e>> /\ \A q \in Signals : q # s => entered'[q] = entered[q]
    <3>1. Append(<<>>, e) = <<e>>
      OBVIOUS
    <3> QED
      BY <1>2, <1>5, <2>1, <3>1
  <2>3. [i \in DOMAIN entered'[s] |-> entered'[s][i].lots] = <<p.lots>>
    <3>1. [i \in DOMAIN <<e>> |-> <<e>>[i].lots] = <<e.lots>>
      OBVIOUS
    <3> QED
      BY <1>3, <2>2, <3>1
  <2>4. Sent' = [Sent EXCEPT ![s] = <<p.lots>>]
    <3>1. ASSUME NEW q \in Signals PROVE Sent'[q] = IF q = s THEN <<p.lots>> ELSE Sent[q]
      BY <2>2, <2>3 DEF Sent
    <3>2. Sent' = [q \in Signals |-> Sent'[q]] /\ Sent = [q \in Signals |-> Sent[q]]
      BY DEF Sent
    <3> QED
      BY <1>2, <3>1, <3>2
  <2>5. Sent[s] = <<>>
    BY <1>2 DEF Sent
  <2>6. \E l \in signed[s] : Sent' = [Sent EXCEPT ![s] = <<l>>]
    BY <1>2, <2>4
  <2>7. Life!Enter(s)
    BY <1>1, <2>5, <2>6 DEF Life!Enter, Sent
  <2> QED
    BY <1>2, <2>7
<1> QED
  BY <1>1, <1>4, <1>5

(* Through the streams, the restarts and the redelivered messages, a signal lives as SignalLife says: it is
   approved for no more than was proposed and enters at most once, with an approved size (_on_signal,
   RiskGate.decide, OrderManager.execute and _send). *)
THEOREM SignalLivesOnce == Spec => EntersOnce
<1>1. Init => Life!Init
  BY DEF Init, Life!Init
<1>2. IInv /\ PInv /\ [Next]_vars => [Life!Next]_<<asked, signed, Sent>>
  <2> SUFFICES ASSUME IInv, PInv, [Next]_vars PROVE [Life!Next]_<<asked, signed, Sent>>
    OBVIOUS
  <2>1. CASE OnSignal
    BY <2>1, Proposes DEF Life!Next
  <2>2. CASE OnIntent
    BY <2>2, Approves DEF Life!Next
  <2>3. CASE \E p \in placing : Place(p)
    BY <2>3, Enters DEF Life!Next
  <2>4. CASE Next /\ ~OnSignal /\ ~OnIntent /\ ~\E p \in placing : Place(p)
    <3>1. UNCHANGED <<asked, signed, entered>>
      BY <2>4, Others
    <3> QED
      BY <3>1 DEF Sent
  <2>5. CASE UNCHANGED vars
    BY <2>5 DEF Sent, vars, brokerVars, historyVars
  <2> QED
    BY <2>1, <2>2, <2>3, <2>4, <2>5
<1> QED
  BY <1>1, <1>2, PathInvariance, PTL DEF Spec, EntersOnce, Life!Spec, Sent

-----------------------------------------------------------------------------
(* The one-process demo: where the pump may be while what is unread.  An approval waits for execution;
   nothing is on its way to the broker, and no decision to execution. *)
Deciding == \E i \in DOMAIN log["decisions"] : i > cursor[<<"execution", "decisions">>] /\ log["decisions"][i].lots > 0
Quiet == placing = {} /\ ~Unread(<<"execution", "decisions">>)

PumpRest ==
    /\ sched = AtRest => Ready = {}
    /\ sched <= 0 => ~owner /\ Quiet
    /\ reading # NoAccount => sched = AtAccount
    /\ Unread(<<"risk", "account">>) => sched <= 3 /\ ~owner /\ Quiet
    /\ Unread(<<"lifecycle", "trades">>) => sched <= 1 /\ ~owner /\ Quiet

(* The stage is the last one published, and a service believes the last one it read. *)
ViewsFollow ==
    /\ log["stages"] # <<>> /\ log["stages"][Len(log["stages"])] = stage
    /\ \A v \in Viewers :
          view[v] = IF cursor[<<v, "stages">>] = 0 THEN None ELSE log["stages"][cursor[<<v, "stages">>]]

(* What is at the broker is in the journal as sending, pending or open. *)
Known == \A s \in Live : orders[s] \in {"sending", "pending", "open"}

HaltKept ==
    gate.halted # Never =>
        /\ placing = {} /\ ~Deciding
        /\ Unread(<<"execution", "halts">>) \/ Live = {}

Exempted == Exempt("sending") \union Exempt("refused") \union Exempt("restart")
Underway == Live \union {p.signal : p \in placing}
DemotionKept ==
    stage = "shadow" =>
        /\ ~owner => /\ ~Deciding
                     /\ view["risk"] = "live" => Unread(<<"risk", "stages">>) /\ sched \in {1, 2}
        /\ Unread(<<"execution", "control">>) \/ Underway \subseteq Exempted

QInv == PumpRest /\ ViewsFollow /\ HaltKept /\ DemotionKept

-----------------------------------------------------------------------------
(* Known, in both modes. *)
LEMMA EndedDead ==
    ASSUME IInv, NEW s \in Signals
    PROVE  Ended(s).state \notin {"pending", "open"}
<1>1. broker[s] = Nothing \/ DOMAIN broker[s] = {"state", "lots"}
  BY DEF IInv, Shapes
<1>2. "state" \in DOMAIN broker[s]
  BY <1>1 DEF Nothing
<1>3. Ended(s).state = IF broker[s].state = "pending" THEN "cancelled" ELSE "closed"
  BY <1>2 DEF Ended
<1> QED
  BY <1>3

LEMMA KnownStays ==
    ASSUME Known, broker' = broker, orders' = orders
    PROVE  Known'
  BY DEF Known, Live

LEMMA KnownStep == IInv /\ PInv /\ Known /\ [Next]_vars => Known'
<1> SUFFICES ASSUME IInv, PInv, Known, [Next]_vars PROVE Known'
  OBVIOUS
<1>0. DOMAIN orders = Signals /\ DOMAIN broker = Signals
  BY DEF IInv, Shapes
<1>1. CASE OnHalt
  <2>1. /\ broker' = [s \in Signals |-> IF s \in Live THEN Ended(s) ELSE broker[s]]
        /\ orders' = [s \in Signals |-> IF broker[s].state = "pending" /\ orders[s] = "pending"
                                        THEN "cancelled" ELSE orders[s]]
    BY <1>1 DEF OnHalt
  <2>2. Live' = {}
    BY <2>1, EndedDead DEF Live
  <2> QED
    BY <2>2 DEF Known
<1>2. CASE OnControl
  <2> DEFINE pending == {s \in Signals : orders[s] = "pending"}
             filled == {s \in pending : broker[s].state # "pending"}
             closed == IF filled = {} THEN {s \in Signals : orders[s] = "open"} ELSE {}
             ended == (pending \ filled) \union (closed \intersect Live)
  <2>1. /\ broker' = [s \in Signals |-> IF s \in ended THEN Ended(s) ELSE broker[s]]
        /\ orders' = [s \in Signals |-> IF s \in pending \ filled THEN "cancelled" ELSE orders[s]]
    BY <1>2 DEF OnControl
  <2>2. pending \ filled \subseteq ended
    OBVIOUS
  <2> HIDE DEF pending, filled, closed, ended
  <2>3. ASSUME NEW s \in Live' PROVE s \in Live /\ s \notin ended /\ s \in Signals
    BY <2>1, EndedDead DEF Live
  <2> QED
    BY <2>1, <2>2, <2>3 DEF Known
<1>3. CASE OnDecision
  <2>1. broker' = broker /\ \A s \in Signals : orders'[s] = orders[s] \/ orders'[s] = "sending"
    BY <1>0, <1>3 DEF OnDecision, brokerVars
  <2> QED
    BY <2>1 DEF Known, Live
<1>4. CASE \E p \in placing : Place(p)
  <2>1. PICK p \in placing : Place(p)
    BY <1>4
  <2>2. orders' = orders /\ p.signal \in Signals /\ orders[p.signal] = "sending"
    BY <2>1 DEF Place, PInv, Backed
  <2>3. \A s \in Signals : s # p.signal => broker'[s] = broker[s]
    BY <1>0, <2>1 DEF Place, brokerVars
  <2> QED
    BY <2>2, <2>3 DEF Known, Live
<1>5. CASE \E p \in placing : Acked(p)
  <2>1. broker' = broker /\ \A s \in Signals : orders'[s] \in {orders[s], "pending", "open"}
    BY <1>0, <1>5 DEF Acked, brokerVars
  <2> QED
    BY <2>1 DEF Known, Live
<1>6. CASE Cycle
  <2>1. broker' = broker /\ orders' = [s \in Signals |-> IF s \in Following THEN Journalled(s) ELSE orders[s]]
    BY <1>6 DEF Cycle, brokerVars
  <2>2. \A s \in Live : Journalled(s) \in {"pending", "open"}
    BY DEF Live, Journalled, Nothing
  <2> QED
    BY <2>1, <2>2 DEF Known, Live
<1>7. CASE Broker
  <2>1. PICK s \in Signals : Fills(s) \/ Stopped(s)
    BY <1>7 DEF Broker
  <2>2. orders' = orders /\ s \in Live /\ \A q \in Signals : q # s => broker'[q] = broker[q]
    BY <1>0, <2>1 DEF Fills, Stopped, execVars, Live
  <2> QED
    BY <2>2 DEF Known, Live
<1>8. CASE Next /\ ~OnHalt /\ ~OnControl /\ ~OnDecision /\ ~Cycle /\ ~Broker /\ ~\E p \in placing : Place(p) \/ Acked(p)
  <2>1. CASE PumpMoves \/ MinuteMoves \/ Tick \/ Lifecycle \/ Restarts
    BY <2>1, KnownStays DEF PumpMoves, MinuteMoves, Tick, Lifecycle, OnTrade, Hourly, OwnerStops, Restarts, Restart,
                            RestartAll, execVars, brokerVars
  <2>2. CASE Engine \/ Allocator \/ Risk
    BY <2>2, KnownStays DEF Engine, Allocator, Risk, OnStage, Emit, AllocatorOnAccount, OnSignal, RiskOnAccount, OnIntent,
                            execVars, brokerVars
  <2>3. CASE ExecutionOnIntent \/ PublishAccount
    BY <2>3, KnownStays DEF ExecutionOnIntent, PublishAccount, execVars, brokerVars
  <2> QED
    BY <1>8, <2>1, <2>2, <2>3 DEF Next, Execution
<1>9. CASE UNCHANGED vars
  BY <1>9, KnownStays DEF vars, execVars, brokerVars
<1> QED
  BY <1>1, <1>2, <1>3, <1>4, <1>5, <1>6, <1>7, <1>8, <1>9

-----------------------------------------------------------------------------
(* Whose turn it is when the pump delivers. *)
LEMMA TurnsOf ==
    ASSUME NEW i \in 1..12
    PROVE  /\ Rounds[i] = <<"lifecycle", "trades">> => i = 1
           /\ Rounds[i] = <<"risk", "stages">> => i = 2
           /\ Rounds[i] = <<"risk", "account">> => i = 3
           /\ Rounds[i] = <<"risk", "intents">> => i = 4
  BY DEF Rounds

LEMMA TurnsAre ==
    /\ Rounds[1] = <<"lifecycle", "trades">> /\ Rounds[2] = <<"risk", "stages">>
    /\ Rounds[3] = <<"risk", "account">> /\ Rounds[8] = <<"execution", "halts">>
    /\ Rounds[9] = <<"execution", "control">> /\ Rounds[11] = <<"execution", "decisions">>
    /\ DOMAIN Rounds = 1..12
  BY DEF Rounds

LEMMA PumpDelivers ==
    ASSUME PInv, mode = "pump", PumpRest, NEW r \in Readers, Delivers(r)
    PROVE  /\ sched \in 1..12 /\ sched # AtRest /\ Unread(r)
           /\ owner \/ (Rounds[sched] = r /\ placing = {})
           /\ DOMAIN cursor = Readers /\ cursor' = [cursor EXCEPT ![r] = cursor[r] + 1]
<1>1. Unread(r) /\ (owner \/ (sched \in DOMAIN Rounds /\ Rounds[sched] = r /\ placing = {}))
  BY DEF Delivers
<1>2. sched \in AtAccount..12
  BY ReadersOfStreams DEF PInv, ClockOK
<1>3. owner => ~(sched <= 0)
  BY DEF PumpRest
<1>4. sched \in 1..12
  BY <1>1, <1>2, <1>3, TurnsAre DEF AtAccount
<1> QED
  BY <1>1, <1>4 DEF AtRest, Delivers, PInv, BusOK

(* What a reader has before it and after a step. *)
Reads == cursor' = cursor \/ \E r \in Readers : Delivers(r)

LEMMA CursorStep ==
    ASSUME BusOK, Reads, NEW q \in Readers
    PROVE  cursor[q] \in Nat /\ cursor'[q] \in {cursor[q], cursor[q] + 1} /\ Len(log[q[2]]) \in Nat
<1>1. cursor[q] \in 0..Len(log[q[2]]) /\ log[q[2]] \in Seq(Msg[q[2]]) /\ DOMAIN cursor = Readers
  BY ReadersOfStreams DEF BusOK
<1>2. cursor[q] \in Nat /\ Len(log[q[2]]) \in Nat
  BY <1>1
<1>3. cursor'[q] \in {cursor[q], cursor[q] + 1}
  BY <1>1 DEF Reads, Delivers
<1> QED
  BY <1>2, <1>3

LEMMA UnreadStays ==
    ASSUME BusOK, Reads, NEW q \in Readers, log'[q[2]] = log[q[2]], Unread(q)'
    PROVE  Unread(q)
<1>1. cursor[q] \in Nat /\ cursor'[q] \in {cursor[q], cursor[q] + 1} /\ Len(log[q[2]]) \in Nat
  BY CursorStep
<1> QED
  BY <1>1 DEF Unread

LEMMA UnreadKept ==
    ASSUME BusOK, Grows, NEW q \in Readers, cursor'[q] = cursor[q], Unread(q)
    PROVE  Unread(q)'
<1>1. /\ q[2] \in Streams /\ log[q[2]] \in Seq(Msg[q[2]]) /\ cursor[q] \in 0..Len(log[q[2]])
      /\ log'[q[2]] \in Seq(Msg[q[2]]) /\ Len(log[q[2]]) <= Len(log'[q[2]])
  BY ReadersOfStreams DEF BusOK, Grows
<1>2. Len(log[q[2]]) \in Nat /\ Len(log'[q[2]]) \in Nat
  BY <1>1
<1> QED
  BY <1>1, <1>2 DEF Unread

LEMMA DecidingStays ==
    ASSUME BusOK, Reads, log'["decisions"] = log["decisions"], Deciding'
    PROVE  Deciding
<1>1. <<"execution", "decisions">> \in Readers
  BY AreReaders
<1>2. /\ cursor[<<"execution", "decisions">>] \in Nat
      /\ cursor'[<<"execution", "decisions">>]
            \in {cursor[<<"execution", "decisions">>], cursor[<<"execution", "decisions">>] + 1}
  BY <1>1, CursorStep
<1>3. log["decisions"] \in Seq(Decision)
  BY Kinds DEF BusOK, Streams
<1>4. PICK i \in DOMAIN log["decisions"] :
         i > cursor'[<<"execution", "decisions">>] /\ log["decisions"][i].lots > 0
  BY DEF Deciding
<1>5. i \in Nat
  BY <1>3
<1>6. i > cursor[<<"execution", "decisions">>]
  BY <1>2, <1>4, <1>5
<1> QED
  BY <1>4, <1>6 DEF Deciding

LEMMA NothingDecided ==
    ASSUME BusOK, ~Unread(<<"execution", "decisions">>)
    PROVE  ~Deciding
<1>1. <<"execution", "decisions">> \in Readers
  BY AreReaders
<1>2. cursor[<<"execution", "decisions">>] \in 0..Len(log["decisions"]) /\ log["decisions"] \in Seq(Decision)
  BY <1>1, Kinds DEF BusOK, Streams
<1>3. ~(cursor[<<"execution", "decisions">>] < Len(log["decisions"])) /\ Len(log["decisions"]) \in Nat
  BY <1>2 DEF Unread
<1>4. \A i \in DOMAIN log["decisions"] : i \in 1..Len(log["decisions"])
  BY <1>2
<1> QED
  BY <1>2, <1>3, <1>4 DEF Deciding

(* The parts of QInv when a step leaves alone what they are about. *)
LEMMA RestStays ==
    ASSUME PInv, mode = "pump", PumpRest, Reads,
           sched' = sched, owner' = owner, reading' = reading,
           log'["account"] = log["account"], log'["trades"] = log["trades"], log'["decisions"] = log["decisions"],
           placing = {} => placing' = {},
           cursor' = cursor => log' = log \/ sched # AtRest
    PROVE  PumpRest'
<1>0. /\ BusOK
      /\ <<"risk", "account">> \in Readers /\ <<"lifecycle", "trades">> \in Readers
      /\ <<"execution", "decisions">> \in Readers
  BY AreReaders DEF PInv
<1>1. Quiet => Quiet'
  <2>1. Unread(<<"execution", "decisions">>)' => Unread(<<"execution", "decisions">>)
    BY <1>0, UnreadStays
  <2> QED
    BY <2>1 DEF Quiet
<1>2. Unread(<<"risk", "account">>)' => Unread(<<"risk", "account">>)
  BY <1>0, UnreadStays
<1>3. Unread(<<"lifecycle", "trades">>)' => Unread(<<"lifecycle", "trades">>)
  BY <1>0, UnreadStays
<1>4. sched = AtRest => Ready' = Ready
  <2>1. CASE cursor' = cursor
    BY <2>1 DEF Ready, Unread
  <2>2. CASE \E r \in Readers : Delivers(r)
    BY <2>2, PumpDelivers
  <2> QED
    BY <2>1, <2>2 DEF Reads
<1> QED
  BY <1>1, <1>2, <1>3, <1>4 DEF PumpRest

LEMMA ViewsStay ==
    ASSUME ViewsFollow, stage' = stage, view' = view, log'["stages"] = log["stages"],
           \A v \in Viewers : cursor'[<<v, "stages">>] = cursor[<<v, "stages">>]
    PROVE  ViewsFollow'
  BY DEF ViewsFollow

LEMMA HaltStays ==
    ASSUME HaltKept, gate'.halted = gate.halted, placing = {} => placing' = {}, Deciding' => Deciding,
           Unread(<<"execution", "halts">>) => Unread(<<"execution", "halts">>)', Live = {} => Live' = {}
    PROVE  HaltKept'
  BY DEF HaltKept

LEMMA DemotionStays ==
    ASSUME DemotionKept, stage' = stage, owner' = owner, sched' = sched, view'["risk"] = view["risk"],
           Deciding' => Deciding,
           Unread(<<"risk", "stages">>) => Unread(<<"risk", "stages">>)',
           Unread(<<"execution", "control">>) => Unread(<<"execution", "control">>)',
           Underway' \subseteq Underway, slipped' = slipped
    PROVE  DemotionKept'
  BY DEF DemotionKept, Exempted, Exempt

LEMMA OtherCursors ==
    ASSUME BusOK, NEW r \in Readers, Delivers(r), NEW q \in Readers, q # r
    PROVE  cursor'[q] = cursor[q]
  BY DEF BusOK, Delivers

-----------------------------------------------------------------------------
(* The scheduler. *)
LEMMA PumpMovesKeeps ==
    ASSUME IInv, PInv, mode = "pump", QInv, PumpMoves
    PROVE  QInv'
<1> DEFINE ahead == {i \in Ready : i > sched}
<1>1. /\ sched \in DOMAIN Rounds /\ placing = {} /\ sched \notin Ready
      /\ sched' = IF ahead # {} THEN Min(ahead) ELSE IF Ready # {} THEN Min(Ready) ELSE AtRest
      /\ owner' = (owner /\ Ready # {})
      /\ UNCHANGED <<log, cursor, stage, view, gate, placing, broker, reading, slipped>>
  BY DEF PumpMoves, busVars, riskVars, execVars, brokerVars
<1>2. /\ Ready \in SUBSET Nat /\ ahead \in SUBSET Nat /\ Ready \subseteq 1..12 /\ sched \in 1..12
      /\ ahead \subseteq Ready
  BY <1>1, TurnsAre DEF Ready
<1>3. /\ Unread(<<"risk", "account">>) <=> 3 \in Ready
      /\ Unread(<<"lifecycle", "trades">>) <=> 1 \in Ready
      /\ Unread(<<"risk", "stages">>) <=> 2 \in Ready
      /\ Unread(<<"execution", "decisions">>) <=> 11 \in Ready
  BY TurnsAre DEF Ready
<1>4. Ready' = Ready /\ \A r \in Readers : Unread(r)' <=> Unread(r)
  BY <1>1 DEF Ready, Unread
<1>5. Deciding' <=> Deciding
  BY <1>1 DEF Deciding
<1>6. Quiet' <=> Quiet
  BY <1>1, <1>4, AreReaders DEF Quiet
<1>7. reading = NoAccount
  BY <1>2 DEF QInv, PumpRest, AtAccount
<1>8. ahead # {} => sched' \in ahead /\ \A i \in ahead : sched' <= i
  <2> HIDE DEF ahead
  <2> QED
    BY <1>1, <1>2, MinOfNats
<1>9. Ready # {} => sched' \in Ready /\ owner' = owner
  <2>1. owner \in BOOLEAN
    BY DEF PInv, ClockOK
  <2>2. Ready # {} => sched' \in Ready
    <3> HIDE DEF ahead
    <3> QED
      BY <1>1, <1>2, <1>8, MinOfNats
  <2> QED
    BY <1>1, <2>1, <2>2
<1>10. Ready = {} => sched' = AtRest /\ owner' = FALSE
  BY <1>1, <1>2
<1>11. PumpRest'
  <2>1. CASE Ready = {}
    <3>1. Quiet
      BY <1>1, <1>3, <2>1 DEF Quiet
    <3>2. ~Unread(<<"risk", "account">>)' /\ ~Unread(<<"lifecycle", "trades">>)'
      BY <1>3, <1>4, <2>1, AreReaders
    <3> QED
      BY <1>1, <1>4, <1>6, <1>7, <1>10, <2>1, <3>1, <3>2 DEF PumpRest
  <2>2. CASE Ready # {}
    <3>1. sched' \in 1..12 /\ owner' = owner
      BY <1>2, <1>9, <2>2
    <3>2. Unread(<<"risk", "account">>) => sched' <= 3
      <4>1. SUFFICES ASSUME 3 \in Ready PROVE sched' <= 3
        BY <1>3
      <4>2. sched <= 3 /\ sched # 3
        BY <1>1, <1>3, <4>1 DEF QInv, PumpRest
      <4>3. 3 \in ahead
        BY <1>2, <4>1, <4>2
      <4> QED
        BY <1>8, <4>3
    <3>3. ~Unread(<<"lifecycle", "trades">>)
      BY <1>1, <1>2, <1>3 DEF QInv, PumpRest
    <3> QED
      BY <1>1, <1>4, <1>6, <1>7, <3>1, <3>2, <3>3, AreReaders DEF QInv, PumpRest, AtRest
  <2> QED
    BY <2>1, <2>2
<1>12. ViewsFollow' /\ HaltKept'
  <2>1. Live' = Live
    BY <1>1 DEF Live
  <2> QED
    BY <1>1, <1>4, <1>5, <2>1, AreReaders DEF QInv, ViewsFollow, HaltKept
<1>13. DemotionKept'
  <2>1. Underway' = Underway /\ Exempted' = Exempted
    BY <1>1 DEF Underway, Live, Exempted, Exempt
  <2>2. CASE Ready # {}
    <3>1. owner' = owner
      BY <1>9, <2>2
    <3>2. Unread(<<"risk", "stages">>) /\ sched \in {1, 2} => sched' \in {1, 2}
      <4>1. SUFFICES ASSUME 2 \in Ready, sched \in {1, 2} PROVE sched' \in {1, 2}
        BY <1>3
      <4>2. sched = 1
        BY <1>1, <4>1
      <4>3. 2 \in ahead
        BY <4>1, <4>2
      <4>4. sched' \in Nat /\ sched' <= 2 /\ sched' > 1
        BY <1>2, <1>8, <4>2, <4>3
      <4> QED
        BY <4>4
    <3>3. <<"risk", "stages">> \in Readers
      BY AreReaders DEF Viewers
    <3> QED
      BY <1>1, <1>4, <1>5, <2>1, <3>1, <3>2, <3>3, AreReaders DEF QInv, DemotionKept
  <2>3. CASE Ready = {}
    <3>1. ~Deciding
      BY <1>3, <2>3, NothingDecided DEF PInv
    <3>2. stage = "shadow" => view["risk"] # "live"
      <4> DEFINE c == cursor[<<"risk", "stages">>]
      <4>1. <<"risk", "stages">> \in Readers /\ "risk" \in Viewers
        BY AreReaders DEF Viewers
      <4>2. c \in 0..Len(log["stages"]) /\ log["stages"] \in Seq(Stage)
        BY <4>1, Kinds DEF PInv, BusOK, Streams
      <4>3. c = Len(log["stages"])
        BY <1>3, <2>3, <4>2 DEF Unread
      <4> HIDE DEF c
      <4>4. view["risk"] = IF c = 0 THEN None ELSE log["stages"][c]
        BY <4>1 DEF QInv, ViewsFollow, c
      <4> QED
        BY <4>3, <4>4 DEF QInv, ViewsFollow, None
    <3> QED
      BY <1>1, <1>4, <1>5, <2>1, <3>1, <3>2, AreReaders DEF QInv, DemotionKept
  <2> QED
    BY <2>2, <2>3
<1> QED
  BY <1>11, <1>12, <1>13 DEF QInv

LEMMA MinuteKeeps ==
    ASSUME IInv, PInv, mode = "pump", QInv, MinuteMoves
    PROVE  QInv'
<1>1. /\ (sched = AtRest /\ sched' = AtAccount) \/ (sched = AtSignals /\ sched' = AtHourly)
      /\ UNCHANGED <<log, cursor, owner, stage, view, gate, placing, broker, reading, slipped>>
  BY DEF MinuteMoves, busVars, riskVars, execVars, brokerVars
<1>2. \A r \in Readers : Unread(r)' <=> Unread(r)
  BY <1>1 DEF Unread
<1>3. (Deciding' <=> Deciding) /\ (Quiet' <=> Quiet)
  BY <1>1, <1>2, AreReaders DEF Deciding, Quiet
<1>4. /\ sched \in {0, -2} /\ sched' \in {-3, -1} /\ AtRest = 0 /\ AtAccount = -3
  BY <1>1 DEF AtRest, AtAccount, AtSignals, AtHourly
<1>5. PumpRest'
  BY <1>1, <1>2, <1>3, <1>4, AreReaders DEF QInv, PumpRest
<1>6. ViewsFollow' /\ HaltKept' /\ DemotionKept'
  <2>1. Live' = Live /\ Underway' = Underway /\ Exempted' = Exempted
    BY <1>1 DEF Live, Underway, Exempted, Exempt
  <2>2. sched \notin {1, 2}
    BY <1>4
  <2> QED
    BY <1>1, <1>2, <1>3, <2>1, <2>2, AreReaders DEF QInv, ViewsFollow, HaltKept, DemotionKept
<1> QED
  BY <1>5, <1>6 DEF QInv

(* The steps that touch none of what QInv is about. *)
LEMMA IdleKeeps ==
    ASSUME PInv, Grows, mode = "pump", QInv,
           UNCHANGED <<sched, owner, stage, view, gate, reading, slipped>>,
           \A u \in Streams : u \notin {"signals", "intents"} => log'[u] = log[u],
           \/ cursor' = cursor
           \/ \E r \in {<<"allocator", "account">>, <<"allocator", "signals">>, <<"execution", "intents">>} : Delivers(r),
           cursor' = cursor => log' = log \/ sched # AtRest,
           Live' \subseteq Live, Underway' \subseteq Underway, placing = {} => placing' = {}
    PROVE  QInv'
<1>1. Reads
  BY AreReaders DEF Reads
<1>2. /\ log'["account"] = log["account"] /\ log'["trades"] = log["trades"] /\ log'["decisions"] = log["decisions"]
      /\ log'["stages"] = log["stages"] /\ log'["halts"] = log["halts"] /\ log'["control"] = log["control"]
  BY DEF Streams
<1>3. PumpRest'
  BY <1>1, <1>2, RestStays DEF QInv
<1>4. ASSUME NEW q \in Readers,
             q \notin {<<"allocator", "account">>, <<"allocator", "signals">>, <<"execution", "intents">>}
      PROVE  cursor'[q] = cursor[q]
  BY <1>4, AreReaders, OtherCursors DEF PInv
<1>5. /\ \A v \in Viewers : cursor'[<<v, "stages">>] = cursor[<<v, "stages">>]
      /\ cursor'[<<"execution", "halts">>] = cursor[<<"execution", "halts">>]
      /\ cursor'[<<"execution", "control">>] = cursor[<<"execution", "control">>]
  BY <1>4, AreReaders
<1>6. /\ Unread(<<"execution", "halts">>) => Unread(<<"execution", "halts">>)'
      /\ Unread(<<"execution", "control">>) => Unread(<<"execution", "control">>)'
      /\ Unread(<<"risk", "stages">>) => Unread(<<"risk", "stages">>)'
  <2>1. "risk" \in Viewers
    BY DEF Viewers
  <2> QED
    BY <1>5, <2>1, AreReaders, UnreadKept DEF PInv
<1>7. Deciding' => Deciding
  BY <1>1, <1>2, DecidingStays DEF PInv
<1>8. ViewsFollow'
  BY <1>2, <1>5, ViewsStay DEF QInv
<1>9. HaltKept'
  BY <1>6, <1>7, HaltStays DEF QInv
<1>10. DemotionKept'
  BY <1>6, <1>7, DemotionStays DEF QInv
<1> QED
  BY <1>3, <1>8, <1>9, <1>10 DEF QInv

LEMMA EmitPumps ==
    ASSUME IInv, PInv, mode = "pump", QInv, NEW s \in Signals, Emit(s)
    PROVE  QInv'
<1>1. /\ UNCHANGED <<cursor, sched, owner, stage, view, gate, placing, broker, reading, slipped>>
      /\ Publish("signals", <<s>>) /\ sched # AtRest
  BY ReadersOfStreams DEF Emit, AtStep, AtSignals, AtRest, riskVars, execVars, brokerVars
<1>2. "signals" \in Streams /\ <<s>> \in Seq(Msg["signals"])
  BY Kinds DEF Streams
<1>3. Grows /\ \A u \in Streams : u # "signals" => log'[u] = log[u]
  BY <1>1, <1>2, Appends DEF PInv
<1>4. Live' = Live /\ Underway' = Underway
  BY <1>1 DEF Live, Underway
<1> QED
  BY <1>1, <1>3, <1>4, IdleKeeps

(* The handlers that keep an account, a size or a proposal, and the market. *)
LEMMA HandlersPump ==
    ASSUME IInv, PInv, mode = "pump", QInv, AllocatorOnAccount \/ ExecutionOnIntent \/ OnSignal
    PROVE  QInv'
<1>1. /\ UNCHANGED <<sched, owner, stage, view, gate, placing, broker, reading, slipped>>
      /\ \E r \in {<<"allocator", "account">>, <<"allocator", "signals">>, <<"execution", "intents">>} : Delivers(r)
  BY DEF AllocatorOnAccount, ExecutionOnIntent, OnSignal, riskVars, execVars, brokerVars
<1>2. sched # AtRest
  BY <1>1, AreReaders, PumpDelivers DEF QInv
<1>3. Live' = Live /\ Underway' = Underway
  BY <1>1 DEF Live, Underway
<1>4. BusOK'
  BY AllocatorKeeps, SizeKeeps, SignalKeeps DEF PInv
<1>5. Grows /\ \A u \in Streams : u \notin {"signals", "intents"} => log'[u] = log[u]
  <2>1. CASE log' = log
    BY <2>1, Unpublished DEF PInv
  <2>2. CASE OnSignal /\ log' # log
    <3> DEFINE m == [signal |-> Message(<<"allocator", "signals">>),
                     lots |-> ProposedLots(Message(<<"allocator", "signals">>), view["allocator"],
                                           account["allocator"].equity),
                     risk |-> BudgetOf(view["allocator"])]
    <3>1. log' = [log EXCEPT !["intents"] = log["intents"] \o <<m>>]
      BY <2>2 DEF OnSignal, Publish
    <3> HIDE DEF m
    <3>2. /\ DOMAIN log = Streams /\ DOMAIN log' = Streams
          /\ \A u \in Streams : log[u] \in Seq(Msg[u]) /\ log'[u] \in Seq(Msg[u])
      BY <1>4 DEF PInv, BusOK
    <3>3. log'["intents"] = log["intents"] \o <<m>> /\ \A u \in Streams : u # "intents" => log'[u] = log[u]
      BY <3>1, <3>2 DEF Streams
    <3>4. Len(log["intents"]) <= Len(log'["intents"])
      <4>1. "intents" \in Streams
        BY DEF Streams
      <4>2. log["intents"] \in Seq(Msg["intents"]) /\ log'["intents"] \in Seq(Msg["intents"])
        BY <3>2, <4>1
      <4>3. Len(log["intents"] \o <<m>>) = Len(log["intents"]) + 1 /\ Len(log["intents"]) \in Nat
        BY <4>2
      <4> QED
        BY <3>3, <4>3
    <3>5. ASSUME NEW u \in Streams PROVE Len(log[u]) <= Len(log'[u])
      <4>1. CASE u = "intents"
        BY <3>4, <4>1
      <4>2. CASE u # "intents"
        <5>1. log'[u] = log[u] /\ log[u] \in Seq(Msg[u])
          BY <3>2, <3>3, <4>2
        <5>2. Len(log[u]) \in Nat
          BY <5>1
        <5> QED
          BY <5>1, <5>2
      <4> QED
        BY <4>1, <4>2
    <3> QED
      BY <3>2, <3>3, <3>5 DEF Grows
  <2>3. log' # log => OnSignal
    BY DEF AllocatorOnAccount, ExecutionOnIntent
  <2> QED
    BY <2>1, <2>2, <2>3
<1> QED
  BY <1>1, <1>2, <1>3, <1>5, IdleKeeps

LEMMA MarketPumps ==
    ASSUME IInv, PInv, mode = "pump", QInv,
           Tick \/ (\E s \in Signals : Fills(s) \/ Stopped(s)) \/ \E p \in placing : Acked(p)
    PROVE  QInv'
<1>1. UNCHANGED <<log, cursor, sched, owner, stage, view, gate, reading, slipped>> /\ placing' \subseteq placing
  BY DEF Tick, Fills, Stopped, Acked, busVars, riskVars, execVars, brokerVars
<1>2. Live' \subseteq Live
  <2>1. CASE broker' = broker
    BY <2>1 DEF Live
  <2>2. CASE \E s \in Signals : Fills(s) \/ Stopped(s)
    <3>1. PICK s \in Signals : Fills(s) \/ Stopped(s)
      BY <2>2
    <3>2. DOMAIN broker = Signals
      BY DEF IInv, Shapes
    <3>3. s \in Live /\ \A q \in Signals : q # s => broker'[q] = broker[q]
      BY <3>1, <3>2 DEF Fills, Stopped, Live
    <3> QED
      BY <3>3 DEF Live
  <2> QED
    BY <2>1, <2>2 DEF Tick, Acked, brokerVars
<1>3. Underway' \subseteq Underway
  BY <1>1, <1>2 DEF Underway
<1>4. Grows
  BY <1>1, Unpublished DEF PInv
<1> QED
  BY <1>1, <1>2, <1>3, <1>4, IdleKeeps

(* A stage is read. *)
LEMMA StagePumps ==
    ASSUME IInv, PInv, mode = "pump", QInv, NEW v \in Viewers, OnStage(v)
    PROVE  QInv'
<1> DEFINE r == <<v, "stages">>
           c == cursor[r]
<1>1. /\ UNCHANGED <<log, sched, owner, stage, gate, placing, broker, reading, slipped>>
      /\ Delivers(r) /\ view' = [view EXCEPT ![v] = log["stages"][c + 1]]
  BY DEF OnStage, Message, execVars, brokerVars
<1>2. r \in Readers /\ <<"risk", "stages">> \in Readers
  BY AreReaders DEF Viewers
<1>3. /\ sched # AtRest /\ (owner \/ Rounds[sched] = r) /\ sched \in 1..12
      /\ cursor' = [cursor EXCEPT ![r] = c + 1] /\ DOMAIN cursor = Readers
  BY <1>1, <1>2, PumpDelivers DEF QInv
<1>4. c \in Nat /\ c + 1 \in Nat /\ c + 1 # 0
  BY <1>2 DEF PInv, BusOK
<1>5. cursor'[r] = c + 1 /\ \A q \in Readers : q # r => cursor'[q] = cursor[q]
  BY <1>2, <1>3
<1>6. Reads
  BY <1>1, <1>2 DEF Reads
<1>7. PumpRest'
  BY <1>1, <1>3, <1>6, RestStays DEF QInv
<1>8. ViewsFollow'
  <2>1. DOMAIN view = Viewers
    BY DEF PInv, KeptOK
  <2>2. \A w \in Viewers : <<w, "stages">> \in Readers /\ (w # v => <<w, "stages">> # r)
    BY AreReaders
  <2> HIDE DEF r, c
  <2>3. ASSUME NEW w \in Viewers
        PROVE  view'[w] = IF cursor'[<<w, "stages">>] = 0 THEN None ELSE log["stages"][cursor'[<<w, "stages">>]]
    <3>1. CASE w = v
      BY <1>1, <1>4, <1>5, <2>1, <3>1 DEF r
    <3>2. CASE w # v
      <4>1. view'[w] = view[w] /\ cursor'[<<w, "stages">>] = cursor[<<w, "stages">>]
        BY <1>1, <1>5, <2>1, <2>2, <3>2
      <4> QED
        BY <4>1 DEF QInv, ViewsFollow
    <3> QED
      BY <3>1, <3>2
  <2> QED
    BY <1>1, <2>3 DEF QInv, ViewsFollow
<1>9. /\ Unread(<<"execution", "halts">>) => Unread(<<"execution", "halts">>)'
      /\ Unread(<<"execution", "control">>) => Unread(<<"execution", "control">>)'
  BY <1>1, <1>5, AreReaders DEF Unread
<1>10. Deciding' => Deciding
  BY <1>1, <1>6, DecidingStays DEF PInv
<1>11. HaltKept'
  BY <1>1, <1>9, <1>10, HaltStays DEF QInv, Live
<1>12. stage = "shadow" /\ ~owner /\ view'["risk"] = "live" => Unread(<<"risk", "stages">>)' /\ sched \in {1, 2}
  <2>1. SUFFICES ASSUME stage = "shadow", ~owner, view'["risk"] = "live"
                 PROVE  Unread(<<"risk", "stages">>)' /\ sched \in {1, 2}
    OBVIOUS
  <2>2. DOMAIN view = Viewers
    BY DEF PInv, KeptOK
  <2>3. CASE v # "risk"
    <3>1. view'["risk"] = view["risk"]
      BY <1>1, <2>2, <2>3
    <3>2. Unread(<<"risk", "stages">>) /\ sched \in {1, 2}
      BY <2>1, <3>1 DEF QInv, DemotionKept
    <3>3. cursor'[<<"risk", "stages">>] = cursor[<<"risk", "stages">>]
      BY <1>2, <1>5, <2>3
    <3> QED
      BY <1>1, <3>2, <3>3 DEF Unread
  <2>4. CASE v = "risk"
    <3>1. sched = 2
      BY <1>3, <2>1, <2>4, TurnsOf
    <3>2. log["stages"][c + 1] = "live"
      BY <1>1, <2>1, <2>2, <2>4
    <3>3. c + 1 # Len(log["stages"])
      BY <2>1, <3>2 DEF QInv, ViewsFollow
    <3>4. c < Len(log["stages"]) /\ Len(log["stages"]) \in Nat
      <4>1. log["stages"] \in Seq(Stage)
        BY Kinds DEF PInv, BusOK, Streams
      <4> QED
        BY <1>1, <4>1 DEF Delivers, Unread
    <3>5. c + 1 < Len(log["stages"])
      BY <1>4, <3>3, <3>4
    <3> QED
      BY <1>1, <1>5, <2>4, <3>1, <3>5 DEF Unread
  <2> QED
    BY <2>3, <2>4
<1>13. DemotionKept'
  <2>1. Underway' = Underway /\ Exempted' = Exempted
    BY <1>1 DEF Underway, Live, Exempted, Exempt
  <2> QED
    BY <1>1, <1>9, <1>10, <1>12, <2>1 DEF QInv, DemotionKept
<1> QED
  BY <1>7, <1>8, <1>11, <1>13 DEF QInv

(* The gate.  It enters a halt when nothing is on its way; what it answers after one, or to a version it
   does not believe in a money stage, is a rejection. *)
LEMMA RiskAccountPumps ==
    ASSUME IInv, PInv, mode = "pump", QInv, RiskOnAccount
    PROVE  QInv'
<1> DEFINE r == <<"risk", "account">>
<1>1. /\ UNCHANGED <<sched, owner, stage, view, placing, broker, reading, slipped>> /\ Delivers(r)
      /\ \/ gate'.halted = time /\ Publish("halts", <<time>>)
         \/ UNCHANGED <<gate, log>>
  <2>1. gate \in [halted : 0..Never, seq : Nat]
    BY DEF PInv, KeptOK
  <2> QED
    BY <2>1 DEF RiskOnAccount, execVars, brokerVars
<1>2. r \in Readers /\ <<"execution", "halts">> \in Readers
  BY AreReaders
<1>3. sched # AtRest /\ Unread(r)
  BY <1>1, <1>2, PumpDelivers DEF QInv
<1>4. Quiet /\ ~owner
  BY <1>3 DEF QInv, PumpRest
<1>5. /\ \A q \in Readers : q # r => cursor'[q] = cursor[q]
      /\ Reads
  BY <1>1, <1>2, OtherCursors DEF PInv, Reads
<1>6. time \in Nat
  BY TradingPathAssumption DEF PInv, ClockOK
<1>7. Grows /\ \A u \in Streams : u # "halts" => log'[u] = log[u]
  <2>1. CASE log' = log
    BY <2>1, Unpublished DEF PInv
  <2>2. CASE Publish("halts", <<time>>)
    <3>1. "halts" \in Streams /\ <<time>> \in Seq(Msg["halts"])
      BY <1>6, Kinds DEF Streams
    <3> QED
      BY <2>2, <3>1, Appends DEF PInv
  <2> QED
    BY <1>1, <2>1, <2>2
<1>8. /\ log'["account"] = log["account"] /\ log'["trades"] = log["trades"] /\ log'["decisions"] = log["decisions"]
      /\ log'["stages"] = log["stages"] /\ log'["control"] = log["control"]
  BY <1>7 DEF Streams
<1>9. PumpRest'
  BY <1>1, <1>3, <1>5, <1>8, RestStays DEF QInv
<1>10. /\ \A v \in Viewers : cursor'[<<v, "stages">>] = cursor[<<v, "stages">>]
       /\ cursor'[<<"execution", "halts">>] = cursor[<<"execution", "halts">>]
       /\ cursor'[<<"execution", "control">>] = cursor[<<"execution", "control">>]
  BY <1>5, AreReaders
<1>11. /\ Unread(<<"execution", "halts">>) => Unread(<<"execution", "halts">>)'
       /\ Unread(<<"execution", "control">>) => Unread(<<"execution", "control">>)'
       /\ Unread(<<"risk", "stages">>) => Unread(<<"risk", "stages">>)'
  <2>1. "risk" \in Viewers
    BY DEF Viewers
  <2> QED
    BY <1>7, <1>10, <2>1, AreReaders, UnreadKept DEF PInv
<1>12. (Deciding' => Deciding) /\ ~Deciding
  BY <1>4, <1>5, <1>8, DecidingStays, NothingDecided DEF PInv, Quiet
<1>13. ViewsFollow'
  BY <1>1, <1>8, <1>10, ViewsStay DEF QInv
<1>14. DemotionKept'
  <2>1. Underway' = Underway
    BY <1>1 DEF Underway, Live
  <2> QED
    BY <1>1, <1>11, <1>12, <2>1, DemotionStays DEF QInv
<1>15. HaltKept'
  <2>1. CASE UNCHANGED <<gate, log>>
    BY <1>1, <1>11, <1>12, <2>1, HaltStays DEF QInv, Live
  <2>2. CASE Publish("halts", <<time>>)
    <3>1. /\ log["halts"] \in Seq(Nat) /\ cursor[<<"execution", "halts">>] \in 0..Len(log["halts"])
          /\ log'["halts"] = log["halts"] \o <<time>>
      BY <1>2, <2>2, Kinds DEF PInv, BusOK, Streams, Publish
    <3>2. Len(log'["halts"]) = Len(log["halts"]) + 1 /\ Len(log["halts"]) \in Nat
      BY <1>6, <3>1
    <3>3. Unread(<<"execution", "halts">>)'
      BY <1>10, <3>1, <3>2 DEF Unread
    <3> QED
      BY <1>1, <1>4, <1>12, <3>3 DEF HaltKept, Quiet
  <2> QED
    BY <1>1, <2>1, <2>2
<1> QED
  BY <1>9, <1>13, <1>14, <1>15 DEF QInv

LEMMA AnswerMoney ==
    ASSUME NEW intent, Answer(intent) > 0
    PROVE  view["risk"] \notin {None, "shadow"}
<1>1. ~(0 > 0)
  OBVIOUS
<1>2. ASSUME view["risk"] \in {None, "shadow"} PROVE FALSE
  <2>1. Snapshot.stage = view["risk"]
    BY DEF Snapshot
  <2>2. Snapshot.stage \notin TRADING_STAGES /\ Snapshot.stage # "demo_only"
    BY <1>2, <2>1 DEF TRADING_STAGES, None
  <2>3. Refused([intent EXCEPT !.signal = SignalOf[@]], Snapshot, gate.halted # Never)
    BY <2>2 DEF Refused
  <2>4. Answer(intent) = 0
    BY <2>3 DEF Answer, Approved
  <2> QED
    BY <1>1, <2>4
<1> QED
  BY <1>2

LEMMA IntentPumps ==
    ASSUME IInv, PInv, mode = "pump", QInv, OnIntent
    PROVE  QInv'
<1> DEFINE r == <<"risk", "intents">>
           lots == Answer(Message(r))
           d == [signal |-> Message(r).signal, lots |-> lots, at |-> time, seq |-> gate.seq + 1,
                 basis |-> {e.id : e \in account["risk"].exposures}]
<1>1. /\ UNCHANGED <<sched, owner, stage, view, placing, broker, reading, slipped>> /\ Delivers(r)
      /\ gate' = [gate EXCEPT !.seq = gate.seq + 1]
      /\ log' = [log EXCEPT !["decisions"] = log["decisions"] \o <<d>>]
  BY DEF OnIntent, Decide, Publish, execVars, brokerVars
<1>2. d.lots = lots
  OBVIOUS
<1>3. lots > 0 => gate.halted = Never /\ view["risk"] \notin {None, "shadow"}
  BY AnswerTells, AnswerMoney
<1> HIDE DEF lots, d
<1>4. r \in Readers /\ <<"execution", "decisions">> \in Readers
  BY AreReaders
<1>5. sched \in 1..12 /\ sched # AtRest /\ (owner \/ Rounds[sched] = r)
  BY <1>1, <1>4, PumpDelivers DEF QInv
<1>6. owner \/ sched = 4
  BY <1>5, TurnsOf
<1>7. /\ \A q \in Readers : q # r => cursor'[q] = cursor[q]
      /\ Reads
  BY <1>1, <1>4, OtherCursors DEF PInv, Reads
<1>8. /\ \A u \in Streams : u # "decisions" => log'[u] = log[u]
      /\ log'["decisions"] = log["decisions"] \o <<d>>
  BY <1>1 DEF PInv, BusOK, Streams
<1>9. gate'.halted = gate.halted
  <2>1. gate \in [halted : 0..Never, seq : Nat]
    BY DEF PInv, KeptOK
  <2> QED
    BY <1>1, <2>1
<1>10. /\ Unread(<<"risk", "account">>)' <=> Unread(<<"risk", "account">>)
       /\ Unread(<<"lifecycle", "trades">>)' <=> Unread(<<"lifecycle", "trades">>)
       /\ Unread(<<"execution", "halts">>)' <=> Unread(<<"execution", "halts">>)
       /\ Unread(<<"execution", "control">>)' <=> Unread(<<"execution", "control">>)
       /\ Unread(<<"risk", "stages">>)' <=> Unread(<<"risk", "stages">>)
       /\ \A v \in Viewers : cursor'[<<v, "stages">>] = cursor[<<v, "stages">>]
       /\ log'["stages"] = log["stages"]
  <2>1. "risk" \in Viewers
    BY DEF Viewers
  <2> QED
    BY <1>7, <1>8, <2>1, AreReaders DEF Unread, Streams
<1>11. PumpRest'
  BY <1>1, <1>5, <1>6, <1>10 DEF QInv, PumpRest
<1>12. ViewsFollow'
  BY <1>1, <1>10, ViewsStay DEF QInv
<1>13. Deciding' => Deciding \/ lots > 0
  <2>1. log["decisions"] \in Seq(Decision)
    BY Kinds DEF PInv, BusOK, Streams
  <2>2. cursor'[<<"execution", "decisions">>] = cursor[<<"execution", "decisions">>]
    BY <1>4, <1>7
  <2>3. ASSUME Deciding' PROVE Deciding \/ lots > 0
    <3>1. PICK i \in DOMAIN log'["decisions"] :
             i > cursor[<<"execution", "decisions">>] /\ log'["decisions"][i].lots > 0
      BY <2>2, <2>3 DEF Deciding
    <3>2. \/ i \in DOMAIN log["decisions"] /\ log'["decisions"][i] = log["decisions"][i]
          \/ log'["decisions"][i] = d
      BY <1>8, <2>1, <3>1, AppendedAt
    <3> QED
      BY <1>2, <3>1, <3>2 DEF Deciding
  <2> QED
    BY <2>3
<1>14. HaltKept'
  <2>1. Live' = Live
    BY <1>1 DEF Live
  <2> QED
    BY <1>1, <1>3, <1>9, <1>10, <1>13, <2>1 DEF QInv, HaltKept
<1>15. DemotionKept'
  <2>1. Underway' = Underway /\ Exempted' = Exempted
    BY <1>1 DEF Underway, Live, Exempted, Exempt
  <2>2. view["risk"] \in {"live", "shadow", None}
    BY DEF PInv, KeptOK, Stage, Viewers
  <2>3. stage = "shadow" /\ ~owner => ~(lots > 0)
    BY <1>3, <1>6, <2>2 DEF QInv, DemotionKept
  <2> QED
    BY <1>1, <1>10, <1>13, <2>1, <2>3 DEF QInv, DemotionKept
<1> QED
  BY <1>11, <1>12, <1>14, <1>15 DEF QInv

(* Execution. *)
LEMMA HaltPumps ==
    ASSUME IInv, PInv, mode = "pump", QInv, OnHalt
    PROVE  QInv'
<1> DEFINE r == <<"execution", "halts">>
<1>1. /\ UNCHANGED <<log, sched, owner, stage, view, gate, placing, reading, slipped>> /\ Delivers(r)
      /\ broker' = [s \in Signals |-> IF s \in Live THEN Ended(s) ELSE broker[s]]
  BY DEF OnHalt, riskVars
<1>2. r \in Readers
  BY AreReaders
<1>3. sched # AtRest
  BY <1>1, <1>2, PumpDelivers DEF QInv
<1>4. (\A q \in Readers : q # r => cursor'[q] = cursor[q]) /\ Reads
  BY <1>1, <1>2, OtherCursors DEF PInv, Reads
<1>5. Live' = {}
  BY <1>1, EndedDead DEF Live
<1>6. Deciding' => Deciding
  BY <1>1, <1>4, DecidingStays DEF PInv
<1>7. /\ Unread(<<"execution", "control">>) => Unread(<<"execution", "control">>)'
      /\ Unread(<<"risk", "stages">>) => Unread(<<"risk", "stages">>)'
      /\ \A v \in Viewers : cursor'[<<v, "stages">>] = cursor[<<v, "stages">>]
  <2>1. "risk" \in Viewers
    BY DEF Viewers
  <2> QED
    BY <1>1, <1>4, <2>1, AreReaders DEF Unread
<1>8. PumpRest'
  BY <1>1, <1>3, <1>4, RestStays DEF QInv
<1>9. ViewsFollow'
  BY <1>1, <1>7, ViewsStay DEF QInv
<1>10. HaltKept'
  BY <1>1, <1>5, <1>6 DEF QInv, HaltKept
<1>11. DemotionKept'
  <2>1. Underway' \subseteq Underway
    BY <1>1, <1>5 DEF Underway
  <2> QED
    BY <1>1, <1>6, <1>7, <2>1, DemotionStays DEF QInv
<1> QED
  BY <1>8, <1>9, <1>10, <1>11 DEF QInv

(* The order to close finds what the journal has as pending or open; what it has as sending, and what a
   refused cancel keeps it from closing, is counted as slipped. *)
LEMMA ControlPumps ==
    ASSUME IInv, PInv, Known, mode = "pump", QInv, OnControl
    PROVE  QInv'
<1> DEFINE r == <<"execution", "control">>
           pending == {s \in Signals : orders[s] = "pending"}
           filled == {s \in pending : broker[s].state # "pending"}
           closed == IF filled = {} THEN {s \in Signals : orders[s] = "open"} ELSE {}
           ended == (pending \ filled) \union (closed \intersect Live)
<1>1. /\ UNCHANGED <<log, sched, owner, stage, view, gate, placing, reading>> /\ Delivers(r)
      /\ broker' = [s \in Signals |-> IF s \in ended THEN Ended(s) ELSE broker[s]]
      /\ slipped' = slipped \union ({s \in Signals : orders[s] = "sending"} \X {"sending"})
                            \union (IF filled = {} THEN {} ELSE ((Live \ pending) \union filled) \X {"refused"})
  BY DEF OnControl, riskVars
<1>2. r \in Readers
  BY AreReaders
<1>3. sched # AtRest
  BY <1>1, <1>2, PumpDelivers DEF QInv
<1>4. (\A q \in Readers : q # r => cursor'[q] = cursor[q]) /\ Reads
  BY <1>1, <1>2, OtherCursors DEF PInv, Reads
<1>5. \A s \in Live' : s \in Live /\ s \notin ended /\ s \in Signals
  <2> HIDE DEF ended
  <2> QED
    BY <1>1, EndedDead DEF Live
<1>6. Deciding' => Deciding
  BY <1>1, <1>4, DecidingStays DEF PInv
<1>7. /\ Unread(<<"execution", "halts">>) => Unread(<<"execution", "halts">>)'
      /\ Unread(<<"risk", "stages">>) => Unread(<<"risk", "stages">>)'
      /\ \A v \in Viewers : cursor'[<<v, "stages">>] = cursor[<<v, "stages">>]
  <2>1. "risk" \in Viewers
    BY DEF Viewers
  <2> QED
    BY <1>1, <1>4, <2>1, AreReaders DEF Unread
<1>8. PumpRest'
  BY <1>1, <1>3, <1>4, RestStays DEF QInv
<1>9. ViewsFollow'
  BY <1>1, <1>7, ViewsStay DEF QInv
<1>10. HaltKept'
  <2>1. Live = {} => Live' = {}
    BY <1>5
  <2> QED
    BY <1>1, <1>6, <1>7, <2>1, HaltStays DEF QInv
<1>11. ASSUME NEW s \in Underway' PROVE s \in Exempted'
  <2>1. CASE orders[s] = "sending" /\ s \in Signals
    BY <1>1, <2>1 DEF Exempted, Exempt
  <2>2. CASE s \in Live' /\ orders[s] # "sending"
    <3>1. s \in Live /\ s \notin ended /\ s \in Signals /\ orders[s] \in {"pending", "open"}
      BY <1>5, <2>2 DEF Known
    <3>2. filled # {} /\ s \in (Live \ pending) \union filled
      BY <3>1
    <3>3. <<s, "refused">> \in slipped'
      <4> HIDE DEF pending, filled
      <4> QED
        BY <1>1, <3>2
    <3> QED
      BY <3>1, <3>3 DEF Exempted, Exempt
  <2>3. s \in Live' \/ (orders[s] = "sending" /\ s \in Signals)
    BY <1>1 DEF Underway, PInv, Backed
  <2>4. s \in Live' => s \in Signals
    BY <1>5
  <2> QED
    BY <2>1, <2>2, <2>3, <2>4
<1>12. DemotionKept'
  BY <1>1, <1>6, <1>7, <1>11 DEF QInv, DemotionKept
<1> QED
  BY <1>8, <1>9, <1>10, <1>12 DEF QInv

LEMMA DecisionPumps ==
    ASSUME IInv, PInv, mode = "pump", QInv, OnDecision
    PROVE  QInv'
<1> DEFINE r == <<"execution", "decisions">>
           d == Message(r)
           sends == Verified(d) /\ d.lots <= intents[d.signal]
           p == [signal |-> d.signal, lots |-> d.lots, decided |-> d.at,
                 verified |-> time, basis |-> d.basis, sent |-> FALSE]
<1>1. /\ UNCHANGED <<log, sched, owner, stage, view, gate, broker, reading>> /\ Delivers(r)
      /\ sends => /\ placing' = placing \union {p}
                  /\ owner => slipped' = slipped \union ({d.signal} \X {"sending"})
                  /\ ~owner => slipped' = slipped
      /\ ~sends => placing' = placing /\ slipped' = slipped
  BY DEF OnDecision, Slip, riskVars, brokerVars
<1>2. r \in Readers
  BY AreReaders
<1>3. sched \in 1..12 /\ sched # AtRest /\ Unread(r)
  BY <1>1, <1>2, PumpDelivers DEF QInv
<1>4. (\A q \in Readers : q # r => cursor'[q] = cursor[q]) /\ Reads
  BY <1>1, <1>2, OtherCursors DEF PInv, Reads
<1>5. d \in Decision /\ (d.lots > 0 => Deciding)
  <2> DEFINE c == cursor[r]
  <2>1. log["decisions"] \in Seq(Decision) /\ c \in 0..Len(log["decisions"]) /\ c < Len(log["decisions"])
    BY <1>2, <1>3, Kinds DEF PInv, BusOK, Streams, Unread
  <2>2. c \in Nat /\ c + 1 \in DOMAIN log["decisions"] /\ c + 1 > c
    BY <2>1
  <2>3. d = log["decisions"][c + 1]
    BY DEF Message
  <2> HIDE DEF d, c
  <2>4. d \in Decision
    BY <2>1, <2>2, <2>3
  <2>5. d.lots > 0 => \E i \in DOMAIN log["decisions"] : i > c /\ log["decisions"][i].lots > 0
    BY <2>2, <2>3
  <2> QED
    BY <2>4, <2>5 DEF Deciding, c
<1>6. sends => Deciding
  BY <1>5 DEF Verified
<1>7. d.signal \in Signals /\ p.signal = d.signal
  BY <1>5 DEF Decision
<1> HIDE DEF d, sends, p
<1>8. Deciding' => Deciding
  BY <1>1, <1>4, DecidingStays DEF PInv
<1>9. /\ Unread(<<"execution", "halts">>) <=> Unread(<<"execution", "halts">>)'
      /\ Unread(<<"execution", "control">>) <=> Unread(<<"execution", "control">>)'
      /\ Unread(<<"risk", "stages">>) <=> Unread(<<"risk", "stages">>)'
      /\ Unread(<<"risk", "account">>) <=> Unread(<<"risk", "account">>)'
      /\ Unread(<<"lifecycle", "trades">>) <=> Unread(<<"lifecycle", "trades">>)'
      /\ \A v \in Viewers : cursor'[<<v, "stages">>] = cursor[<<v, "stages">>]
  <2>1. "risk" \in Viewers
    BY DEF Viewers
  <2> QED
    BY <1>1, <1>4, <2>1, AreReaders DEF Unread
<1>10. PumpRest'
  BY <1>1, <1>3, <1>9 DEF QInv, PumpRest, Quiet
<1>11. ViewsFollow'
  BY <1>1, <1>9, ViewsStay DEF QInv
<1>12. HaltKept'
  <2>1. Live' = Live
    BY <1>1 DEF Live
  <2> QED
    BY <1>1, <1>6, <1>8, <1>9, <2>1 DEF QInv, HaltKept
<1>13. DemotionKept'
  <2>1. Live' = Live
    BY <1>1 DEF Live
  <2>2. CASE ~sends
    <3>1. Underway' = Underway
      BY <1>1, <2>1, <2>2 DEF Underway
    <3> QED
      BY <1>1, <1>8, <1>9, <2>2, <3>1, DemotionStays DEF QInv
  <2>3. CASE sends
    <3>1. stage = "shadow" => owner
      BY <1>6, <2>3 DEF QInv, DemotionKept
    <3>2. ASSUME owner PROVE d.signal \in Exempted' /\ Exempted \subseteq Exempted'
      BY <1>1, <1>7, <2>3, <3>2 DEF Exempted, Exempt
    <3>3. Underway' \subseteq Underway \union {d.signal}
      BY <1>1, <1>7, <2>1, <2>3 DEF Underway
    <3> QED
      BY <1>1, <1>9, <3>1, <3>2, <3>3 DEF QInv, DemotionKept
  <2> QED
    BY <2>2, <2>3
<1> QED
  BY <1>10, <1>11, <1>12, <1>13 DEF QInv

LEMMA PlacePumps ==
    ASSUME IInv, PInv, mode = "pump", QInv, NEW p \in placing, Place(p)
    PROVE  QInv'
<1> DEFINE q == [p EXCEPT !.sent = TRUE]
<1>1. /\ UNCHANGED <<log, cursor, sched, owner, stage, view, gate, reading, slipped>>
      /\ placing' = (placing \ {p}) \union {q}
      /\ \A s \in Signals : s # p.signal => broker'[s] = broker[s]
  <2>1. DOMAIN broker = Signals
    BY DEF IInv, Shapes
  <2> QED
    BY <2>1 DEF Place, busVars, riskVars, brokerVars
<1>2. DOMAIN p = PlacingFields
  BY DEF IInv, Shapes
<1>3. q.signal = p.signal
  BY <1>2 DEF PlacingFields
<1> HIDE DEF q
<1>4. Live' \subseteq Live \union {p.signal}
  BY <1>1 DEF Live
<1>5. Underway' \subseteq Underway
  BY <1>1, <1>3, <1>4 DEF Underway
<1>6. PumpRest'
  BY <1>1, RestStays DEF QInv, Reads
<1>7. ViewsFollow'
  BY <1>1, ViewsStay DEF QInv
<1>8. HaltKept'
  BY <1>1 DEF QInv, HaltKept
<1>9. DemotionKept'
  <2>1. /\ Unread(<<"risk", "stages">>) => Unread(<<"risk", "stages">>)'
        /\ Unread(<<"execution", "control">>) => Unread(<<"execution", "control">>)'
        /\ Deciding' => Deciding
    BY <1>1 DEF Unread, Deciding
  <2> QED
    BY <1>1, <1>5, <2>1, DemotionStays DEF QInv
<1> QED
  BY <1>6, <1>7, <1>8, <1>9 DEF QInv

(* The account, and the lifecycle: what they publish finds nothing on its way. *)
LEMMA AccountPumps ==
    ASSUME IInv, PInv, mode = "pump", QInv, Cycle \/ PublishAccount
    PROVE  QInv'
<1> DEFINE st == IF Cycle THEN "trades" ELSE "account"
<1>1. /\ UNCHANGED <<cursor, owner, stage, view, gate, placing, broker, slipped>>
      /\ sched = AtAccount
      /\ \/ log' = [log EXCEPT !["trades"] = log["trades"] \o SetToSeq(Ends)] /\ sched' = AtAccount
         \/ /\ log' = [log EXCEPT !["account"] = log["account"] \o <<[reading EXCEPT !.at = time]>>]
            /\ sched' = AtSignals /\ reading' = NoAccount
  BY DEF Cycle, PublishAccount, Publish, AtStep, riskVars, execVars, brokerVars, QInv, PumpRest
<1>2. \A u \in Streams : u \notin {"trades", "account"} => log'[u] = log[u]
  BY <1>1 DEF PInv, BusOK
<1>3. /\ Unread(<<"execution", "halts">>) <=> Unread(<<"execution", "halts">>)'
      /\ Unread(<<"execution", "control">>) <=> Unread(<<"execution", "control">>)'
      /\ Unread(<<"risk", "stages">>) <=> Unread(<<"risk", "stages">>)'
      /\ Unread(<<"execution", "decisions">>) <=> Unread(<<"execution", "decisions">>)'
      /\ log'["stages"] = log["stages"] /\ log'["decisions"] = log["decisions"]
  BY <1>1, <1>2 DEF Unread, Streams
<1>4. (Deciding' <=> Deciding) /\ (Quiet' <=> Quiet)
  BY <1>1, <1>3 DEF Deciding, Quiet
<1>5. ~owner /\ Quiet /\ sched \notin {1, 2}
  BY <1>1 DEF QInv, PumpRest, AtAccount
<1>6. PumpRest'
  BY <1>1, <1>4, <1>5 DEF PumpRest, AtAccount, AtSignals, AtRest
<1>7. ViewsFollow'
  BY <1>1, <1>3, ViewsStay DEF QInv
<1>8. Live' = Live /\ Underway' = Underway /\ Exempted' = Exempted
  BY <1>1 DEF Live, Underway, Exempted, Exempt
<1>9. HaltKept' /\ DemotionKept'
  BY <1>1, <1>3, <1>4, <1>5, <1>8 DEF QInv, HaltKept, DemotionKept
<1> QED
  BY <1>6, <1>7, <1>9 DEF QInv

(* Where a demotion may come: nothing is on its way, or the owner's pump runs. *)
LEMMA LifecycleAt ==
    ASSUME IInv, PInv, mode = "pump", QInv, OnTrade \/ Hourly \/ OwnerStops
    PROVE  /\ UNCHANGED <<view, gate, placing, broker, reading, slipped>>
           /\ cursor' = cursor \/ Delivers(<<"lifecycle", "trades">>)
           /\ \/ UNCHANGED <<stage, log>>
              \/ stage = "live" /\ stage' = "shadow" /\ Flush
           /\ PumpRest'
           /\ \/ ~owner' /\ ~owner /\ Quiet /\ sched' = 1
              \/ owner' /\ stage' = "shadow" /\ Flush
           /\ stage' = stage => sched \notin {1, 2} \/ sched' = sched
<1>1. /\ UNCHANGED <<view, gate, placing, broker, reading, slipped>>
      /\ \/ UNCHANGED <<stage, log>>
         \/ stage = "live" /\ stage' = "shadow" /\ Flush
  BY DEF OnTrade, Hourly, OwnerStops, Demotes, riskVars, execVars, brokerVars
<1>2. /\ log'["account"] = log["account"] /\ log'["trades"] = log["trades"] /\ log'["decisions"] = log["decisions"]
  <2>1. CASE Flush
    <3>1. \A u \in Streams : u \notin {"stages", "control"} => log'[u] = log[u]
      BY <2>1, Flushes DEF PInv
    <3> QED
      BY <3>1 DEF Streams
  <2> QED
    BY <1>1, <2>1
<1>3. CASE OnTrade
  <2> DEFINE r == <<"lifecycle", "trades">>
  <2>1. r \in Readers /\ Delivers(r) /\ owner' = owner /\ sched' = sched
    BY <1>3, AreReaders DEF OnTrade
  <2>2. sched \in 1..12 /\ sched # AtRest /\ Unread(r) /\ Reads
    BY <2>1, PumpDelivers DEF QInv, Reads
  <2>3. ~owner /\ Quiet /\ sched = 1
    BY <2>2 DEF QInv, PumpRest
  <2>4. PumpRest'
    <3>1. cursor' # cursor
      BY <2>1, PumpDelivers DEF QInv, PInv, BusOK
    <3> QED
      BY <1>1, <1>2, <2>1, <2>2, <3>1, RestStays DEF QInv
  <2> QED
    BY <1>1, <2>1, <2>3, <2>4
<1>4. CASE Hourly \/ OwnerStops
  <2>1. cursor' = cursor
    BY <1>4 DEF Hourly, OwnerStops
  <2>2. Unread(<<"risk", "account">>)' = Unread(<<"risk", "account">>)
        /\ Unread(<<"lifecycle", "trades">>)' = Unread(<<"lifecycle", "trades">>)
        /\ Unread(<<"execution", "decisions">>)' = Unread(<<"execution", "decisions">>)
    BY <1>2, <2>1 DEF Unread
  <2>3. Quiet' <=> Quiet
    BY <1>1, <2>2 DEF Quiet
  <2>4. CASE Hourly \/ sched = AtRest
    <3>1. sched \in {AtHourly, AtRest} /\ sched' = 1 /\ owner' \in {owner, FALSE}
      BY <1>4, <2>4 DEF Hourly, OwnerStops, AtStep
    <3>2. sched \in {-1, 0} /\ sched # AtAccount
      BY <3>1 DEF AtHourly, AtRest, AtAccount
    <3>3. ~owner /\ Quiet /\ reading = NoAccount
      BY <3>2 DEF QInv, PumpRest
    <3>4. ~owner'
      BY <3>1, <3>3
    <3>5. PumpRest'
      BY <1>1, <2>3, <3>1, <3>3, <3>4 DEF PumpRest, AtRest
    <3> QED
      BY <1>1, <2>1, <3>1, <3>2, <3>3, <3>4, <3>5
  <2>5. CASE OwnerStops /\ sched # AtRest
    <3>1. placing # {} /\ sched' = sched /\ owner' = TRUE /\ Demotes /\ Flush
      BY <2>5 DEF OwnerStops
    <3>2. ~Quiet
      BY <3>1 DEF Quiet
    <3>3. PumpRest'
      BY <1>1, <2>2, <2>5, <3>1, <3>2 DEF QInv, PumpRest
    <3> QED
      BY <1>1, <2>1, <3>1, <3>3 DEF Demotes
  <2> QED
    BY <1>4, <2>4, <2>5
<1> QED
  BY <1>3, <1>4

LEMMA LifecyclePumps ==
    ASSUME IInv, PInv, mode = "pump", QInv, OnTrade \/ Hourly \/ OwnerStops
    PROVE  QInv'
<1>1. /\ UNCHANGED <<view, gate, placing, broker, reading, slipped>>
      /\ cursor' = cursor \/ Delivers(<<"lifecycle", "trades">>)
      /\ \/ UNCHANGED <<stage, log>>
         \/ stage = "live" /\ stage' = "shadow" /\ Flush
      /\ PumpRest'
      /\ \/ ~owner' /\ ~owner /\ Quiet /\ sched' = 1
         \/ owner' /\ stage' = "shadow" /\ Flush
      /\ stage' = stage => sched \notin {1, 2} \/ sched' = sched
  BY LifecycleAt
<1>2. Reads /\ \A q \in Readers : q # <<"lifecycle", "trades">> => cursor'[q] = cursor[q]
  BY <1>1, AreReaders, OtherCursors DEF PInv, Reads
<1>3. /\ \A v \in Viewers : cursor'[<<v, "stages">>] = cursor[<<v, "stages">>]
      /\ cursor'[<<"execution", "halts">>] = cursor[<<"execution", "halts">>]
      /\ cursor'[<<"execution", "control">>] = cursor[<<"execution", "control">>]
  BY <1>2, AreReaders
<1>4. "risk" \in Viewers /\ <<"risk", "stages">> \in Readers
  BY AreReaders DEF Viewers
<1>5. Live' = Live /\ Underway' = Underway /\ Exempted' = Exempted
  BY <1>1 DEF Live, Underway, Exempted, Exempt
<1>6. CASE UNCHANGED <<stage, log>>
  <2>1. ~Flush
    <3>1. log["control"] \in Seq({"close"})
      BY Kinds DEF PInv, BusOK, Streams
    <3>2. Len(log["control"] \o <<"close">>) = Len(log["control"]) + 1 /\ Len(log["control"]) \in Nat
      BY <3>1
    <3>3. Flush => log'["control"] = log["control"] \o <<"close">>
      BY DEF Flush, Publish2, PInv, BusOK, Streams
    <3> QED
      BY <1>6, <3>2, <3>3
  <2>2. ~owner' /\ ~owner /\ Quiet /\ sched' = 1
    BY <1>1, <2>1
  <2>3. Deciding' => Deciding
    BY <1>2, <1>6, DecidingStays DEF PInv
  <2>4. /\ Unread(<<"execution", "halts">>) => Unread(<<"execution", "halts">>)'
        /\ Unread(<<"execution", "control">>) => Unread(<<"execution", "control">>)'
        /\ Unread(<<"risk", "stages">>) => Unread(<<"risk", "stages">>)'
    BY <1>3, <1>4, <1>6 DEF Unread
  <2>5. ViewsFollow'
    BY <1>1, <1>3, <1>6, ViewsStay DEF QInv
  <2>6. HaltKept'
    BY <1>1, <1>5, <2>3, <2>4, HaltStays DEF QInv
  <2>7. DemotionKept'
    BY <1>1, <1>5, <1>6, <2>2, <2>3, <2>4 DEF QInv, DemotionKept
  <2> QED
    BY <1>1, <2>5, <2>6, <2>7 DEF QInv
<1>7. CASE stage = "live" /\ stage' = "shadow" /\ Flush
  <2>1. /\ log["stages"] \in Seq(Stage) /\ log["control"] \in Seq({"close"})
        /\ \A v \in Viewers : cursor[<<v, "stages">>] \in 0..Len(log["stages"])
        /\ cursor[<<"execution", "control">>] \in 0..Len(log["control"])
    BY AreReaders, Kinds DEF PInv, BusOK, Streams
  <2>2. /\ log'["stages"] = log["stages"] \o <<"shadow">> /\ log'["control"] = log["control"] \o <<"close">>
        /\ log'["decisions"] = log["decisions"] /\ log'["halts"] = log["halts"]
    BY <1>7 DEF Flush, Publish2, PInv, BusOK, Streams
  <2>3. /\ Len(log'["stages"]) = Len(log["stages"]) + 1 /\ Len(log["stages"]) \in Nat
        /\ Len(log'["control"]) = Len(log["control"]) + 1 /\ Len(log["control"]) \in Nat
        /\ log'["stages"][Len(log["stages"]) + 1] = "shadow"
        /\ \A c \in 1..Len(log["stages"]) : log'["stages"][c] = log["stages"][c]
    BY <2>1, <2>2
  <2>4. ViewsFollow'
    <3>1. log'["stages"] # <<>>
      BY <2>3
    <3>2. ASSUME NEW v \in Viewers
          PROVE  view[v] = IF cursor[<<v, "stages">>] = 0 THEN None ELSE log'["stages"][cursor[<<v, "stages">>]]
      <4> DEFINE c == cursor[<<v, "stages">>]
      <4>1. c \in 0..Len(log["stages"]) /\ view[v] = IF c = 0 THEN None ELSE log["stages"][c]
        BY <2>1 DEF QInv, ViewsFollow
      <4> HIDE DEF c
      <4>2. c # 0 => log'["stages"][c] = log["stages"][c]
        BY <2>3, <4>1
      <4>3. view[v] = IF c = 0 THEN None ELSE log'["stages"][c]
        BY <4>1, <4>2
      <4> QED
        BY <4>3 DEF c
    <3> QED
      BY <1>1, <1>3, <1>7, <2>3, <3>1, <3>2 DEF ViewsFollow
  <2>5. Deciding' => Deciding
    BY <1>2, <2>2, DecidingStays DEF PInv
  <2>6. HaltKept'
    <3>1. Unread(<<"execution", "halts">>) => Unread(<<"execution", "halts">>)'
      BY <1>3, <2>2 DEF Unread
    <3> QED
      BY <1>1, <1>5, <2>5, <3>1, HaltStays DEF QInv
  <2>7. Unread(<<"execution", "control">>)' /\ Unread(<<"risk", "stages">>)'
    BY <1>3, <1>4, <2>1, <2>3 DEF Unread
  <2>8. Quiet => ~Deciding
    BY NothingDecided DEF PInv, Quiet
  <2>9. DemotionKept'
    BY <1>1, <2>5, <2>7, <2>8 DEF DemotionKept
  <2> QED
    BY <1>1, <2>4, <2>6, <2>9 DEF QInv
<1> QED
  BY <1>1, <1>6, <1>7

(* A restart: a halt is published again, and what a demoted version has at the broker is lost. *)
LEMMA RestartAllPumps ==
    ASSUME IInv, PInv, mode = "pump", RestartAll
    PROVE  QInv'
<1>1. /\ UNCHANGED <<stage, gate, orders, broker>>
      /\ log' = [st \in Streams |-> CASE st = "stages" -> <<stage>> [] st = "halts" -> HaltAgain
                                        [] OTHER -> <<>>]
      /\ cursor' = [r \in Readers |-> 0]
      /\ sched' = 1 /\ owner' = FALSE
      /\ view' = [v \in Viewers |-> None]
      /\ placing' = {} /\ reading' = NoAccount
      /\ stage = "shadow" => Live \X {"restart"} \subseteq slipped'
  BY DEF RestartAll, Slip, brokerVars
<1>2. /\ log'["account"] = <<>> /\ log'["trades"] = <<>> /\ log'["decisions"] = <<>>
      /\ log'["stages"] = <<stage>> /\ log'["halts"] = HaltAgain
  BY <1>1 DEF Streams
<1>3. \A r \in Readers : cursor'[r] = 0
  BY <1>1
<1>4. Len(<<>>) = 0 /\ ~(0 < 0)
  OBVIOUS
<1>5. /\ ~Unread(<<"risk", "account">>)' /\ ~Unread(<<"lifecycle", "trades">>)'
      /\ ~Unread(<<"execution", "decisions">>)'
  BY <1>2, <1>3, <1>4, AreReaders DEF Unread
<1>6. ~Deciding'
  BY <1>2 DEF Deciding
<1>7. PumpRest'
  BY <1>1, <1>5 DEF PumpRest, AtRest
<1>8. ViewsFollow'
  <2>1. <<stage>> # <<>> /\ <<stage>>[Len(<<stage>>)] = stage
    OBVIOUS
  <2> QED
    BY <1>1, <1>2, <1>3, <2>1, AreReaders DEF ViewsFollow
<1>9. HaltKept'
  <2>1. gate.halted # Never => Unread(<<"execution", "halts">>)'
    <3>1. gate.halted # Never => Len(HaltAgain) = 1
      BY DEF HaltAgain
    <3>2. cursor'[<<"execution", "halts">>] = 0 /\ log'[<<"execution", "halts">>[2]] = HaltAgain /\ 0 < 1
      BY <1>2, <1>3, AreReaders
    <3> QED
      BY <3>1, <3>2 DEF Unread
  <2> QED
    BY <1>1, <1>6, <2>1 DEF HaltKept
<1>10. DemotionKept'
  <2>1. view'["risk"] = None
    BY <1>1 DEF Viewers
  <2>2. stage = "shadow" => Underway' \subseteq Exempted'
    <3>1. Underway' = Live /\ Live \subseteq Signals
      BY <1>1 DEF Underway, Live
    <3> QED
      BY <1>1, <3>1 DEF Exempted, Exempt
  <2> QED
    BY <1>1, <1>6, <2>1, <2>2 DEF DemotionKept, None
<1> QED
  BY <1>7, <1>8, <1>9, <1>10 DEF QInv

(* Every step of the demo keeps QInv. *)
LEMMA InitPumps == Init => Known /\ (mode = "pump" => QInv)
<1> SUFFICES ASSUME Init PROVE Known /\ QInv
  OBVIOUS
<1>1. /\ log = [st \in Streams |-> IF st = "stages" THEN <<"live">> ELSE <<>>]
      /\ cursor = [r \in Readers |-> IF r[2] = "stages" THEN 1 ELSE 0]
      /\ sched = AtRest /\ owner = FALSE /\ stage = "live"
      /\ view = [v \in Viewers |-> "live"] /\ reading = NoAccount
      /\ gate = [halted |-> Never, seq |-> 0] /\ placing = {}
      /\ broker = [s \in Signals |-> Nothing]
  BY DEF Init
<1>2. Live = {}
  BY <1>1 DEF Live, Nothing
<1>3. ASSUME NEW r \in Readers PROVE ~Unread(r)
  <2>1. Len(<<>>) = 0 /\ Len(<<"live">>) = 1 /\ ~(0 < 0) /\ ~(1 < 1)
    OBVIOUS
  <2>2. CASE r[2] = "stages"
    <3>1. log[r[2]] = <<"live">> /\ cursor[r] = 1
      BY <1>1, <2>2, ReadersOfStreams
    <3> QED
      BY <2>1, <3>1 DEF Unread
  <2>3. CASE r[2] # "stages"
    <3>1. log[r[2]] = <<>> /\ cursor[r] = 0
      BY <1>1, <2>3, ReadersOfStreams
    <3> QED
      BY <2>1, <3>1 DEF Unread
  <2> QED
    BY <2>2, <2>3
<1>4. ~Deciding
  <2>1. log["decisions"] = <<>>
    BY <1>1 DEF Streams
  <2> QED
    BY <2>1 DEF Deciding
<1>5. Ready = {}
  <2>1. \A i \in DOMAIN Rounds : Rounds[i] \in Readers
    BY TurnsAre DEF Readers, Rounds
  <2> QED
    BY <1>3, <2>1 DEF Ready
<1>6. PumpRest
  BY <1>1, <1>3, <1>5, AreReaders DEF PumpRest, Quiet, AtRest
<1>7. ViewsFollow
  <2>1. log["stages"] = <<"live">> /\ <<"live">> # <<>> /\ Len(<<"live">>) = 1 /\ <<"live">>[1] = "live"
    BY <1>1 DEF Streams
  <2>2. \A v \in Viewers : cursor[<<v, "stages">>] = 1
    BY <1>1, AreReaders
  <2> QED
    BY <1>1, <2>1, <2>2 DEF ViewsFollow
<1>8. HaltKept /\ DemotionKept
  BY <1>1 DEF HaltKept, DemotionKept
<1> QED
  BY <1>2, <1>6, <1>7, <1>8 DEF Known, QInv

LEMMA StutterPumps == QInv /\ UNCHANGED vars => QInv'
  BY DEF vars, busVars, riskVars, execVars, brokerVars, QInv, PumpRest, Ready, Quiet, Unread, ViewsFollow, HaltKept,
         DemotionKept, Deciding, Live, Underway, Exempted, Exempt

LEMMA StaysPump == mode = "pump" => ~\E service, again : Restart(service, again)
  BY DEF Restart

LEMMA StepPumps == IInv /\ PInv /\ Known /\ mode = "pump" /\ QInv /\ [Next]_vars => QInv'
<1> SUFFICES ASSUME IInv, PInv, Known, mode = "pump", QInv, Next PROVE QInv'
  BY StutterPumps
<1>0. "engine" \in Viewers /\ "allocator" \in Viewers /\ "risk" \in Viewers
  BY DEF Viewers
<1>1. CASE PumpMoves \/ MinuteMoves
  BY <1>1, PumpMovesKeeps, MinuteKeeps
<1>2. CASE Engine
  BY <1>0, <1>2, StagePumps, EmitPumps DEF Engine
<1>3. CASE Allocator
  BY <1>0, <1>3, StagePumps, HandlersPump DEF Allocator
<1>4. CASE Risk
  BY <1>0, <1>4, StagePumps, RiskAccountPumps, IntentPumps DEF Risk
<1>5. CASE Execution
  <2>1. CASE OnHalt \/ OnControl \/ ExecutionOnIntent
    BY <2>1, HaltPumps, ControlPumps, HandlersPump
  <2>2. CASE OnDecision \/ Cycle \/ PublishAccount
    BY <2>2, DecisionPumps, AccountPumps
  <2>3. ASSUME NEW p \in placing, Place(p) \/ Acked(p) PROVE QInv'
    BY <2>3, PlacePumps, MarketPumps
  <2> QED
    BY <1>5, <2>1, <2>2, <2>3 DEF Execution
<1>6. CASE Lifecycle
  BY <1>6, LifecyclePumps DEF Lifecycle
<1>7. CASE Broker \/ Tick
  BY <1>7, MarketPumps DEF Broker
<1>8. CASE Restarts
  BY <1>8, StaysPump, RestartAllPumps DEF Restarts
<1> QED
  BY <1>1, <1>2, <1>3, <1>4, <1>5, <1>6, <1>7, <1>8 DEF Next

LEMMA SameMode == [Next]_vars => mode' = mode
  BY DEF Next, PumpMoves, MinuteMoves, Engine, Allocator, Risk, Execution, Lifecycle, Broker, Tick, Restarts, OnStage,
         Emit, AllocatorOnAccount, OnSignal, RiskOnAccount, OnIntent, OnHalt, OnControl, ExecutionOnIntent, OnDecision,
         Cycle, PublishAccount, Place, Acked, OnTrade, Hourly, OwnerStops, Fills, Stopped, Restart, RestartAll, vars

(* A halt that was entered, a version that was demoted: once the one-process demo's pump has come to rest,
   nothing of it is left at the broker but what execution could not see, not cancel, or lost with the bus
   (DemoStack.pump, apply_halt, cancel_pending_of and close_positions_of). *)
THEOREM FlatWhenResting == Spec => []FlatAtRest
<1> DEFINE Pumped == Known /\ (mode = "pump" => QInv)
<1>1. Init => Pumped
  BY InitPumps
<1>2. IInv /\ PInv /\ Pumped /\ [Next]_vars => Pumped'
  BY KnownStep, StepPumps, SameMode
<1>3. PInv /\ Pumped => FlatAtRest
  <2> SUFFICES ASSUME PInv, QInv, sched = AtRest PROVE /\ gate.halted # Never => Live = {}
                                                       /\ stage = "shadow" => Live \subseteq Exempted
    BY DEF FlatAtRest, Exempted
  <2>1. Ready = {}
    BY DEF QInv, PumpRest
  <2>2. ~Unread(<<"execution", "halts">>) /\ ~Unread(<<"execution", "control">>)
    <3>1. 8 \in DOMAIN Rounds /\ 9 \in DOMAIN Rounds
      BY TurnsAre
    <3>2. ~Unread(Rounds[8]) /\ ~Unread(Rounds[9])
      BY <2>1, <3>1 DEF Ready
    <3> QED
      BY <3>2, TurnsAre
  <2> QED
    BY <2>2 DEF QInv, HaltKept, DemotionKept, Underway
<1> HIDE DEF Pumped
<1> QED
  BY <1>1, <1>2, <1>3, PathInvariance, PTL DEF Spec
=============================================================================
