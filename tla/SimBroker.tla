------------------------------- MODULE SimBroker -------------------------------
(***************************************************************************)
(* The fill simulator of the backtests (engine/simbroker.py) and the loop  *)
(* that feeds it (engine/backtest.py, engine/gate.py): one symbol, one lot *)
(* per order, prices in ticks.                                             *)
(*                                                                         *)
(* Bar i opens at time i and closes at i + 1; spread, slippage and         *)
(* commission are the same on every bar.  The broker does not look at      *)
(* every bar: it jumps to the first bar where something happens.  The      *)
(* lists of orders and positions are in the order of their numbers (seq).  *)
(***************************************************************************)
EXTENDS Integers, Sequences, SequencesExt, FiniteSetsExt

CONSTANTS Signals,         \* [id, side, type, entry, stop, target, expiry]; 0 for no target, no expiry
          Shapes,          \* the bid prices of a bar: [o, h, l, c]
          Stops,           \* prices a stop may be moved to
          Spread, Slip, CommissionSide, SwapPerNight,
          OpenRiskMax,
          MaxBars, MaxRequests     \* bounds

VARIABLES n,               \* bars simulated so far (last_idx + 1)
          last,            \* the last of them
          broker,          \* SimBroker: its orders, positions, trades and balance
          every,           \* history: the broker as it would be had it processed every bar
          asked,           \* the signals submitted so far (seen_ids)
          requests, over

vars == <<n, last, broker, every, asked, requests, over>>

Sign(side) == IF side = "buy" THEN 1 ELSE -1
Gap(side) == IF side = "buy" THEN 0 ELSE Spread
(* The price an open position is measured at: longs on the bid, shorts on the ask. *)
Mark(side, bid) == bid + Gap(side)
(* The price an entry pays. *)
Quoted(side, bid) == bid + Spread - Gap(side)
AtOrBelow(side, x, y) == Sign(side) * x <= Sign(side) * y
Adverse(side, bar) == Mark(side, IF side = "buy" THEN bar.l ELSE bar.h)
Favourable(side, bar) == Mark(side, IF side = "buy" THEN bar.h ELSE bar.l)

Empty == [market |-> <<>>, pending |-> <<>>, positions |-> <<>>, trades |-> <<>>, balance |-> 0]

Init ==
    /\ n = 0 /\ last = [o |-> 0, h |-> 0, l |-> 0, c |-> 0]
    /\ broker = Empty /\ every = Empty
    /\ asked = {} /\ requests = 0 /\ over = FALSE

-----------------------------------------------------------------------------
(* _open: not beyond the stop. *)
Open(b, s, px, i, from) ==
    IF AtOrBelow(s.side, px, s.stop) THEN b
    ELSE [b EXCEPT !.balance = @ - CommissionSide,
                   !.positions = Append(@, [id |-> s.id, side |-> s.side, entry |-> px, at |-> i,
                                            stop |-> s.stop, target |-> s.target, swap |-> 0, from |-> from])]

(* _close: gross to the balance, half the commission. *)
Close(b, p, px, i, reason) ==
    LET gross == Sign(p.side) * (px - p.entry)
    IN  [b EXCEPT !.balance = @ + gross - CommissionSide,
                  !.positions = SelectSeq(@, LAMBDA q : q.id # p.id),
                  !.trades = Append(@, [id |-> p.id, side |-> p.side, at |-> p.at, out |-> i, px |-> px,
                                        stop |-> p.stop, from |-> p.from, reason |-> reason,
                                        net |-> gross - 2 * CommissionSide + p.swap])]

StopHit(p, bar) == AtOrBelow(p.side, Adverse(p.side, bar), p.stop)
TargetHit(p, bar) == p.target # 0 /\ AtOrBelow(p.side, p.target, Favourable(p.side, bar))

(* _check_exit: the stop first; at the open when the bar gaps beyond it. *)
CheckExit(b, p, bar, i, allowTarget) ==
    LET gap == AtOrBelow(p.side, Mark(p.side, bar.o), p.stop) /\ i # p.at
        px == IF gap THEN Mark(p.side, bar.o) ELSE p.stop
    IN  IF \A j \in DOMAIN b.positions : b.positions[j].id # p.id THEN b
        ELSE IF StopHit(p, bar) THEN Close(b, p, px - Sign(p.side) * Slip, i, "stop")
        ELSE IF allowTarget /\ TargetHit(p, bar) THEN Close(b, p, p.target, i, "target")
        ELSE b

(* A market order at the open of bar i. *)
AtOpen(b, mo, bar, i) ==
    IF mo.kind = "entry"
    THEN Open(b, mo.signal, Quoted(mo.signal.side, bar.o) + Sign(mo.signal.side) * Slip, i, mo.from)
    ELSE LET held == SelectSeq(b.positions, LAMBDA q : q.id = mo.signal.id)
         IN  IF held = <<>> THEN b
             ELSE Close(b, held[1], Mark(held[1].side, bar.o) - Sign(held[1].side) * Slip, i, "close_request")

Expired(o, i) == o.expires # 0 /\ i >= o.expires

(* A limit is traded through by a tick; a stop is touched. *)
Triggers(o, bar, i) ==
    LET s == o.signal
        ask(bid) == Quoted(s.side, bid)
    IN  /\ i >= o.from
        /\ IF s.type = "limit"
           THEN AtOrBelow(s.side, ask(IF s.side = "buy" THEN bar.l ELSE bar.h), s.entry - Sign(s.side))
           ELSE AtOrBelow(s.side, s.entry, ask(IF s.side = "buy" THEN bar.h ELSE bar.l))

PendingFill(s, bar) ==
    IF s.type = "limit" THEN s.entry
    ELSE Sign(s.side) * Slip + (IF AtOrBelow(s.side, s.entry, Quoted(s.side, bar.o))
                                THEN Quoted(s.side, bar.o) ELSE s.entry)

(* A pending order that triggers; its position may be stopped out in the same bar. *)
Fill(b, o, bar, i) ==
    LET opened == Open([b EXCEPT !.pending = SelectSeq(@, LAMBDA q : q.signal.id # o.signal.id)],
                       o.signal, PendingFill(o.signal, bar), i, o.from)
    IN  IF Len(opened.positions) = Len(b.positions) THEN opened
        ELSE CheckExit(opened, opened.positions[Len(opened.positions)], bar, i, FALSE)

(* _process_bar: market orders, expiries, exits, triggers. *)
ProcessBar(b, bar, i) ==
    LET opened == FoldLeft(LAMBDA x, mo : AtOpen(x, mo, bar, i), [b EXCEPT !.market = <<>>], b.market)
        alive == [opened EXCEPT !.pending = SelectSeq(@, LAMBDA o : ~Expired(o, i))]
        exited == FoldLeft(LAMBDA x, p : CheckExit(x, p, bar, i, TRUE), alive, alive.positions)
    IN  FoldLeft(LAMBDA x, o : IF Triggers(o, bar, i) THEN Fill(x, o, bar, i) ELSE x, exited, exited.pending)

(* Mutant: an expiry is no event. *)
EventAtForgetful(b, bar, i) ==
    \/ b.market # <<>>
    \/ \E j \in DOMAIN b.pending : Triggers(b.pending[j], bar, i)
    \/ \E j \in DOMAIN b.positions : StopHit(b.positions[j], bar) \/ TargetHit(b.positions[j], bar)

(* _earliest_event: what makes a bar worth processing. *)
EventAt(b, bar, i) ==
    \/ b.market # <<>>
    \/ \E j \in DOMAIN b.pending : Expired(b.pending[j], i) \/ Triggers(b.pending[j], bar, i)
    \/ \E j \in DOMAIN b.positions : StopHit(b.positions[j], bar) \/ TargetHit(b.positions[j], bar)

(* advance: from event to event over the bars lo, lo + 1, ... *)
RECURSIVE Advanced(_, _, _, _)
Advanced(b, bars, lo, cur) ==
    LET events == {k \in cur..Len(bars) : EventAt(b, bars[k], lo + k - 1)}
    IN  IF events = {} THEN b
        ELSE Advanced(ProcessBar(b, bars[Min(events)], lo + Min(events) - 1), bars, lo, Min(events) + 1)

-----------------------------------------------------------------------------
(* The loop simulates the bars that closed by the next event time. *)
Advance ==
    /\ ~over
    /\ \E k \in 1..2 :
           /\ n + k <= MaxBars
           /\ \E bars \in [1..k -> Shapes] :
                  /\ broker' = Advanced(broker, bars, n, 1)
                  /\ every' = FoldLeft(LAMBDA b, j : ProcessBar(b, bars[j], n + j - 1), every, [j \in 1..k |-> j])
                  /\ last' = bars[k]
                  /\ n' = n + k
    /\ UNCHANGED <<asked, requests, over>>

(* A request of the strategy at the close of bar n. *)
Request == ~over /\ requests < MaxRequests /\ requests' = requests + 1
Both(F(_)) == broker' = F(broker) /\ every' = F(every)

OpenRisk(b) ==
    MapThenSumSet(LAMBDA j : LET p == b.positions[j] r == Sign(p.side) * (p.entry - p.stop)
                             IN  IF r > 0 THEN r ELSE 0, DOMAIN b.positions)

(* BacktestGuard.decide. *)
Allowed(b, s) ==
    LET ref == IF s.type = "market" THEN Quoted(s.side, last.c) ELSE s.entry
        distance == Sign(s.side) * (ref - s.stop)
    IN  /\ distance > 0 /\ 2 * distance >= 3 * Spread
        /\ OpenRisk(b) + distance <= OpenRiskMax

Submitted(b, s) ==
    IF ~Allowed(b, s) THEN b
    ELSE IF s.type = "market"
    THEN [b EXCEPT !.market = Append(@, [kind |-> "entry", signal |-> s, from |-> n])]
    ELSE [b EXCEPT !.pending = Append(@, [signal |-> s, from |-> n,
                                          expires |-> IF s.expiry = 0 THEN 0 ELSE n + s.expiry])]

Submit ==
    /\ Request /\ n > 0
    /\ \E s \in Signals : s.id \notin asked /\ asked' = asked \union {s.id} /\ Both(LAMBDA b : Submitted(b, s))
    /\ UNCHANGED <<n, last, over>>

Cancel ==
    /\ Request
    /\ \E i \in asked : Both(LAMBDA b : [b EXCEPT !.pending = SelectSeq(@, LAMBDA o : o.signal.id # i)])
    /\ UNCHANGED <<n, last, asked, over>>

(* request_close: once per position. *)
CloseAsked(b, i) ==
    IF \/ \A j \in DOMAIN b.positions : b.positions[j].id # i
       \/ \E j \in DOMAIN b.market : b.market[j].kind = "close" /\ b.market[j].signal.id = i
    THEN b ELSE [b EXCEPT !.market = Append(@, [kind |-> "close", signal |-> [id |-> i], from |-> n])]

RequestClose ==
    /\ Request
    /\ \E i \in asked : Both(LAMBDA b : CloseAsked(b, i))
    /\ UNCHANGED <<n, last, asked, over>>

(* modify_stop: tighter, and not beyond the last close. *)
StopMoved(b, i, stop) ==
    [b EXCEPT !.positions =
        [j \in DOMAIN @ |->
            IF /\ @[j].id = i /\ ~AtOrBelow(@[j].side, stop, @[j].stop)
               /\ ~AtOrBelow(@[j].side, Mark(@[j].side, last.c), stop)
            THEN [@[j] EXCEPT !.stop = stop] ELSE @[j]]]

ModifyStop ==
    /\ Request
    /\ \E i \in asked, stop \in Stops : Both(LAMBDA b : StopMoved(b, i, stop))
    /\ UNCHANGED <<n, last, asked, over>>

(* charge_swaps, at a rollover. *)
Swapped(b) ==
    [b EXCEPT !.balance = @ + SwapPerNight * Len(b.positions),
              !.positions = [j \in DOMAIN @ |-> [@[j] EXCEPT !.swap = @ + SwapPerNight]]]

Rollover ==
    /\ Request /\ Both(Swapped)
    /\ UNCHANGED <<n, last, asked, over>>

(* close_all: the end of the data. *)
AllClosed(b) ==
    [FoldLeft(LAMBDA x, p : Close(x, p, Mark(p.side, last.c), n - 1, "end_of_data"), b, b.positions)
        EXCEPT !.pending = <<>>, !.market = <<>>]

EndOfData ==
    /\ ~over /\ n = MaxBars /\ over' = TRUE
    /\ Both(AllClosed)
    /\ UNCHANGED <<n, last, asked, requests>>

Next == Advance \/ Submit \/ Cancel \/ RequestClose \/ ModifyStop \/ Rollover \/ EndOfData

Spec == Init /\ [][Next]_vars

-----------------------------------------------------------------------------
(* Orders, positions and trades are of the signals, each with one of them at most. *)
SimTypeOK ==
    /\ n \in 0..MaxBars /\ requests \in 0..MaxRequests /\ over \in BOOLEAN
    /\ \A j \in DOMAIN broker.positions : broker.positions[j].id \in asked

(* Jumping from event to event loses nothing: the broker is as it would be had it processed every bar. *)
JumpsSkipNothing == broker = every

(* The balance is what the trades made, the commission of the open positions and their swaps. *)
BooksBalance ==
    broker.balance =
        MapThenSumSet(LAMBDA j : broker.trades[j].net, DOMAIN broker.trades)
        + MapThenSumSet(LAMBDA j : broker.positions[j].swap - CommissionSide, DOMAIN broker.positions)

(* A signal is traded once, on bars that open after it was made; a stop fills no better than its price,
   and no pending order takes its profit in the bar that filled it. *)
TradesHonest ==
    /\ \A i, j \in DOMAIN broker.trades : broker.trades[i].id = broker.trades[j].id => i = j
    /\ \A i \in DOMAIN broker.trades :
           LET tr == broker.trades[i]
           IN  /\ tr.from <= tr.at /\ tr.at <= tr.out
               /\ tr.reason = "stop" => AtOrBelow(tr.side, tr.px, tr.stop)
               /\ tr.reason = "target" /\ tr.at = tr.out
                  => \E s \in Signals : s.id = tr.id /\ s.type = "market"

(* What the results of a backtest rest on: no event is skipped, no money appears, no fill looks ahead. *)
BacktestHonest == JumpsSkipNothing /\ BooksBalance /\ TradesHonest
=============================================================================
