----------------------------- MODULE ShadowBroker -----------------------------
(***************************************************************************)
(* A version in shadow (engine/shadow.py): its signals are filled from the *)
(* live quotes, at no risk.  One symbol, one lot, prices in ticks.         *)
(*                                                                         *)
(* A quote carries the broker's time, which may be behind the clock the    *)
(* session's ticker reads, and behind an earlier quote's.  The strategy's  *)
(* bars are those of module LiveBars; here it may make any request after   *)
(* any quote or tick, at the time of its market.                           *)
(***************************************************************************)
EXTENDS Integers, Sequences, FiniteSets, SequencesExt

CONSTANTS Signals,         \* [id, side, type, entry, stop, target, expiry]; 0 for no target, no expiry
          Bids,            \* bid prices
          Stops,           \* prices a stop may be moved to
          Spread, CommissionSide, SwapPerNight,
          Day,             \* ticks from one rollover to the next
          MaxTime, MaxQuotes, MaxLag, MaxRequests     \* bounds

VARIABLES now,
          fed,             \* the quotes so far: [t, bid]
          seen,            \* _last_ns, -1 before the first
          pending, positions, trades,
          asked, requests

vars == <<now, fed, seen, pending, positions, trades, asked, requests>>

Init ==
    /\ now = 0 /\ fed = <<>> /\ seen = -1
    /\ pending = <<>> /\ positions = <<>> /\ trades = <<>>
    /\ asked = {} /\ requests = 0

Sign(side) == IF side = "buy" THEN 1 ELSE -1
AtOrBelow(side, x, y) == Sign(side) * x <= Sign(side) * y
(* What an exit gets, and what an entry pays. *)
Mark(side, bid) == IF side = "buy" THEN bid ELSE bid + Spread
Quoted(side, bid) == IF side = "buy" THEN bid + Spread ELSE bid

Without(s, id) == SelectSeq(s, LAMBDA x : x.signal.id # id)

-----------------------------------------------------------------------------
(* The rollovers in [from, to]. *)
Nights(from, to) == Cardinality({t \in from..to : t > 0 /\ t % Day = 0})

(* _rollovers: since the time of the last call, which may be later than this one's and is then
   set back to it; again counts (for the properties alone) the rollovers that this makes due twice. *)
Charged(held, t) ==
    IF seen < 0 THEN held
    ELSE [j \in DOMAIN held |-> [held[j] EXCEPT !.nights = @ + Nights(seen + 1, t),
                                                 !.again = @ + Nights(t + 1, seen)]]

(* The price a waiting order gets at this quote, 0 for none: a limit is traded through by a tick. *)
FillPrice(s, bid) ==
    LET px == Quoted(s.side, bid) IN
    CASE s.type = "market" -> px
      [] s.type = "limit"  -> IF AtOrBelow(s.side, px, s.entry - Sign(s.side)) THEN s.entry ELSE 0
      [] s.type = "stop"   -> IF AtOrBelow(s.side, s.entry, px) THEN px ELSE 0

(* The order is older than the quote. *)
Live(o, q) == q.t > o.created

Ended(o, q) == Live(o, q) /\ o.expires # 0 /\ q.t >= o.expires
Fills(o, q) == Live(o, q) /\ ~Ended(o, q) /\ FillPrice(o.signal, q.bid) # 0

(* _open, of a fill that is not beyond the stop. *)
Opens(o, q) == Fills(o, q) /\ ~AtOrBelow(o.signal.side, FillPrice(o.signal, q.bid), o.signal.stop)
Position(o, q) ==
    [signal |-> o.signal, created |-> o.created, entry |-> FillPrice(o.signal, q.bid), at |-> q.t, quote |-> Len(fed) + 1,
     stop |-> o.signal.stop, closing |-> FALSE, nights |-> 0, again |-> 0]

(* Why an open position is closed by this quote; the stop comes before the target. *)
Reason(p, q) ==
    LET s == p.signal mark == Mark(s.side, q.bid) IN
    CASE q.t <= p.at -> "none"
      [] p.closing -> "close_request"
      [] AtOrBelow(s.side, mark, p.stop) -> "stop"
      [] s.target # 0 /\ AtOrBelow(s.side, s.target, mark) -> "target"
      [] OTHER -> "none"

(* _close. *)
Trade(p, q) ==
    LET s == p.signal
        px == IF Reason(p, q) = "target" THEN s.target ELSE Mark(s.side, q.bid)
    IN  [position |-> p, px |-> px, out |-> q.t, quote |-> Len(fed) + 1, reason |-> Reason(p, q),
         net |-> Sign(s.side) * (px - p.entry) - 2 * CommissionSide + SwapPerNight * p.nights]

Each(F(_), s) == [j \in DOMAIN s |-> F(s[j])]

(* ShadowSession.on_quote: rollovers, then ShadowBroker.on_quote: entries, then exits. *)
OnQuote(q) ==
    /\ Len(fed) < MaxQuotes
    /\ fed' = Append(fed, q)
    /\ seen' = q.t
    /\ pending' = SelectSeq(pending, LAMBDA o : ~Ended(o, q) /\ ~Fills(o, q))
    /\ LET held == Charged(positions, q.t)
                   \o Each(LAMBDA o : Position(o, q), SelectSeq(pending, LAMBDA o : Opens(o, q)))
       IN  /\ positions' = SelectSeq(held, LAMBDA p : Reason(p, q) = "none")
           /\ trades' = trades \o Each(LAMBDA p : Trade(p, q), SelectSeq(held, LAMBDA p : Reason(p, q) # "none"))
    /\ UNCHANGED <<now, asked, requests>>

(* ShadowSession.on_time, of the ticker. *)
OnTime ==
    /\ seen # now
    /\ positions' = Charged(positions, now)
    /\ seen' = now
    /\ UNCHANGED <<now, fed, pending, trades, asked, requests>>

Tick ==
    /\ now < MaxTime /\ now' = now + 1
    /\ UNCHANGED <<fed, seen, pending, positions, trades, asked, requests>>

-----------------------------------------------------------------------------
Request == requests < MaxRequests /\ requests' = requests + 1

(* submit: with a price, and a stop on the right side and not too close. *)
Accepted(s) ==
    /\ fed # <<>>
    /\ LET ref == IF s.type = "market" THEN Quoted(s.side, Last(fed).bid) ELSE s.entry
           distance == Sign(s.side) * (ref - s.stop)
       IN  distance > 0 /\ 2 * distance >= 3 * Spread

Submit(s, t) ==
    /\ Request /\ s.id \notin asked
    /\ asked' = asked \union {s.id}
    /\ pending' = IF ~Accepted(s) THEN pending
                  ELSE Append(pending, [signal |-> s, created |-> t,
                           expires |-> IF s.type = "market" \/ s.expiry = 0 THEN 0 ELSE t + s.expiry])
    /\ UNCHANGED <<now, fed, seen, positions, trades>>

Cancel(id) ==
    /\ Request
    /\ pending' = Without(pending, id)
    /\ UNCHANGED <<now, fed, seen, positions, trades, asked>>

RequestClose(id) ==
    /\ Request
    /\ positions' = Each(LAMBDA p : [p EXCEPT !.closing = @ \/ p.signal.id = id], positions)
    /\ UNCHANGED <<now, fed, seen, pending, trades, asked>>

(* Only to a tighter stop. *)
ModifyStop(id, stop) ==
    /\ Request
    /\ positions' = Each(LAMBDA p : IF p.signal.id = id /\ ~AtOrBelow(p.signal.side, stop, p.stop)
                                    THEN [p EXCEPT !.stop = stop] ELSE p, positions)
    /\ UNCHANGED <<now, fed, seen, pending, trades, asked>>

Next ==
    \/ Tick \/ OnTime
    \/ \E lag \in 0..MaxLag, bid \in Bids : lag <= now /\ OnQuote([t |-> now - lag, bid |-> bid])
    \/ \E s \in Signals, lag \in 0..1 : lag <= now /\ Submit(s, now - lag)
    \/ \E id \in asked : Cancel(id) \/ RequestClose(id) \/ \E stop \in Stops : ModifyStop(id, stop)

Spec == Init /\ [][Next]_vars

-----------------------------------------------------------------------------
(* Orders, positions and trades are of signals that were made. *)
ShadowTypeOK ==
    /\ now \in 0..MaxTime /\ seen \in -1..now /\ Len(fed) <= MaxQuotes /\ requests \in 0..MaxRequests
    /\ \A j \in DOMAIN pending : pending[j].signal \in Signals /\ pending[j].signal.id \in asked
    /\ \A j \in DOMAIN positions : positions[j].signal.id \in asked /\ positions[j].nights \in Nat
    /\ \A j \in DOMAIN trades : trades[j].position.signal.id \in asked

Ids == [pending |-> {pending[j].signal.id : j \in DOMAIN pending},
        held |-> {positions[j].signal.id : j \in DOMAIN positions},
        traded |-> {trades[j].position.signal.id : j \in DOMAIN trades}]

(* What a shadow trade says the version would have got: a signal is one order, one
   position or one trade; it was filled by a quote from after the signal, and closed by
   a later one; no quote in between had passed its first stop; a limit was paid, a stop
   never bettered; and its swap is that of the nights it was held, none missing, and of those an
   older quote made due again, which is more than the "swap at each rollover" of shadow.py:10, no
   other (shadow.py:3-14, 362-366). *)
ShadowHonest ==
    /\ Ids.pending \cap Ids.held = {} /\ (Ids.pending \union Ids.held) \cap Ids.traded = {}
    /\ Len(trades) = Cardinality(Ids.traded) /\ Len(positions) = Cardinality(Ids.held)
    /\ \A j \in DOMAIN trades :
           LET tr == trades[j] p == tr.position s == p.signal IN
           /\ p.created < p.at /\ p.at < tr.out
           /\ \A k \in (p.quote + 1)..(tr.quote - 1) :
                  fed[k].t > p.at => ~AtOrBelow(s.side, Mark(s.side, fed[k].bid), s.stop)
           /\ s.type = "limit" => p.entry = s.entry /\ AtOrBelow(s.side, Quoted(s.side, fed[p.quote].bid), s.entry - Sign(s.side))
           /\ tr.reason = "stop" => AtOrBelow(s.side, tr.px, p.stop)
           /\ p.nights = Nights(p.at + 1, tr.out) + p.again
================================================================================
