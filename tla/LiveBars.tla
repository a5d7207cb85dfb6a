------------------------------- MODULE LiveBars -------------------------------
(***************************************************************************)
(* The live engine: quotes to bars (engine/live_bars.py), bars to the      *)
(* strategies' series (live.py, market.py), and how the service            *)
(* (service.py) and the demo's loop (cli/demo.py, play_live) drive them.   *)
(*                                                                         *)
(* One symbol; a quote is its time and its number, a bar the quotes it was *)
(* made of, in order.  Time is counted in ticks of the clock.  The         *)
(* builder's fast path (_next_due) is left out: it returns early only      *)
(* when nothing is due.                                                    *)
(***************************************************************************)
EXTENDS Integers, Sequences, FiniteSets, SequencesExt, TLC

CONSTANTS Runners,         \* the strategies' runners, in order
          Minute,          \* ticks in a minute
          Htf,             \* minutes in a bar of the higher timeframe
          Grace,
          MaxTime, MaxQuotes, MaxLag    \* bounds; a quote's time is at most MaxLag behind the clock

VARIABLES now,
          stream,          \* QUOTES: published and not yet pumped
          published,
          cycle,           \* play_live's minute(): its phase, and the time it read
          builder,         \* LiveBarBuilder
          series,          \* runner -> the bars appended to its series
          stopped,         \* an exception ended the loop
          pumped, tardy    \* history: the quotes so far, and those later than the grace allows

vars == <<now, stream, published, cycle, builder, series, stopped, pumped, tardy>>

NoBar == [open |-> -1, close |-> -1, quotes |-> <<>>]
NoSeries == [m1 |-> <<>>, htf |-> <<>>]
Idle == [phase |-> "idle", at |-> 0]

Init ==
    /\ now = 0 /\ stream = <<>> /\ published = 0 /\ cycle = Idle
    /\ builder = [building |-> NoBar, done |-> <<>>, bucket |-> NoBar, until |-> 0, late |-> {}, cut |-> -1]
    /\ series = [r \in DOMAIN Runners |-> NoSeries]
    /\ stopped = FALSE /\ pumped = {} /\ tardy = {}

Start(t, length) == t - (t % length)
Event(tf, bar) == [tf |-> tf, bar |-> bar]

-----------------------------------------------------------------------------
(* Mutant: a bucket that ended is replaced and never goes out. *)
WithM1Replacing(x, m1) ==
    LET bucket == x.b.bucket
        start == Start(m1.open, Htf * Minute)
        inside == bucket # NoBar /\ bucket.open = start
    IN  [b |-> [x.b EXCEPT
                    !.until = m1.close,
                    !.bucket = IF inside THEN [bucket EXCEPT !.quotes = @ \o m1.quotes]
                               ELSE [open |-> start, close |-> start + Htf * Minute, quotes |-> m1.quotes]],
         events |-> x.events \o <<Event("m1", m1)>>]

(* _add_to_bucket, of one closed M1 bar; x is the builder with the events so far. *)
WithM1(x, m1) ==
    LET bucket == x.b.bucket
        start == Start(m1.open, Htf * Minute)
        inside == bucket # NoBar /\ bucket.open = start
        ended == bucket # NoBar /\ ~inside
    IN  [b |-> [x.b EXCEPT
                    !.until = m1.close,
                    !.bucket = IF inside THEN [bucket EXCEPT !.quotes = @ \o m1.quotes]
                               ELSE [open |-> start, close |-> start + Htf * Minute, quotes |-> m1.quotes]],
         events |-> x.events \o <<Event("m1", m1)>> \o (IF ended THEN <<Event("htf", bucket)>> ELSE <<>>)]

(* By close time, the shorter timeframe first. *)
Before(e, f) == e.bar.close < f.bar.close \/ (e.bar.close = f.bar.close /\ e.tf = "m1" /\ f.tf = "htf")

(* _on_time_ns: what closed Grace ago or before, in order. *)
OnTime(b, t) ==
    LET cutoff == t - Grace
        closes == b.building # NoBar /\ b.building.close <= cutoff
        done == IF closes THEN Append(b.done, b.building) ELSE b.done
        started == [b EXCEPT !.building = IF closes THEN NoBar ELSE @,
                             !.done = SelectSeq(done, LAMBDA m1 : m1.close > cutoff),
                             !.cut = IF cutoff > @ THEN cutoff ELSE @]
        x == FoldLeft(WithM1, [b |-> started, events |-> <<>>], SelectSeq(done, LAMBDA m1 : m1.close <= cutoff))
        full == x.b.bucket # NoBar /\ x.b.bucket.close <= cutoff
    IN  [b |-> IF full THEN [x.b EXCEPT !.bucket = NoBar] ELSE x.b,
         events |-> SortSeq(IF full THEN Append(x.events, Event("htf", x.b.bucket)) ELSE x.events, Before)]

(* Older than the last bar that went out, or than the bar being built. *)
Stale(b, minute) ==
    \/ minute + Minute <= b.until
    \/ b.building # NoBar /\ minute < b.building.open

(* on_quote: close what is due, then add the quote. *)
OnQuote(b0, q) ==
    LET x == OnTime(b0, q.t)
        b == x.b
        minute == Start(q.t, Minute)
        fresh == [open |-> minute, close |-> minute + Minute, quotes |-> <<q>>]
    IN  [x EXCEPT !.b =
            IF Stale(b, minute) THEN [b EXCEPT !.late = @ \union {q}]
            ELSE IF b.building.open = minute THEN [b EXCEPT !.building.quotes = Append(@, q)]
            ELSE [b EXCEPT !.building = fresh,
                           !.done = IF b.building = NoBar THEN @ ELSE Append(@, b.building)]]

(* SeriesBuffer.append raises on a bar that does not close after the last one. *)
Appends(s, bar) == s = <<>> \/ bar.close > s[Len(s)].close
Raises(s, events) ==
    \E i \in DOMAIN events :
        \/ ~Appends(s[events[i].tf], events[i].bar)
        \/ \E j \in 1..(i - 1) : events[j].tf = events[i].tf /\ events[j].bar.close >= events[i].bar.close

(* LiveRunner.on_bars; what comes before a bar that raises is appended. *)
OnBars(s, events) ==
    LET taken == SubSeq(events, 1, Max({k \in 0..Len(events) : ~Raises(s, SubSeq(events, 1, k))}))
        of(tf) == [i \in DOMAIN SelectSeq(taken, LAMBDA e : e.tf = tf) |->
                    SelectSeq(taken, LAMBDA e : e.tf = tf)[i].bar]
    IN  [m1 |-> s.m1 \o of("m1"), htf |-> s.htf \o of("htf")]

-----------------------------------------------------------------------------
Tick ==
    /\ ~stopped /\ now < MaxTime /\ now' = now + 1
    /\ UNCHANGED <<stream, published, cycle, builder, series, stopped, pumped, tardy>>

(* The quotes task publishes while the loop sleeps or awaits. *)
Publish ==
    /\ ~stopped /\ published < MaxQuotes
    /\ published' = published + 1
    /\ \E lag \in 0..MaxLag :
           lag <= now /\ stream' = Append(stream, [t |-> now - lag, id |-> published'])
    /\ UNCHANGED <<now, cycle, builder, series, stopped, pumped, tardy>>

(* minute() reads the clock; the calls of the broker that follow take their time. *)
Begin ==
    /\ ~stopped /\ cycle = Idle
    /\ cycle' = [phase |-> "began", at |-> now]
    /\ UNCHANGED <<now, stream, published, builder, series, stopped, pumped, tardy>>

(* engine.on_time(now), before the quotes that wait are pumped: every runner gets the same bars. *)
EngineOnTime ==
    /\ ~stopped /\ cycle.phase = "began"
    /\ cycle' = [cycle EXCEPT !.phase = "pumping"]
    /\ LET x == OnTime(builder, cycle.at)
       IN  /\ builder' = x.b
           /\ stopped' = \E r \in DOMAIN Runners : Raises(series[r], x.events)
           /\ series' = [r \in DOMAIN Runners |-> IF \E before \in 1..(r - 1) : Raises(series[before], x.events)
                                                 THEN series[r] ELSE OnBars(series[r], x.events)]
    /\ UNCHANGED <<now, stream, published, pumped, tardy>>

(* _on_quote: each runner in turn asks the builder with the same quote; an exception ends the handler
   and the message is acknowledged. *)
RECURSIVE Routed(_, _, _, _)
Routed(b, s, q, r) ==
    IF r > Len(Runners) THEN [b |-> b, series |-> s]
    ELSE LET x == OnQuote(b, q)
             routed == [s EXCEPT ![r] = OnBars(@, x.events)]
         IN  IF Raises(s[r], x.events) THEN [b |-> x.b, series |-> routed] ELSE Routed(x.b, routed, q, r + 1)

PumpQuote ==
    /\ ~stopped /\ cycle.phase = "pumping" /\ stream # <<>>
    /\ stream' = Tail(stream)
    /\ LET q == Head(stream)
           x == Routed(builder, series, q, 1)
       IN  /\ builder' = x.b
           /\ series' = x.series
           /\ pumped' = pumped \union {q}
           /\ tardy' = IF Start(q.t, Minute) + Minute <= builder.cut THEN tardy \union {q} ELSE tardy
    /\ UNCHANGED <<now, published, cycle, stopped>>

EndCycle ==
    /\ ~stopped /\ cycle.phase = "pumping" /\ stream = <<>>
    /\ cycle' = Idle
    /\ UNCHANGED <<now, stream, published, builder, series, stopped, pumped, tardy>>

Next == Tick \/ Publish \/ Begin \/ EngineOnTime \/ PumpQuote \/ EndCycle

Spec == Init /\ [][Next]_vars

-----------------------------------------------------------------------------
(* The builder, the runners and the stream hold what their code lets them hold. *)
BarsTypeOK ==
    /\ now \in 0..MaxTime /\ published \in 0..MaxQuotes /\ stopped \in BOOLEAN
    /\ cycle.phase \in {"idle", "began", "pumping"} /\ cycle.at \in 0..now

QuotesOf(bars) == FoldLeft(LAMBDA acc, bar : acc \o bar.quotes, <<>>, bars)
Ordered(bars) == \A i \in 2..Len(bars) : bars[i - 1].close <= bars[i].open
Counted(r) == QuotesOf(series[r].m1) \o QuotesOf(builder.done) \o builder.building.quotes

Within(bars, length) ==
    \A i \in DOMAIN bars : \A q \in ToSet(bars[i].quotes) : Start(q.t, length) = bars[i].open

(* live_bars.py: as long as no quote is pumped later than the grace allows, each is in exactly one M1 bar
   of its minute or counted late, the higher bars hold what their M1 bars hold, and nothing raises. *)
BarsHoldTheirQuotes ==
    tardy = {} =>
        /\ ~stopped
        /\ Ordered(series[1].m1) /\ Within(series[1].m1, Minute)
        /\ Ordered(series[1].htf) /\ Within(series[1].htf, Htf * Minute)
        /\ QuotesOf(series[1].htf) \o builder.bucket.quotes = QuotesOf(series[1].m1)
        /\ Cardinality(ToSet(Counted(1))) = Len(Counted(1))
        /\ ToSet(Counted(1)) \union builder.late = pumped /\ ToSet(Counted(1)) \intersect builder.late = {}

(* service.py: the runners share one builder, so that each strategy gets every bar. *)
EveryRunnerSeesBars == \A r \in DOMAIN Runners : series[r] = series[1]
=============================================================================
