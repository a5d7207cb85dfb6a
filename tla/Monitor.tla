------------------------------- MODULE Monitor -------------------------------
(***************************************************************************)
(* What the monitor knows of the account (monitor/state.py), the daily     *)
(* summary it makes of it, and the pause of the learning loops in a        *)
(* drawdown (learning/guard.py), in the cycle that the demo runs every     *)
(* minute (Scheduler.minute of cli/demo.py).                               *)
(*                                                                         *)
(* In a cycle the execution service publishes first, then the summary and  *)
(* the guard run on what the monitor read in the cycle before, and only    *)
(* then is the bus read.  A cycle can come late, and a restart forgets     *)
(* everything but the pause.  A date has Day cycles, the last ones after   *)
(* the close in New York.                                                  *)
(***************************************************************************)
EXTENDS Integers, FiniteSetsExt

CONSTANTS Equities,     \* what the account may be worth
          Pause, Resume,    \* PAUSE_DD and RESUME_DD, in percent
          Day, Close,   \* cycles in a date, and the first after the close
          None,
          MaxTrades, MaxHalts, MaxTime, MaxLate, MaxRestarts   \* bounds

VARIABLES time,
          account, peak, dayStart,  \* of the monitor: equity last read, highest read, at the start of the day
          trades,       \* history: every trade closed; those the monitor knows are not lost
          halts,        \* halts_today
          rolled,       \* Scheduler.rollover_day
          paused,       \* LearningGuard.dd_paused_since, kept in a file
          judged,       \* history: what the guard's last update of this run went by
          truePeak,     \* history: the highest equity read, over restarts
          last,         \* history: time and equity of the last summary of this run
          started,      \* history: when this run began
          late,         \* history: whether one of its summaries did not come a day after the one before
          haltsTold, haltsRead,     \* history: halts of this run, in summaries and read
          restarts

vars == <<time, account, peak, dayStart, trades, halts, rolled, paused, judged, truePeak, last, started, late,
          haltsTold, haltsRead, restarts>>

-----------------------------------------------------------------------------
Init ==
    /\ time = 0
    /\ account = None /\ peak = None /\ dayStart = None
    /\ trades = {} /\ halts = 0 /\ rolled = None
    /\ paused = FALSE /\ judged = None /\ truePeak = 0
    /\ last = None /\ started = 0 /\ late = FALSE /\ haltsTold = 0 /\ haltsRead = 0
    /\ restarts = 0

(* Scheduler.minute: the first cycle of a date after the close. *)
Due(t) == t % Day >= Close /\ rolled # t \div Day

(* summary_text: the trades it lists of those the monitor has read. *)
Listed(t) == {x \in trades : ~x.lost /\ x.exit >= t - Day}

(* daily_summary: the day's trades and halts are told, and the day starts again. *)
Told(t) == {IF x \in Listed(t) THEN [x EXCEPT !.told = @ + 1, !.passed = TRUE] ELSE [x EXCEPT !.passed = TRUE] : x \in trades}

Summary(t) ==
    IF ~Due(t) THEN UNCHANGED <<rolled, last, late, haltsTold>>
    ELSE /\ rolled' = t \div Day
         /\ last' = [at |-> t, equity |-> account, start |-> dayStart]
         /\ late' = (late \/ IF last = None THEN t - Day > started ELSE t - Day # last.at)
         /\ haltsTold' = haltsTold + halts

(* LearningGuard.update with the drawdown from the monitor's peak: below Resume lifts a pause, above Pause makes one. *)
Below(high, equity, percent) == (high - equity) * 100 > percent * high
Guarded(high, equity) == IF paused THEN Below(high, equity, Resume) ELSE Below(high, equity, Pause)

Guard ==
    IF account = None THEN UNCHANGED <<paused, judged>>
    ELSE /\ paused' = Guarded(peak, account)
         /\ judged' = [peak |-> peak, equity |-> account, true |-> truePeak]

(* The cycle at time t, in which the account is worth e, one trade may have closed and one halt been entered. *)
Minute(t, e, closed, halted) ==
    /\ t <= MaxTime
    /\ time' = t
    /\ Summary(t)
    /\ Guard
    \* the pump: _account, _trade, _halt
    /\ account' = e
    /\ peak' = IF peak = None THEN e ELSE Max({peak, e})
    /\ truePeak' = Max({truePeak, e})
    /\ dayStart' = IF Due(t) /\ account # None THEN account ELSE IF dayStart = None THEN e ELSE dayStart
    /\ trades' = (IF Due(t) THEN Told(t) ELSE trades) \union
                    {[exit |-> x, told |-> 0, passed |-> FALSE, edge |-> Due(t) /\ x < t, lost |-> FALSE] : x \in closed}
    /\ halts' = (IF Due(t) THEN 0 ELSE halts) + halted
    /\ haltsRead' = haltsRead + halted
    /\ UNCHANGED <<started, restarts>>

Cycle ==
    \E t \in (time + 1)..(time + 1 + MaxLate), e \in Equities, halted \in 0..1 :
        /\ haltsRead + halted <= MaxHalts
        /\ \E closed \in {{}} \union {{x} : x \in time..t} :
              /\ \A x \in closed : \A y \in trades : x > y.exit    \* one trade at a time
              /\ Cardinality(trades) + Cardinality(closed) <= MaxTrades
              /\ Minute(t, e, closed, halted)

(* The process starts again: the pause is read back, the rest starts from nothing. *)
Restart ==
    /\ restarts < MaxRestarts
    /\ account' = None /\ peak' = None /\ dayStart' = None /\ halts' = 0 /\ rolled' = None
    /\ trades' = {[x EXCEPT !.lost = TRUE] : x \in trades}
    /\ judged' = None /\ last' = None /\ started' = time /\ late' = FALSE /\ haltsTold' = 0 /\ haltsRead' = 0
    /\ restarts' = restarts + 1
    /\ UNCHANGED <<time, paused, truePeak>>

Next == Cycle \/ Restart

Spec == Init /\ [][Next]_vars

-----------------------------------------------------------------------------
(* The type invariant. *)
MonitorTypeOK ==
    /\ time \in 0..MaxTime
    /\ account \in Equities \union {None} /\ peak \in Equities \union {None} /\ dayStart \in Equities \union {None}
    /\ account = None <=> peak = None
    /\ \A x \in trades : x.exit \in 0..time /\ x.told \in Nat /\ x.edge \in BOOLEAN /\ x.lost \in BOOLEAN
    /\ started \in 0..time
    /\ halts \in 0..MaxHalts /\ rolled \in {None} \union 0..MaxTime /\ paused \in BOOLEAN /\ late \in BOOLEAN

(* state.py, daily_summary: a trade the monitor has read is in the next summary and in no other, as long as the
   summaries come a day apart and it did not close just before one, in whose cycle it was read too late; the day's
   profit is counted from the last summary; and each halt is told once. *)
SummariesTell ==
    /\ ~late => \A x \in trades : x.told <= 1 /\ (x.passed /\ ~x.edge /\ ~x.lost => x.told = 1)
    /\ last # None /\ last.equity # None => dayStart = last.equity
    /\ haltsTold + halts = haltsRead

(* guard.py: the pause is as the drawdown last seen wants it, through restarts; one that is lifted, or not made, below
   the highest equity ever read is one whose peak a restart forgot. *)
PauseHolds ==
    judged # None =>
        /\ Below(judged.peak, judged.equity, Pause) => paused
        /\ paused => Below(judged.peak, judged.equity, Resume)
        /\ ~paused /\ Below(judged.true, judged.equity, Pause) => restarts > 0

MonitorHolds == SummariesTell /\ PauseHolds
=============================================================================
