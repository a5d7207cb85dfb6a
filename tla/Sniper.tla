-------------------------------- MODULE Sniper --------------------------------
(***************************************************************************)
(* The smc_sniper strategy (strategies/library/smc_sniper/strategy.py): an *)
(* H1 close sets the context, an M15 close that breaks the structure after *)
(* a sweep arms the hunt, and the first M5 return to the broken level      *)
(* fires it.  Closes at the same time come shorter timeframe first.        *)
(*                                                                         *)
(* Prices are integers, shorts run on mirrored bars as in the code, and    *)
(* the average true range is 1.  Time is counted in M5 bars.               *)
(***************************************************************************)
EXTENDS Integers, Sequences, FiniteSetsExt

CONSTANTS Histories,    \* M15 bars before the first M5 bar, each [o, h, l, c], in the long frame
          Shapes,       \* the M5 bars that may come
          Hour,         \* M5 bars to an H1 close
          Contexts,     \* what an H1 close may find: [sell, zones, liq], or NoContext
          NoContext,
          Lookback, Window,     \* liq_lookback, and window_m in M15 bars
          Disp, Tol, StopAt, Buffer, MaxStop, MinRR, Spread,
          MaxBars       \* bound

VARIABLES mirror,       \* whether the market is the mirrored one
          past, m5,     \* the bars, as they are
          ctx, hunt, used,      \* the strategy's state
          open,         \* a position or an order of the strategy
          signals       \* history: its signals, each with its hunt

vars == <<mirror, past, m5, ctx, hunt, used, open, signals>>

NoHunt == [until |-> 0]
None == -1
Least(S) == CHOOSE a \in S : \A b \in S : a <= b

-----------------------------------------------------------------------------
(* _candles: the long frame, and the M15 bars that the M5 bars make. *)
Mirrored(b) == [o |-> -b.o, h |-> -b.l, l |-> -b.h, c |-> -b.c]
Long(x, sell) == [i \in DOMAIN x |-> IF sell THEN Mirrored(x[i]) ELSE x[i]]
Quarter(a, b, c) == [o |-> a.o, h |-> Max({a.h, b.h, c.h}), l |-> Min({a.l, b.l, c.l}), c |-> c.c]
M15(x) == past \o [i \in 1..(Len(x) \div 3) |-> Quarter(x[3 * i - 2], x[3 * i - 1], x[3 * i])]

(* shift: the sweep is the lowest bar of the window, the first close above the last swing high before it breaks. *)
Pivot(x, k) == x[k].h > x[k - 1].h /\ x[k].h > x[k - 2].h /\ x[k].h >= x[k + 1].h /\ x[k].h >= x[k + 2].h
Shift(x) ==
    LET n == Len(x)
        start == Max({n - Window, Lookback + 3}) + 1
        s == CHOOSE i \in start..(n - 1) : \A j \in start..(n - 1) :
                 x[i].l < x[j].l \/ (x[i].l = x[j].l /\ i <= j)
        swept == Min({x[i].l : i \in (s - Lookback)..(s - 1)})
        pivots == {k \in (s - Lookback + 1)..(s - 2) : Pivot(x, k)}
        level == x[Max(pivots)].h
        through == {i \in (s + 1)..n : x[i].c > level}
    IN  IF /\ start <= n - 1
           /\ x[s].l < swept /\ \E i \in s..(s + 2) : i <= n /\ x[i].c > swept
           /\ pivots # {} /\ through # {}
           /\ \E i \in s..Min(through) : x[i].c - x[i].o >= Disp
        THEN [sweep |-> s, low |-> x[s].l, level |-> level, break |-> Min(through)]
        ELSE [sweep |-> None, break |-> None]

(* Mutant: any return will do. *)
AnyRetest(x, level, brk) ==
    LET e == Len(x)
    IN  e > brk /\ x[e].l <= level + Tol /\ x[e].c > x[e].o /\ x[e].c > level

(* first_retest: the bar is the first after the break to come back, and closes up above the level. *)
FirstRetest(x, level, brk) ==
    LET e == Len(x)
    IN  /\ e > brk
        /\ \A i \in (brk + 1)..e : x[i].c >= level - Tol
        /\ \A i \in (brk + 1)..(e - 1) : x[i].l > level + Tol
        /\ x[e].l <= level + Tol /\ x[e].c > x[e].o /\ x[e].c > level

-----------------------------------------------------------------------------
Init ==
    /\ mirror \in BOOLEAN
    /\ \E x \in Histories : past = Long(x, mirror)
    /\ m5 = <<>> /\ ctx \in Contexts /\ hunt = NoHunt /\ used = None /\ open = FALSE /\ signals = <<>>

(* The M5 close: entry, stop, target and their limits; near news nothing is done, the rest is the score. *)
OnM5(x) ==
    LET n == Len(x)
        low == Min({x[i].l : i \in (hunt.break + 1)..n})
        entry == IF hunt.sell THEN x[n].c ELSE x[n].c + Spread
        stop == (IF StopAt = "pullback" THEN low ELSE hunt.low) - Buffer - (IF hunt.sell THEN Spread ELSE 0)
        above == {v \in hunt.liq : v > entry}
        target == Least(above)
        ready == /\ hunt # NoHunt /\ ~open /\ n <= hunt.until
                 /\ FirstRetest(x, hunt.level, hunt.break)
                 /\ entry - stop \in 1..MaxStop
                 /\ above # {} /\ target - entry >= MinRR * (entry - stop)
    IN  \/ /\ ready
           /\ used' = hunt.sweep
           /\ \/ \E filled \in BOOLEAN :
                    /\ signals' = Append(signals, [hunt |-> hunt, at |-> n, entry |-> entry, stop |-> stop, target |-> target])
                    /\ open' = filled
              \/ UNCHANGED <<signals, open>>       \* the score is too low: at most recorded
        \/ UNCHANGED <<used, signals, open>>       \* nothing is ready, or there is news

(* The M15 close: a shift that breaks on this bar, with its sweep at a zone, and not one already used. *)
Armed(x, n, context, usedNow, old) ==
    LET sh == Shift(x)
    IN  IF /\ context # NoContext
           /\ sh.break = Len(x)
           /\ \E z \in context.zones : z[1] <= sh.low /\ sh.low <= z[2]
           /\ usedNow # sh.sweep
        THEN [until |-> n + 3 * Window, sweep |-> sh.sweep, low |-> sh.low, level |-> sh.level, break |-> n,
              sell |-> context.sell, liq |-> context.liq]
        ELSE old

(* A bar closes, and with every third the M15 bar, and with every Hour-th the H1 bar. *)
Close(b) ==
    LET n == Len(m5) + 1
    IN  /\ n <= MaxBars
        /\ m5' = Append(m5, b)
        /\ OnM5(Long(m5', hunt # NoHunt /\ hunt.sell))
        /\ LET rest == IF used' # used THEN NoHunt ELSE hunt
           IN  hunt' = IF n % 3 = 0 /\ ctx # NoContext THEN Armed(Long(M15(m5'), ctx.sell), n, ctx, used', rest) ELSE rest
        /\ IF n % Hour = 0 THEN ctx' \in Contexts \union {NoContext} ELSE UNCHANGED ctx
        /\ UNCHANGED <<mirror, past>>

(* The position ends. *)
Ends == open /\ open' = FALSE /\ UNCHANGED <<mirror, past, m5, ctx, hunt, used, signals>>

Next == (\E b \in Shapes : Close(IF mirror THEN Mirrored(b) ELSE b)) \/ Ends

Spec == Init /\ [][Next]_vars

-----------------------------------------------------------------------------
(* The strategy's state has its types. *)
SniperTypeOK ==
    /\ hunt # NoHunt => hunt.break <= Len(m5) /\ hunt.sell \in BOOLEAN
    /\ used \in {None} \union 1..(Len(past) + MaxBars) /\ ctx \in Contexts \union {NoContext}

(* A sweep fires once; a signal comes within the window of the break that really was the first through its
   level, at the first bar that came back to it since, with its stop beyond that bar and its target far enough. *)
OneShot ==
    \A i \in DOMAIN signals :
        LET g == signals[i]
            x == Long(m5, g.hunt.sell)
            quarters == Long(M15(m5), g.hunt.sell)
        IN  /\ \A j \in DOMAIN signals : j # i => signals[j].hunt.sweep # g.hunt.sweep
            /\ \A k \in (g.hunt.sweep + 1)..(Len(past) + g.hunt.break \div 3 - 1) : quarters[k].c <= g.hunt.level
            /\ g.at - g.hunt.break \in 1..(3 * Window)
            /\ \A k \in (g.hunt.break + 1)..(g.at - 1) : x[k].l > g.hunt.level + Tol
            /\ g.stop < x[g.at].l /\ g.entry < g.target
=============================================================================
