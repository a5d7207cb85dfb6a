------------------------------ MODULE Candlestick ------------------------------
(***************************************************************************)
(* The candlestick patterns (core/indicators/candlestick.py), in the two   *)
(* ways the code has them: over whole arrays, where the bars before the    *)
(* first are NaN, and by a tracker that keeps the last three bars.         *)
(*                                                                         *)
(* Prices are integers, and a ratio is multiplied out.  A comparison with  *)
(* NaN is false, so that a test the code writes negated is true of NaN.    *)
(***************************************************************************)
EXTENDS Integers, Sequences

CONSTANTS Candles,      \* the bars that may come, each <<o, h, l, c>>
          MaxBars       \* bound

VARIABLES bars,         \* the arrays: all bars since the start
          last          \* CandlestickTracker._last

vars == <<bars, last>>

NaN == -1               \* not a price, and not a length
Known(a) == a # NaN

(* m a < n b, and m a <= n b. *)
Less(m, a, n, b) == Known(a) /\ Known(b) /\ m * a < n * b
AtMost(m, a, n, b) == Known(a) /\ Known(b) /\ m * a <= n * b
Plus(a, b) == IF Known(a) /\ Known(b) THEN a + b ELSE NaN
Apart(a, b) == IF ~Known(a) \/ ~Known(b) THEN NaN ELSE IF a <= b THEN b - a ELSE a - b

-----------------------------------------------------------------------------
(* The geometry of a bar, and of one before the first. *)
Lower(a, b) == IF a <= b THEN a ELSE b
Upper(a, b) == IF a <= b THEN b ELSE a
Geo(b) ==
    [o |-> b[1], h |-> b[2], l |-> b[3], c |-> b[4],
     body |-> Apart(b[1], b[4]), wick |-> b[2] - Upper(b[1], b[4]), tail |-> Lower(b[1], b[4]) - b[3],
     rng |-> b[2] - b[3], bull |-> b[1] < b[4], bear |-> b[1] > b[4],
     top |-> Upper(b[1], b[4]), bottom |-> Lower(b[1], b[4])]
NoBar ==
    [o |-> NaN, h |-> NaN, l |-> NaN, c |-> NaN, body |-> NaN, wick |-> NaN, tail |-> NaN, rng |-> NaN,
     bull |-> FALSE, bear |-> FALSE, top |-> NaN, bottom |-> NaN]

(* One bar, which is known. *)
Hammer(x) ==
    x.rng > 0 /\ x.tail >= 2 * x.body /\ x.wick <= x.body /\ 3 * x.top > 3 * x.l + 2 * x.rng
Inverted(x) ==
    x.rng > 0 /\ x.wick >= 2 * x.body /\ x.tail <= x.body /\ 3 * x.bottom <= 3 * x.h - 2 * x.rng

Single(x) ==
    LET maru == x.rng # 0 /\ 10 * x.body >= 7 * x.rng /\ 10 * x.wick <= x.body /\ 10 * x.tail <= x.body
        spin == x.rng # 0 /\ 10 * x.body < 3 * x.rng /\ 5 * x.wick >= x.rng /\ 5 * x.tail >= x.rng
        any == [hammer |-> Hammer(x), inverted_hammer |-> Inverted(x), marubozu |-> maru, spinning_top |-> spin]
    IN  [any |-> any,
         bullish |-> [n \in DOMAIN any |-> x.bull /\ any[n]],
         bearish |-> [n \in DOMAIN any |-> x.bear /\ any[n]],
         doji |-> x.rng > 0 /\ 10 * x.body < x.rng]

(* Two bars: p, then x. *)
Within(x, p) == AtMost(1, x.top, 1, p.top) /\ AtMost(1, p.bottom, 1, x.bottom)
Strong(x) == x.rng # 0 /\ ~Less(2, x.body, 1, x.rng)
BodyOk(x) == x.rng = 0 \/ ~Less(5, x.body, 2, x.rng)
Level(a, b, p, x) ==
    /\ Plus(p.rng, x.rng) # 0
    /\ ~Less(1, Plus(p.rng, x.rng), 200, Apart(a, b))
    /\ BodyOk(p) /\ BodyOk(x)

Pair(p, x) ==
    [bullish_engulfing |-> p.bear /\ x.bull /\ Within(p, x),
     bearish_engulfing |-> p.bull /\ x.bear /\ Within(p, x),
     bullish_harami |-> p.bear /\ x.bull /\ Within(x, p),
     bearish_harami |-> p.bull /\ x.bear /\ Within(x, p),
     bullish_kicker |-> p.bear /\ x.bull /\ Less(1, p.top, 1, x.bottom) /\ ~(Hammer(x) \/ Inverted(x)),
     bearish_kicker |-> p.bull /\ x.bear /\ Less(1, x.top, 1, p.bottom) /\ ~(Hammer(x) \/ Inverted(x)),
     hanging_man |-> p.bull /\ x.bear /\ Hammer(x) /\ Less(1, p.h, 1, x.o),
     shooting_star |-> p.bull /\ x.bear /\ Inverted(x) /\ Less(1, p.h, 1, x.o),
     piercing_line |-> /\ p.bear /\ Strong(p) /\ x.bull /\ Strong(x) /\ ~AtMost(1, p.l, 1, x.o)
                       /\ ~AtMost(2, x.c, 1, Plus(p.top, p.bottom)) /\ ~AtMost(1, p.top, 1, x.c),
     dark_cloud_cover |-> /\ p.bull /\ Strong(p) /\ x.bear /\ Strong(x) /\ ~AtMost(1, x.o, 1, p.h)
                          /\ ~AtMost(1, Plus(p.top, p.bottom), 2, x.c) /\ ~AtMost(1, x.c, 1, p.bottom),
     tweezers_top |-> Level(p.h, x.h, p, x) /\ p.bull /\ x.bear,
     tweezers_bottom |-> Level(p.l, x.l, p, x) /\ p.bear /\ x.bull]

(* Three bars: q, p, then x. *)
Big(y) == y.rng # 0 /\ ~Less(5, y.body, 3, y.rng)
Small(y) == y.rng # 0 /\ ~Less(3, y.rng, 10, y.body)

Triple(q, p, x) ==
    [morning_star |-> /\ q.bear /\ Big(q) /\ Small(p) /\ ~AtMost(1, q.bottom, 1, p.top) /\ x.bull /\ Big(x)
                      /\ ~Less(2, x.c, 1, Plus(q.top, q.bottom)),
     evening_star |-> /\ q.bull /\ Big(q) /\ Small(p) /\ ~AtMost(1, p.bottom, 1, q.top) /\ x.bear /\ Big(x)
                      /\ ~Less(1, Plus(q.top, q.bottom), 2, x.c),
     three_white_soldiers |->
        /\ \A y \in {q, p, x} : y.bull /\ Big(y) /\ ~Less(3, y.body, 10, y.wick)
        /\ \A y \in {<<q, p>>, <<p, x>>} : /\ ~AtMost(1, y[2].c, 1, y[1].c)
                                           /\ ~Less(1, y[2].o, 1, y[1].o) /\ ~Less(1, y[1].c, 1, y[2].o),
     three_black_crows |->
        /\ \A y \in {q, p, x} : y.bear /\ Big(y) /\ ~Less(3, y.body, 10, y.tail)
        /\ \A y \in {<<q, p>>, <<p, x>>} : /\ ~AtMost(1, y[1].c, 1, y[2].c)
                                           /\ ~Less(1, y[1].o, 1, y[2].o) /\ ~Less(1, y[2].o, 1, y[1].c)]

-----------------------------------------------------------------------------
(* candlestick_patterns at bar t of the arrays, each bar with its lagged ones. *)
Lagged(k, t) == IF t > k THEN Geo(bars[t - k]) ELSE NoBar
Batch(t) ==
    LET x == Geo(bars[t])
    IN  <<Single(x), Pair(Lagged(1, t), x), Triple(Lagged(2, t), Lagged(1, t), x)>>

(* CandlestickTracker.update. *)
None(names) == [n \in DOMAIN names |-> FALSE]
Tracked ==
    LET n == Len(last) x == Geo(last[n])
    IN  <<Single(x),
          IF n >= 2 THEN Pair(Geo(last[n - 1]), x) ELSE None(Pair(NoBar, x)),
          IF n = 3 THEN Triple(Geo(last[1]), Geo(last[2]), x) ELSE None(Triple(NoBar, NoBar, x))>>

Init == bars = <<>> /\ last = <<>>

Update(b) ==
    /\ Len(bars) < MaxBars
    /\ bars' = Append(bars, b)
    /\ last' = Append(SubSeq(last, IF Len(last) > 2 THEN Len(last) - 1 ELSE 1, Len(last)), b)

Next == \E b \in Candles : Update(b)

Spec == Init /\ [][Next]_vars

-----------------------------------------------------------------------------
(* The tracker has three bars at most, all of them candles. *)
CandlestickTypeOK == Len(last) <= 3 /\ \A i \in DOMAIN last : last[i] \in Candles

(* At every bar the tracker names the patterns that the arrays do, from the first bar on; a pattern of
   several bars is completed by one bar only, and is not of both sides. *)
PatternsAgree ==
    bars # <<>> =>
        LET both == Batch(Len(bars))
        IN  /\ both = Tracked
            /\ ~(both[2].bullish_engulfing /\ both[2].bearish_harami)
            /\ both[3].morning_star => ~both[2].tweezers_top /\ ~both[2].bearish_engulfing
            /\ both[2].piercing_line => ~both[2].bullish_engulfing /\ ~both[2].bullish_kicker
            /\ both[2].dark_cloud_cover => ~both[2].bearish_engulfing /\ ~both[2].bearish_kicker
=============================================================================
