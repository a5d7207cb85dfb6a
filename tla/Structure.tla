------------------------------- MODULE Structure -------------------------------
(***************************************************************************)
(* Swing points, trend, and support and resistance levels                  *)
(* (core/indicators/structure.py and levels.py): over whole arrays, and    *)
(* by detectors that are fed bar by bar and keep only their own state.     *)
(*                                                                         *)
(* The average true range is a constant of the market, known from a        *)
(* certain bar on.  A level's price is the mean of its touches.            *)
(***************************************************************************)
EXTENDS Integers, Sequences, FiniteSets, SequencesExt

CONSTANTS Shapes,       \* the bars that may come, each [h, l, c]
          Left, Right,  \* the bars beside a swing
          AtrN,         \* the first bar with an average true range
          KA, BA,       \* k and break_atr of it
          MaxLevels,
          MaxBars       \* bound

VARIABLES bars,         \* the arrays
          window,       \* SwingDetector's deques
          trend,        \* TrendState: the last two swings of each side
          book,         \* the LevelTracker's levels
          said          \* what the detectors answered at each bar

vars == <<bars, window, trend, book, said>>

None == 0               \* NaN: not a price
Span == Left + Right + 1

-----------------------------------------------------------------------------
(* A swing is strictly beyond the bars before it and not behind those after it; it is told Right bars later. *)
SwingOf(w) ==
    LET top == w[Left + 1].h
        bottom == w[Left + 1].l
    IN  [high |-> IF (\A i \in 1..Left : w[i].h < top) /\ \A i \in (Left + 2)..Span : w[i].h <= top THEN top ELSE None,
         low |-> IF (\A i \in 1..Left : w[i].l > bottom) /\ \A i \in (Left + 2)..Span : w[i].l >= bottom
                 THEN bottom ELSE None]
NoSwing == [high |-> None, low |-> None]

SwingAt(t) == IF t < Span THEN NoSwing ELSE SwingOf(SubSeq(bars, t - Span + 1, t))

(* _trend and its state: the previous and the last swing of each side. *)
Pushed(two, price) == IF price = None THEN two ELSE <<two[2], price>>
Trend(hi, lo) ==
    CASE hi[1] = None \/ lo[1] = None -> 0
      [] hi[2] > hi[1] /\ lo[2] > lo[1] -> 1
      [] hi[2] < hi[1] /\ lo[2] < lo[1] -> -1
      [] OTHER -> 0
NoTrend == [hi |-> <<None, None>>, lo |-> <<None, None>>]
Turned(tr, s) == [hi |-> Pushed(tr.hi, s.high), lo |-> Pushed(tr.lo, s.low)]

-----------------------------------------------------------------------------
(* _LevelBook.  A level's price is sum / touches. *)
Gap(lv, price) == IF lv.sum >= price * lv.touches THEN lv.sum - price * lv.touches ELSE price * lv.touches - lv.sum
Closer(a, b, price) == Gap(a, price) * b.touches < Gap(b, price) * a.touches
New(price, kind, t) ==
    [sum |-> price, touches |-> 1, first |-> t, last |-> t, kind |-> kind,
     broken |-> FALSE, brokenAt |-> None, flipped |-> FALSE, flippedAt |-> None]

(* The nearest level in reach takes the swing; else it is a new one, and one touched longest ago goes. *)
WithSwing(levels, price, kind, t) ==
    LET reach == {i \in DOMAIN levels : Gap(levels[i], price) <= KA * levels[i].touches}
        more == Append(levels, New(price, kind, t))
        oldest == CHOOSE i \in DOMAIN more : \A j \in DOMAIN more : j # i =>
                     \/ more[i].last < more[j].last
                     \/ more[i].last = more[j].last /\ i < j
    IN  CASE price = None -> levels
          [] price # None /\ reach # {} ->
                LET best == CHOOSE i \in reach : \A j \in reach : j # i =>
                               \/ Closer(levels[i], levels[j], price)
                               \/ ~Closer(levels[j], levels[i], price) /\ i < j
                IN  [levels EXCEPT ![best] = [@ EXCEPT !.sum = @ + price, !.touches = @ + 1, !.last = t]]
          [] OTHER -> IF Len(more) > MaxLevels THEN RemoveAt(more, oldest) ELSE more

(* on_bar: a close beyond an unbroken level breaks it, a later return to a broken one flips it. *)
OnBar(levels, b, t) ==
    [i \in DOMAIN levels |->
        LET lv == levels[i] n == lv.touches
            up == lv.kind = "resistance" /\ b.c * n > lv.sum + BA * n
            down == lv.kind = "support" /\ b.c * n < lv.sum - BA * n
            retest == IF lv.kind = "support" THEN b.l * n <= lv.sum + KA * n /\ b.c * n > lv.sum
                                             ELSE b.h * n >= lv.sum - KA * n /\ b.c * n < lv.sum
        IN  CASE ~lv.broken /\ (up \/ down) ->
                   [lv EXCEPT !.broken = TRUE, !.brokenAt = t, !.kind = IF up THEN "support" ELSE "resistance"]
              [] lv.broken /\ ~lv.flipped /\ t > lv.brokenAt /\ retest -> [lv EXCEPT !.flipped = TRUE, !.flippedAt = t]
              [] OTHER -> lv]

Booked(levels, b, s, t) ==
    IF t < AtrN THEN levels
    ELSE WithSwing(WithSwing(OnBar(levels, b, t), s.high, "resistance", t), s.low, "support", t)

-----------------------------------------------------------------------------
Init ==
    /\ bars = <<>> /\ window = <<>> /\ trend = NoTrend /\ book = <<>> /\ said = <<>>

(* update of the three detectors with a closed bar. *)
Update(b) ==
    /\ Len(bars) < MaxBars
    /\ bars' = Append(bars, b)
    /\ window' = IF Len(window) = Span THEN Append(Tail(window), b) ELSE Append(window, b)
    /\ LET s == IF Len(window') < Span THEN NoSwing ELSE SwingOf(window')
       IN  /\ trend' = Turned(trend, s)
           /\ book' = Booked(book, b, s, Len(bars'))
           /\ said' = Append(said, [swing |-> s, trend |-> Trend(trend'.hi, trend'.lo), levels |-> book'])

Next == \E b \in Shapes : Update(b)

Spec == Init /\ [][Next]_vars

(* trend_state and levels over the arrays, at bar t. *)
TrendAt(t) ==
    LET tr == FoldLeft(LAMBDA acc, i : Turned(acc, SwingAt(i)), NoTrend, [i \in 1..t |-> i])
    IN  Trend(tr.hi, tr.lo)
LevelsAt(t) == FoldLeft(LAMBDA acc, i : Booked(acc, bars[i], SwingAt(i), i), <<>>, [i \in 1..t |-> i])

-----------------------------------------------------------------------------
(* The detectors keep no more than their windows. *)
StructureTypeOK == Len(window) <= Span /\ Len(book) <= MaxLevels /\ Len(said) = Len(bars)

(* The arrays, however many bars came after, say at every bar what the detectors said when it closed; a level
   flips after it broke, and one that holds has not been closed beyond by more than the room its touches move it. *)
StructureStands ==
    /\ \A t \in DOMAIN bars : said[t] = [swing |-> SwingAt(t), trend |-> TrendAt(t), levels |-> LevelsAt(t)]
    /\ \A i \in DOMAIN book :
          LET lv == book[i] n == lv.touches c == bars[Len(bars)].c
          IN  /\ lv.flipped => lv.broken /\ lv.flippedAt > lv.brokenAt
              /\ lv.broken => lv.brokenAt > lv.first
              /\ ~lv.broken /\ lv.kind = "support" /\ n = 1 => c >= lv.sum - BA - KA
              /\ ~lv.broken /\ lv.kind = "resistance" /\ n = 1 => c <= lv.sum + BA + KA
=============================================================================
