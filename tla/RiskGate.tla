------------------------------ MODULE RiskGate ------------------------------
(***************************************************************************)
(* What the risk gate answers to an intent: RiskGate.decide and the checks *)
(* it makes in order (risk/gate.py).  Lots are counted in lot steps,       *)
(* fractions of the equity in thousandths, and the money at risk in        *)
(* thousandths of the account's currency, so that every division that      *)
(* rounds is one the code rounds.  Rates and contract sizes are 1.         *)
(***************************************************************************)
EXTENDS Integers, FiniteSets, FiniteSetsExt

CONSTANTS Symbols, Base, Quoted,       \* the instruments' currencies
          MinLot, MaxLot,              \* the broker's lots per order
          SymbolLots,                  \* lots per symbol
          RiskPerTrade, RiskPerStrategy, RiskTotal,    \* thousandths of the equity
          StageLimits,                 \* stage -> thousandths of the equity per trade
          SameDirection,               \* positions in one currency and direction
          Leverage,                    \* notional over equity
          MarginRatio,                 \* free margin over required margin
          MinStopSpreads               \* the stop's distance in spreads

ASSUME RiskGateAssumption ==
    /\ Base \in [Symbols -> STRING] /\ Quoted \in [Symbols -> STRING]
    /\ MinLot \in Nat \ {0} /\ MaxLot \in Nat /\ SymbolLots \in [Symbols -> Nat]
    /\ RiskPerTrade \in Nat /\ RiskPerStrategy \in Nat /\ RiskTotal \in Nat
    /\ StageLimits \in [{"demo_only", "micro", "live", "scaled"} -> Nat]
    /\ SameDirection \in Nat /\ Leverage \in Nat /\ MarginRatio \in Nat
    /\ MinStopSpreads \in Nat \ {0}

NoStop == -1      \* an external position without a stop

Smaller(a, b) == IF a < b THEN a ELSE b
Larger(a, b) == IF a > b THEN a ELSE b
Distance(a, b) == IF a > b THEN a - b ELSE b - a

TRADING_STAGES == {"micro", "live", "scaled"}
StageLimit(stage) == IF stage \in DOMAIN StageLimits THEN StageLimits[stage] ELSE 0

(* _risk_money: what an exposure loses at its stop; without one, 2 % of its notional or the
   per-trade maximum, whichever is more. *)
RiskMoney(e, equity) ==
    IF e.stop = NoStop
    THEN Larger(e.lots * e.entry * 20, equity * RiskPerTrade)
    ELSE 1000 * e.lots * Larger(0, IF e.side = "buy" THEN e.entry - e.stop ELSE e.stop - e.entry)

OpenRisk(exposures, equity) == SumFunction([e \in exposures |-> RiskMoney(e, equity)])

(* _currency_dirs: the currencies a side is long and short. *)
Directions(symbol, side) ==
    IF side = "buy" THEN {<<Base[symbol], "long">>, <<Quoted[symbol], "short">>}
                    ELSE {<<Base[symbol], "short">>, <<Quoted[symbol], "long">>}

Entry(signal, snap) ==
    CASE signal.type # "market" -> signal.price
      [] signal.side = "buy" -> snap.ask
      [] OTHER -> snap.bid

PerLotRisk(signal, snap) == Distance(Entry(signal, snap), signal.stop)

(* Check 2: the stop lies on the losing side, far enough from the entry. *)
WrongStop(signal, snap) ==
    \/ signal.side = "buy" /\ signal.stop >= Entry(signal, snap)
    \/ signal.side = "sell" /\ signal.stop <= Entry(signal, snap)
    \/ PerLotRisk(signal, snap) < MinStopSpreads * (snap.ask - snap.bid)

(* Check 3: the size for the gate's own risk fraction, capped by a limit of the stage. *)
OwnFraction(intent, snap) ==
    LET limit == StageLimit(snap.stage)
        fraction == Smaller(intent.risk, RiskPerTrade)
    IN  IF limit > 0 THEN Smaller(fraction, limit) ELSE fraction

OwnLots(intent, snap) ==
    (snap.equity * OwnFraction(intent, snap)) \div (1000 * PerLotRisk(intent.signal, snap))

(* Check 5. *)
Crowded(signal, snap) ==
    \E d \in Directions(signal.symbol, signal.side) :
        Cardinality({e \in snap.exposures : e.symbol \in Symbols /\ d \in Directions(e.symbol, e.side)})
            >= SameDirection

(* Checks 1, 2, 3, 5, 7, 8 and 9: what rejects at any size. *)
Refused(intent, snap, halted) ==
    LET signal == intent.signal
    IN  \/ signal.symbol \notin Symbols
        \/ halted
        \/ WrongStop(signal, snap) \/ snap.equity <= 0
        \/ OwnLots(intent, snap) < MinLot
        \/ Crowded(signal, snap)
        \/ snap.marginPerLot <= 0
        \/ snap.blackout \/ snap.cutoff
        \/ /\ snap.stage \notin TRADING_STAGES
           /\ ~(snap.stage = "demo_only" /\ StageLimit("demo_only") > 0)

(* Checks 3, 4, 6, 7 and 9: the lots each limit leaves room for. *)
Room(intent, snap) ==
    LET signal == intent.signal
        perLot == 1000 * PerLotRisk(signal, snap)
        own == {e \in snap.exposures : e.strategy = signal.strategy /\ ~e.external}
        onSymbol == {e \in snap.exposures : e.symbol = signal.symbol}
        notional == SumFunction([e \in snap.exposures |-> e.lots * e.entry])
    IN  {OwnLots(intent, snap),
         (snap.equity * RiskPerTrade) \div perLot,
         (snap.equity * RiskPerStrategy - OpenRisk(own, snap.equity)) \div perLot,
         (snap.equity * RiskTotal - OpenRisk(snap.exposures, snap.equity)) \div perLot,
         (snap.equity * Leverage - notional) \div Entry(signal, snap),
         SymbolLots[signal.symbol] - SumFunction([e \in onSymbol |-> e.lots]),
         MaxLot,
         snap.freeMargin \div ((MarginRatio + 1) * snap.marginPerLot)}
        \union (IF snap.stage = "demo_only" THEN {MinLot} ELSE {})

(* decide and _finish: the lots approved, 0 for a rejection.  A cap below the proposal that
   leaves less than the smallest lot rejects. *)
Approved(intent, snap, halted) ==
    IF Refused(intent, snap, halted) THEN 0
    ELSE LET lots == Min(Room(intent, snap) \union {intent.lots})
         IN  IF lots < intent.lots /\ lots < MinLot THEN 0 ELSE lots
=============================================================================
