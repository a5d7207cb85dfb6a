--------------------------- MODULE MCTradingPath ---------------------------
(* TradingPath for TLC: a market and a resting entry of one strategy.  Each asks for 5 lots,
   which risk 10 of 1000; both together would risk more than the total of 15. *)
EXTENDS TradingPath

CONSTANTS s1, s2, s3

OneSignal(type) ==
    [strategy |-> "a", symbol |-> "EURUSD", side |-> "buy", type |-> type, price |-> 100, stop |-> 98]
AllSignals == (s1 :> OneSignal("market")) @@ (s2 :> OneSignal("limit")) @@ (s3 :> OneSignal("market"))
OneQuote == [bid |-> 99, ask |-> 100]
TwoLevels == {1000, 900}

(* Two signals without restarts, or one with. *)
Cases ==
    {[mode |-> "run", signals |-> {s1, s3}, restarts |-> 0, demotes |-> FALSE],
     [mode |-> "run", signals |-> {s1}, restarts |-> 1, demotes |-> FALSE],
     [mode |-> "pump", signals |-> {s1, s2}, restarts |-> 0, demotes |-> TRUE],
     [mode |-> "pump", signals |-> {s1}, restarts |-> 1, demotes |-> TRUE],
     [mode |-> "pump", signals |-> {s2}, restarts |-> 1, demotes |-> TRUE]}

OneSymbol == {"EURUSD"}
Bases == [s \in OneSymbol |-> "EUR"]
Quotes == [s \in OneSymbol |-> "USD"]
LotCaps == [s \in OneSymbol |-> 20]
StageCaps == [demo_only |-> 0, micro |-> 2, live |-> 10, scaled |-> 15]
=============================================================================
