------------------------------- MODULE MCParts -------------------------------
(***************************************************************************)
(* The parts of the system that share no state with each other, for TLC in *)
(* one run: every behaviour is one of a single part.  The lifecycle keeps  *)
(* the names of its variables; the variables of any other part are x1, x2, *)
(* and so on, in the order in which its module declares them, and those it *)
(* does not need stay 0.                                                   *)
(***************************************************************************)
EXTENDS MCLifecycle, Integers, FiniteSets

VARIABLES part, x1, x2, x3, x4, x5, x6, x7, x8, x9, x10, x11, x12, x13, x14, x15, x16

xs == <<x1, x2, x3, x4, x5, x6, x7, x8, x9, x10, x11, x12, x13, x14, x15, x16>>

-----------------------------------------------------------------------------
(* Two tasks that call the broker, over the session and over HTTP. *)
Operations == [c1 |-> {"market"}, c2 |-> {"pending", "modify", "cancel", "close"}]

Session == INSTANCE BrokerSession WITH
    Callers <- {"c1", "c2"}, Kinds <- {"ctrader", "http"}, OpsOf <- Operations, MaxRequests <- [c1 |-> 2, c2 |-> 1],
    MaxFaults <- 1,
    kind <- x1, t <- x2, alive <- x3, opened <- x4, auth <- x5, fatal <- x6, lock <- x7,
    call <- x8, sent <- x9, inbox <- x10, outbox <- x11, done <- x12, partly <- x13,
    answers <- x14, faults <- x15

(* Two writers of a ledger. *)
Chain == INSTANCE Ledger WITH
    Writers <- {"w1", "w2"}, Stores <- {"jsonl", "postgres"}, MaxAppends <- 4, MaxCrashes <- 2,
    store <- x1, file <- x2, holder <- x3, prev <- x4, tail <- x5, hashes <- x6,
    crashes <- x7

(* A backtest with an order of every type, on bars that rise, gap and fall. *)
Ticket(id, side, type, entry, stop, target, expiry) ==
    [id |-> id, side |-> side, type |-> type, entry |-> entry, stop |-> stop, target |-> target, expiry |-> expiry]
Candle(o, h, l, c) == [o |-> o, h |-> h, l |-> l, c |-> c]

Backtest == INSTANCE SimBroker WITH
    Signals <- {Ticket("m", "buy", "market", 0, 1, 5, 0), Ticket("l", "sell", "limit", 3, 5, 2, 1),
                Ticket("s", "buy", "stop", 5, 3, 0, 2)},
    Shapes <- {Candle(3, 3, 3, 3), Candle(3, 5, 3, 4), Candle(4, 4, 1, 2), Candle(1, 2, 1, 2)},
    Stops <- {2}, Spread <- 1, Slip <- 1, CommissionSide <- 1, SwapPerNight <- 2, OpenRiskMax <- 6,
    MaxBars <- 4, MaxRequests <- 4,
    n <- x1, last <- x2, broker <- x3, every <- x4, asked <- x5, requests <- x6, over <- x7

(* One runner on the live bars. *)
Bars == INSTANCE LiveBars WITH
    Runners <- <<"r1">>, Minute <- 2, Htf <- 2, Grace <- 1, MaxTime <- 7, MaxQuotes <- 3, MaxLag <- 1,
    now <- x1, stream <- x2, published <- x3, cycle <- x4, builder <- x5,
    series <- x6, stopped <- x7, pumped <- x8, tardy <- x9

(* Two alerts. *)
Router == INSTANCE Alerts WITH
    MaxAlerts <- 2, sent <- x1, active <- x2, outbox <- x3, tick <- x4, chat <- x5,
    told <- x6, acked <- x7

(* Two versions of a family, two epochs. *)
Validated == INSTANCE Validation WITH
    Versions <- {"v1", "v2"}, Family <- [v1 |-> "f", v2 |-> "f"], Epochs <- {"e1", "e2"}, MaxPerFamily <- 1,
    Candidates <- 2, MaxWindows <- 2, Variants <- 2, Pairs <- 1, MinPairs <- 1, MaxRuns <- 2, MaxCrashes <- 1,
    ledger <- x1, run <- x2, reports <- x3, seen <- x4, runs <- x5, crashes <- x6

(* A shadow signal and one of a money version. *)
Journalled == INSTANCE SignalJournal WITH
    Signals <- {"x", "y"}, Shadow <- {"x"}, Horizon <- 2, MaxBars <- 2, MaxCrashes <- 1,
    bars <- x1, made <- x2, signals <- x3, decisions <- x4, entries <- x5, open <- x6,
    intents <- x7, file <- x8, out <- x9, trades <- x10, given <- x11, crashes <- x12

(* A shadow signal of every type, with a rollover on the way. *)
Shadowed == INSTANCE ShadowBroker WITH
    Signals <- {Ticket("m", "buy", "market", 0, 2, 6, 0), Ticket("l", "sell", "limit", 4, 7, 3, 2),
                Ticket("s", "buy", "stop", 6, 4, 0, 0)},
    Bids <- {2, 6}, Stops <- {3}, Spread <- 1, CommissionSide <- 1, SwapPerNight <- 1, Day <- 2,
    MaxTime <- 2, MaxQuotes <- 3, MaxLag <- 1, MaxRequests <- 2,
    now <- x1, fed <- x2, seen <- x3, pending <- x4, positions <- x5, trades <- x6,
    asked <- x7, requests <- x8

(* Both tracks, a setup, and answers that pass at one price and not at another. *)
Answer(side, stop, target) == [side |-> side, stop |-> stop, target |-> target]
Claude == INSTANCE AiTrader WITH
    Tracks <- {"judge", "free"}, Free <- "free", Setups <- {[side |-> "buy", sweep |-> 2]},
    Answers <- {Answer("buy", 2, 9), Answer("buy", 3, 9), Answer("sell", 6, 1)},
    Bids <- {3, 5}, Spread <- 1, MinRR <- 2, MaxStop <- 3, MaxCalls <- 2, Window <- 1, FreeEvery <- 1, MaxAge <- 0,
    MaxTime <- 1, MaxWall <- 1,
    now <- x1, wall <- x2, trading <- x3, held <- x4, bid <- x5, asking <- x6,
    calls <- x7, lastFree <- x8, asked <- x9, sent <- x10

(* One entry of two lots, which can rest, fill, be lost, or close in parts. *)
Reconciled == INSTANCE Reconcile WITH
    Orders <- {"o1"}, Expired <- {"o1"}, Lots <- 2, MaxEvents <- 2,
    journal <- x1, broker <- x2, deals <- x3, seen <- x4, expected <- x5, episode <- x6, halted <- x7,
    job <- x8, trades <- x9, raced <- x10, adopted <- x11, quiet <- x12, events <- x13

(* A conversation of two messages, with saves and a restart. *)
Talk == INSTANCE Assistant WITH
    Rounds <- 2, MaxCalls <- 3, MaxPosts <- 2, MaxSaves <- 2, MaxRestarts <- 1,
    disk <- x1, reply <- x2, calls <- x3, saving <- x4, kept <- x5, known <- x6, count <- x7,
    crossed <- x8, resaved <- x9

(* Twelve candles that between them make every pattern, and one without range. *)
Patterns == INSTANCE Candlestick WITH
    Candles <- {<<20, 32, 19, 19>>, <<22, 22, 6, 20>>, <<11, 20, 0, 10>>, <<12, 24, 11, 23>>, <<16, 18, 0, 18>>,
                <<20, 20, 0, 0>>, <<10, 20, 0, 11>>, <<5, 18, 5, 7>>, <<28, 28, 17, 18>>, <<4, 20, 4, 18>>,
                <<1, 17, 0, 16>>, <<25, 25, 14, 15>>, <<10, 10, 10, 10>>},
    MaxBars <- 4, bars <- x1, last <- x2

(* Bars that climb, jump and fall back. *)
Swing(h, l, c) == [h |-> h, l |-> l, c |-> c]
Swings == INSTANCE Structure WITH
    Shapes <- {Swing(4, 2, 3), Swing(6, 4, 5), Swing(8, 6, 7), Swing(9, 3, 4), Swing(5, 1, 2)},
    Left <- 1, Right <- 1, AtrN <- 2, KA <- 2, BA <- 1, MaxLevels <- 2, MaxBars <- 6,
    bars <- x1, window <- x2, trend <- x3, book <- x4, said <- x5

(* A market that has just swept a low, the same mirrored, and contexts of both sides. *)
Setup(sell) == [sell |-> sell, zones |-> {<<0, 3>>, <<-9, -2>>}, liq |-> {14, 20, -1}]
Swept == [i \in 1..10 |-> Candle(5, 5, 4, 4)] \o <<Candle(4, 5, 3, 4), Candle(4, 6, 4, 5), Candle(5, 5, 3, 4), Candle(4, 4, 2, 4)>>
Hunter == INSTANCE Sniper WITH
    Histories <- {Swept}, Shapes <- {Candle(4, 7, 4, 7), Candle(6, 7, 6, 7), Candle(5, 5, 1, 4)}, Hour <- 6,
    Contexts <- {Setup(TRUE), Setup(FALSE)}, NoContext <- [sell |-> FALSE, zones |-> {}, liq |-> {}],
    Lookback <- 4, Window <- 3, Disp <- 2, Tol <- 0, StopAt <- "pullback", Buffer <- 1, MaxStop <- 4,
    MinRR <- 2, Spread <- 1, MaxBars <- 7,
    mirror <- x1, past <- x2, m5 <- x3, ctx <- x4, hunt <- x5, used <- x6, open <- x7, signals <- x8

(* An order from its signal on and one that rests at the broker before the monitor starts. *)
Told == INSTANCE Journeys WITH
    Refs <- {"r", "e"}, Early <- {"e"}, Slips <- {1, 3}, Modelled <- 1, Window <- 1, MaxJourneys <- 1, MaxUnread <- 2,
    MaxRestarts <- 1,
    life <- x1, queue <- x2, known <- x3, status <- x4, counts <- x5, fills <- x6, breached <- x7,
    crossed <- x8, slips <- x9, warned <- x10, restarts <- x11

(* Two days, with drawdowns of nine and five percent. *)
Watched == INSTANCE Monitor WITH
    Equities <- {91, 95, 100}, Pause <- 8, Resume <- 4, Day <- 3, Close <- 2, None <- NoVersion, MaxTrades <- 1, MaxHalts <- 1,
    MaxTime <- 5, MaxLate <- 1, MaxRestarts <- 1,
    time <- x1, account <- x2, peak <- x3, dayStart <- x4, trades <- x5, halts <- x6, rolled <- x7, paused <- x8,
    judged <- x9, truePeak <- x10, last <- x11, started <- x12, late <- x13, haltsTold <- x14, haltsRead <- x15,
    restarts <- x16

(* Four weeks of costs that rise and fall in two markets, one of them not always quoted. *)
Costed == INSTANCE CostModel WITH
    Markets <- {"a", "b"}, Costs <- {1, 2}, Gaps <- {"a"}, None <- NoVersion, MinFills <- 1, Weeks <- 2, MaxWeeks <- 4,
    MaxFills <- 1,
    fills <- x1, registry <- x2

(* A file with a small value and one at zero, and a value that cannot move. *)
File(patch, value) == [patch |-> patch, value |-> value]
Refit == INSTANCE Reopt WITH
    Files <- {File(0, 6), File(1, 3), File(0, 0)}, Lo <- 0, Hi <- 12, Band <- 10, Cap <- 25, Scores <- {1, 2},
    NoScore <- 0, Budget <- 2, MaxRuns <- 2,
    registry <- x1, trials <- x2, steps <- x3, failed <- x4, runs <- x5

(* Two weeks, and a restart. *)
Events == INSTANCE Calendar WITH
    MaxAge <- 2, MinInterval <- 2, Week <- 3, None <- NoVersion, MaxTime <- 6, MaxRestarts <- 1,
    now <- x1, fetchedAt <- x2, export <- x3, lastTry <- x4, cache <- x5, writing <- x6, dead <- x7, fetches <- x8,
    restarts <- x9

(* Two watched services, two entries of the system's and one of the owner's; the timeout is less than a unit of time. *)
Dog == INSTANCE Watchdog WITH
    Services <- {"engine", "gate"}, Orders <- {"o1", "o2", "owners"}, Ours <- {"o1", "o2"}, Timeout <- 0,
    None <- NoVersion, MaxTime <- 2, MaxRestarts <- 1,
    now <- x1, startedAt <- x2, lastBeat <- x3, tripped <- x4, cancelDone <- x5, entries <- x6, cancelled <- x7,
    passing <- x8, todo <- x9, refused <- x10, late <- x11, restarts <- x12

-----------------------------------------------------------------------------
(* The variables from x13 on, from x11 on, ... are not used. *)
Zero14 == x14 = 0 /\ x15 = 0 /\ x16 = 0
Zero13 == x13 = 0 /\ Zero14
Zero12 == x12 = 0 /\ Zero13
Zero11 == x11 = 0 /\ Zero12
Zero10 == x10 = 0 /\ Zero11
Zero9 == x9 = 0 /\ Zero10
Zero8 == x8 = 0 /\ Zero9
Zero7 == x7 = 0 /\ Zero8
Zero6 == x6 = 0 /\ Zero7
Zero3 == x3 = 0 /\ x4 = 0 /\ x5 = 0 /\ Zero6
Zero1 == x1 = 0 /\ x2 = 0 /\ Zero3

PartsInit ==
    \/ part = "lifecycle" /\ Init /\ Zero1
    \/ /\ Init /\ ledger = Racing
       /\ \/ part = "session" /\ Session!Init /\ x16 = 0
          \/ part = "ledger" /\ Chain!Init /\ Zero8
          \/ part = "backtest" /\ Backtest!Init /\ Zero8
          \/ part = "bars" /\ Bars!Init /\ Zero10
          \/ part = "alerts" /\ Router!Init /\ Zero8
          \/ part = "validation" /\ Validated!Init /\ Zero7
          \/ part = "journal" /\ Journalled!Init /\ Zero13
          \/ part = "shadow" /\ Shadowed!Init /\ Zero9
          \/ part = "claude" /\ Claude!Init /\ Zero11
          \/ part = "assistant" /\ Talk!Init /\ Zero10
          \/ part = "candles" /\ Patterns!Init /\ Zero3
          \/ part = "swings" /\ Swings!Init /\ Zero6
          \/ part = "sniper" /\ Hunter!Init /\ Zero9
          \/ part = "reconcile" /\ Reconciled!Init /\ Zero14
          \/ part = "journeys" /\ Told!Init /\ Zero12
          \/ part = "monitor" /\ Watched!Init
          \/ part = "costs" /\ Costed!Init /\ Zero3
          \/ part = "reopt" /\ Refit!Init /\ Zero6
          \/ part = "calendar" /\ Events!Init /\ Zero10
          \/ part = "watchdog" /\ Dog!Init /\ Zero13

(* A step of another part leaves the lifecycle alone. *)
Rest == part' = part /\ UNCHANGED vars

PartsNext ==
    \/ part = "lifecycle" /\ Next /\ part' = part /\ UNCHANGED xs
    \/ part = "session" /\ Session!Next /\ UNCHANGED x16 /\ Rest
    \/ part = "ledger" /\ Chain!Next /\ UNCHANGED <<x8, x9, x10, x11, x12, x13, x14, x15, x16>> /\ Rest
    \/ part = "backtest" /\ Backtest!Next /\ UNCHANGED <<x8, x9, x10, x11, x12, x13, x14, x15, x16>> /\ Rest
    \/ part = "bars" /\ Bars!Next /\ UNCHANGED <<x10, x11, x12, x13, x14, x15, x16>> /\ Rest
    \/ part = "alerts" /\ Router!Next /\ UNCHANGED <<x8, x9, x10, x11, x12, x13, x14, x15, x16>> /\ Rest
    \/ part = "validation" /\ Validated!Next /\ UNCHANGED <<x7, x8, x9, x10, x11, x12, x13, x14, x15, x16>> /\ Rest
    \/ part = "journal" /\ Journalled!Next /\ UNCHANGED <<x13, x14, x15, x16>> /\ Rest
    \/ part = "shadow" /\ Shadowed!Next /\ UNCHANGED <<x9, x10, x11, x12, x13, x14, x15, x16>> /\ Rest
    \/ part = "claude" /\ Claude!Next /\ UNCHANGED <<x11, x12, x13, x14, x15, x16>> /\ Rest
    \/ part = "assistant" /\ Talk!Next /\ UNCHANGED <<x10, x11, x12, x13, x14, x15, x16>> /\ Rest
    \/ part = "candles" /\ Patterns!Next /\ UNCHANGED <<x3, x4, x5, x6, x7, x8, x9, x10, x11, x12, x13, x14, x15, x16>> /\ Rest
    \/ part = "swings" /\ Swings!Next /\ UNCHANGED <<x6, x7, x8, x9, x10, x11, x12, x13, x14, x15, x16>> /\ Rest
    \/ part = "sniper" /\ Hunter!Next /\ UNCHANGED <<x9, x10, x11, x12, x13, x14, x15, x16>> /\ Rest
    \/ part = "reconcile" /\ Reconciled!Next /\ UNCHANGED <<x14, x15, x16>> /\ Rest
    \/ part = "journeys" /\ Told!Next /\ UNCHANGED <<x12, x13, x14, x15, x16>> /\ Rest
    \/ part = "monitor" /\ Watched!Next /\ Rest
    \/ part = "costs" /\ Costed!Next /\ UNCHANGED <<x3, x4, x5, x6, x7, x8, x9, x10, x11, x12, x13, x14, x15, x16>> /\ Rest
    \/ part = "reopt" /\ Refit!Next /\ UNCHANGED <<x6, x7, x8, x9, x10, x11, x12, x13, x14, x15, x16>> /\ Rest
    \/ part = "calendar" /\ Events!Next /\ UNCHANGED <<x10, x11, x12, x13, x14, x15, x16>> /\ Rest
    \/ part = "watchdog" /\ Dog!Next /\ UNCHANGED <<x13, x14, x15, x16>> /\ Rest

partsVars == <<part, vars, xs>>

(* The fairness of the alert router, as its module states it. *)
AlertsOnly(A) ==
    part = "alerts" /\ A /\ UNCHANGED <<x8, x9, x10, x11, x12, x13, x14, x15, x16>> /\ Rest

PartsFairness ==
    /\ WF_partsVars(AlertsOnly(Router!Begin))
    /\ WF_partsVars(AlertsOnly(\E S \in {{}, x5} : Router!Acks(S)))
    /\ WF_partsVars(AlertsOnly(\E ok \in BOOLEAN : Router!Repeat(ok) \/ Router!Deliver(ok)))
    /\ \A a \in 1..2 : SF_partsVars(AlertsOnly(Router!Reaches(a)))

PartsSpec == PartsInit /\ [][PartsNext]_partsVars /\ PartsFairness

-----------------------------------------------------------------------------
(* The type invariant of every part. *)
PartsTypeOK ==
    CASE part = "lifecycle"  -> LifecycleTypeOK
      [] part = "session"    -> Session!SessionTypeOK
      [] part = "ledger"     -> Chain!LedgerTypeOK
      [] part = "backtest"   -> Backtest!SimTypeOK
      [] part = "bars"       -> Bars!BarsTypeOK
      [] part = "alerts"     -> Router!AlertsTypeOK
      [] part = "validation" -> Validated!ValidationTypeOK
      [] part = "journal"    -> Journalled!JournalTypeOK
      [] part = "shadow"     -> Shadowed!ShadowTypeOK
      [] part = "claude"     -> Claude!AiTypeOK
      [] part = "assistant"  -> Talk!AssistantTypeOK
      [] part = "candles"    -> Patterns!CandlestickTypeOK
      [] part = "swings"     -> Swings!StructureTypeOK
      [] part = "sniper"     -> Hunter!SniperTypeOK
      [] part = "reconcile"  -> Reconciled!ReconcileTypeOK
      [] part = "journeys"   -> Told!JourneysTypeOK
      [] part = "monitor"    -> Watched!MonitorTypeOK
      [] part = "costs"      -> Costed!CostTypeOK
      [] part = "reopt"      -> Refit!ReoptTypeOK
      [] part = "calendar"   -> Events!CalendarTypeOK
      [] part = "watchdog"   -> Dog!WatchdogTypeOK

(* The properties of the parts, each stated in its module; the lifecycle's DemotedIsClosed and
   StagesTold need no other name. *)

(* BrokerSession: an operation that reports success was applied, one that reports a refusal was not. *)
AnswersAreTrue == part = "session" => Session!AnswersAreTrue

(* Ledger: each record carries the hash of the one before it, whoever writes and whoever dies. *)
ChainUnbroken == part = "ledger" => Chain!ChainUnbroken

(* SimBroker and ShadowBroker: no event is skipped, the books balance, no fill looks ahead, and a shadow
   order fills and ends as a real one might have. *)
FillsHonest ==
    /\ part = "backtest" => Backtest!BacktestHonest
    /\ part = "shadow" => Shadowed!ShadowHonest

(* LiveBars: a quote in time is in one bar of each timeframe, and nothing raises. *)
BarsHoldTheirQuotes == part = "bars" => Bars!BarsHoldTheirQuotes

(* Validation, CostModel, Reopt and Calendar: the holdout of an epoch is seen once per family and a pass stands on an
   honest count of trials, a cheaper cost model waits, a challenger is a step from its parent, and a calendar is no
   older than it says. *)
LearningHonest ==
    /\ part = "validation" => Validated!HoldoutKept
    /\ part = "costs" => Costed!CheaperWaits
    /\ part = "reopt" => Refit!StepsCapped
    /\ part = "calendar" => Events!CalendarHonest

(* Lifecycle, SignalJournal, Journeys and Monitor: the ledger of the versions keeps to the ladder; an outcome stands,
   and what was told is what the file says; a journey read in order says what became of its order; and the daily
   summaries add up. *)
RecordsStand ==
    /\ part = "lifecycle" => LadderKept
    /\ part = "journal" => Journalled!JournalStands
    /\ part = "journeys" => Told!JourneysTell
    /\ part = "monitor" => Watched!MonitorHolds

(* AiTrader and Assistant: an answer of Claude is used on the market as it is when it comes; what is sent to
   Claude is a conversation, whatever failed before, and a saved version that ran can still be read. *)
AnswersHold ==
    /\ part = "claude" => Claude!AnswersInTime
    /\ part = "assistant" => Talk!AssistantKeepsItsWord

(* Candlestick, Structure and Sniper: what was said of a bar when it closed is what the arrays say of it ever
   after, and a sweep fires once, at the first return to the level it broke. *)
SetupsStand ==
    /\ part = "candles" => Patterns!PatternsAgree
    /\ part = "swings" => Swings!StructureStands
    /\ part = "sniper" => Hunter!OneShot

(* Reconcile and Watchdog: a check that finds nothing leaves journal and broker agreed, and a lost service leaves no
   entry at the broker that a pass could have cancelled. *)
FailuresMended ==
    /\ part = "reconcile" => Reconciled!BooksRepaired
    /\ part = "watchdog" => Dog!OutageCancels

(* Alerts: an alert that waits is delivered or acknowledged in the end. *)
AlertsArrive ==
    \A a \in 1..2 : (part = "alerts" /\ Router!Waits(a)) ~> (part = "alerts" => ~Router!Waits(a))
=============================================================================
