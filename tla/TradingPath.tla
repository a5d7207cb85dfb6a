---------------------------- MODULE TradingPath ----------------------------
(***************************************************************************)
(* From a signal to an order: the engine, the allocator, the risk gate and *)
(* execution, with the lifecycle that demotes, over the message bus.       *)
(*                                                                         *)
(* The bus keeps every stream as a log and a cursor per reader (core/      *)
(* bus.py).  Mode "run": each service is a process, each stream it reads a *)
(* task, and a restarted process gets its unacknowledged message again.    *)
(* Mode "pump": one process delivers in a fixed order until nothing moves, *)
(* once a minute (cli/demo.py), and a restart loses the streams.           *)
(***************************************************************************)
EXTENDS RiskGate, SequencesExt

CONSTANTS Signals,        \* the signals the strategies will emit
          SignalOf,       \* signal -> [strategy, symbol, side, type, price, stop]
          Quote,          \* [bid, ask] of every symbol
          Levels,         \* the account's equity
          HaltBelow,      \* the equity below which a loss halt is entered
          FreeMargin, MarginPerLot,
          Budget,         \* the allocator's risk fraction, thousandths of the equity
          MaxAccountAge,  \* RiskGateService.max_account_age
          DecisionTtl,    \* decision_ttl_seconds
          Scenarios,      \* bound: [mode, signals emitted, restarts, whether a demotion is explored]
          MaxLag,         \* bound: from reading the positions to stamping the update
          MaxTime, MaxUpdates    \* bounds

ASSUME TradingPathAssumption ==
    /\ IsFiniteSet(Signals)
    /\ SignalOf \in [Signals -> [strategy : STRING, symbol : STRING, side : {"buy", "sell"},
                                 type : {"market", "limit", "stop"}, price : Nat \ {0}, stop : Nat \ {0}]]
    /\ Quote \in [bid : Nat \ {0}, ask : Nat \ {0}]
    /\ FreeMargin \in Nat /\ MarginPerLot \in Nat /\ Budget \in Nat
    /\ Levels \subseteq Nat \ {0} /\ HaltBelow \in Nat
    /\ MaxAccountAge \in Nat /\ DecisionTtl \in Nat
    /\ Scenarios \subseteq [mode : {"run", "pump"}, signals : SUBSET Signals, restarts : Nat, demotes : BOOLEAN]
    /\ MaxLag \in Nat /\ MaxTime \in Nat /\ MaxUpdates \in Nat

VARIABLES mode, scenario,
          time,
          log, cursor,     \* the bus
          sched,           \* mode "pump": a step of Scheduler.minute, or where the pump is in Rounds
          owner,           \* mode "pump": the owner's paper_trade has started a second pump
          stage,           \* the registry's stage of the strategy version
          view,            \* the stage each service believes in
          account,         \* the last account update of the gate and of the allocator
          gate,            \* RiskState, saved: the time of the halt, and the sequence number
          intents,         \* ExecutionBusService.intents
          placing,         \* the entries whose broker call is under way
          orders, lastSeq, \* execution's journal, saved
          broker,          \* what the broker holds of each signal
          reading,         \* what publish_account has read and not yet stamped
          asked, signed,   \* history: what was proposed, and what was approved, of each signal
          entered,         \* history: the orders the broker got of each signal
          slipped,         \* history: entries a demotion could not see, or not cancel
          updates    \* account updates so far

busVars == <<log, cursor>>
riskVars == <<view, account, gate>>
execVars == <<intents, placing, orders, lastSeq>>
brokerVars == <<broker, entered>>
historyVars == <<asked, signed>>
vars == <<mode, scenario, time, busVars, sched, owner, stage, riskVars, execVars, brokerVars, reading,
          historyVars, slipped, updates>>

Streams == {"stages", "account", "signals", "intents", "decisions", "halts", "control", "trades"}

(* The services in the order build_stack lists them, and their streams in the order of
   their handlers: the order in which pump delivers. *)
Rounds ==
    <<<<"lifecycle", "trades">>,
      <<"risk", "stages">>, <<"risk", "account">>, <<"risk", "intents">>,
      <<"allocator", "stages">>, <<"allocator", "account">>, <<"allocator", "signals">>,
      <<"execution", "halts">>, <<"execution", "control">>,
      <<"execution", "intents">>, <<"execution", "decisions">>,
      <<"engine", "stages">>>>

Readers == {Rounds[i] : i \in 1..Len(Rounds)}
Services == {r[1] : r \in Readers}
Viewers == {"risk", "allocator", "engine"}

(* Scheduler.minute: the account first, then what the engine emits, then the lifecycle's hourly
   job, then the pump. *)
AtRest == 0
AtAccount == -3
AtSignals == -2
AtHourly == -1

None == "none"
Never == MaxTime + 1
NoAccount == [at |-> Never, equity |-> 0, exposures |-> {}]
Nothing == [state |-> "none", lots |-> 0]
MONEY == {"micro", "live", "scaled", "demo_only"}

(* After the start: the first snapshot of the stages has been delivered. *)
Init ==
    /\ scenario \in Scenarios /\ mode = scenario.mode
    /\ time = 0
    /\ log = [st \in Streams |-> IF st = "stages" THEN <<"live">> ELSE <<>>]
    /\ cursor = [r \in Readers |-> IF r[2] = "stages" THEN 1 ELSE 0]
    /\ sched = AtRest /\ owner = FALSE
    /\ stage = "live"
    /\ view = [v \in Viewers |-> "live"]
    /\ account = [v \in {"risk", "allocator"} |-> NoAccount]
    /\ gate = [halted |-> Never, seq |-> 0]
    /\ intents = [s \in Signals |-> 0] /\ placing = {}
    /\ orders = [s \in Signals |-> None] /\ lastSeq = 0
    /\ broker = [s \in Signals |-> Nothing]
    /\ reading = NoAccount
    /\ entered = [s \in Signals |-> <<>>]
    /\ asked = [s \in Signals |-> {}] /\ signed = [s \in Signals |-> {}]
    /\ slipped = {}
    /\ updates = 0

-----------------------------------------------------------------------------
(* The bus. *)
Publish(stream, msgs) == log' = [log EXCEPT ![stream] = @ \o msgs]
Publish2(stream1, msgs1, stream2, msgs2) ==
    log' = [log EXCEPT ![stream1] = @ \o msgs1, ![stream2] = @ \o msgs2]

Unread(r) == cursor[r] < Len(log[r[2]])
Message(r) == log[r[2]][cursor[r] + 1]

(* The reader's turn: its own task's, which is busy while it places an entry; or the pump's,
   which waits for the broker too, unless the owner's pump delivers at the same time. *)
Delivers(r) ==
    /\ Unread(r)
    /\ \/ mode = "run" /\ (r = <<"execution", "decisions">> => placing = {})
       \/ mode = "pump" /\ sched \in DOMAIN Rounds /\ Rounds[sched] = r /\ placing = {}
       \/ mode = "pump" /\ owner
    /\ cursor' = [cursor EXCEPT ![r] = @ + 1]

(* pump: the next stream of this round or of the next one; nothing to read ends it. *)
Ready == {i \in DOMAIN Rounds : Unread(Rounds[i])}
PumpMoves ==
    /\ mode = "pump" /\ sched \in DOMAIN Rounds /\ placing = {} /\ sched \notin Ready
    /\ LET ahead == {i \in Ready : i > sched}
       IN  sched' = IF ahead # {} THEN Min(ahead) ELSE IF Ready # {} THEN Min(Ready) ELSE AtRest
    /\ owner' = (owner /\ Ready # {})
    /\ UNCHANGED <<mode, scenario, time, busVars, stage, riskVars, execVars, brokerVars, reading, slipped, updates, historyVars>>

(* The scheduler in one process; processes of their own are always at every step. *)
AtStep(step) == mode = "run" \/ sched = step
MinuteMoves ==
    /\ mode = "pump"
    /\ \/ sched = AtRest /\ updates < MaxUpdates /\ sched' = AtAccount
       \/ sched = AtSignals /\ sched' = AtHourly
    /\ UNCHANGED <<mode, scenario, time, busVars, owner, stage, riskVars, execVars, brokerVars, reading, slipped, updates, historyVars>>

-----------------------------------------------------------------------------
(* The engine: a signal of a version it believes in a money stage. *)
Emit(s) ==
    /\ AtStep(AtSignals) \/ (sched = Len(Rounds) /\ placing = {})
    /\ view["engine"] \in MONEY
    /\ s \in scenario.signals /\ ~\E i \in DOMAIN log["signals"] : log["signals"][i] = s
    /\ Publish("signals", <<s>>)
    /\ UNCHANGED <<mode, scenario, time, cursor, sched, owner, stage, riskVars, execVars, brokerVars, reading,
                   slipped, updates, historyVars>>

(* _on_stage of the gate, the allocator and the engine. *)
OnStage(v) ==
    /\ Delivers(<<v, "stages">>)
    /\ view' = [view EXCEPT ![v] = Message(<<v, "stages">>)]
    /\ UNCHANGED <<mode, scenario, time, log, sched, owner, stage, account, gate, execVars, brokerVars, reading,
                   slipped, updates, historyVars>>

(* The allocator: _on_account; _on_signal and Allocator.propose. *)
AllocatorOnAccount ==
    /\ Delivers(<<"allocator", "account">>)
    /\ account' = [account EXCEPT !["allocator"] = Message(<<"allocator", "account">>)]
    /\ UNCHANGED <<mode, scenario, time, log, sched, owner, stage, view, gate, execVars, brokerVars, reading,
                   slipped, updates, historyVars>>

BudgetOf(st) ==
    CASE st \in {"micro", "demo_only"} -> StageLimit("micro")
      [] st \in {"live", "scaled"} -> Smaller(Budget, StageLimit(st))
      [] OTHER -> 0

MarketEntry(s) ==
    CASE SignalOf[s].type # "market" -> SignalOf[s].price
      [] SignalOf[s].side = "buy" -> Quote.ask
      [] OTHER -> Quote.bid

ProposedLots(s, st, equity) ==
    LET perLot == 1000 * Distance(MarketEntry(s), SignalOf[s].stop)
        lots == IF st = "demo_only" THEN MinLot ELSE Smaller((equity * BudgetOf(st)) \div perLot, MaxLot)
    IN  IF BudgetOf(st) = 0 \/ perLot = 0 \/ lots < MinLot THEN 0 ELSE lots

OnSignal ==
    LET s == Message(<<"allocator", "signals">>)
        lots == ProposedLots(s, view["allocator"], account["allocator"].equity)
    IN  /\ Delivers(<<"allocator", "signals">>)
        /\ IF account["allocator"] = NoAccount \/ lots = 0
           THEN UNCHANGED <<log, asked>>
           ELSE /\ Publish("intents", <<[signal |-> s, lots |-> lots, risk |-> BudgetOf(view["allocator"])]>>)
                /\ asked' = [asked EXCEPT ![s] = @ \union {lots}]
        /\ UNCHANGED <<mode, scenario, time, sched, owner, stage, riskVars, execVars, brokerVars, reading,
                       signed, slipped, updates>>

-----------------------------------------------------------------------------
(* The risk gate's service. *)
RiskOnAccount ==
    LET update == Message(<<"risk", "account">>)
    IN  /\ Delivers(<<"risk", "account">>)
        /\ account' = [account EXCEPT !["risk"] = update]
        /\ IF update.equity < HaltBelow /\ gate.halted = Never
           THEN /\ gate' = [gate EXCEPT !.halted = time]
                /\ Publish("halts", <<time>>)
           ELSE UNCHANGED <<gate, log>>
        /\ UNCHANGED <<mode, scenario, time, sched, owner, stage, view, execVars, brokerVars, reading, slipped, updates, historyVars>>

(* Mutant: an account update of any age will do. *)
FreshEver == account["risk"] # NoAccount

Fresh == account["risk"] # NoAccount /\ time - account["risk"].at <= MaxAccountAge

Snapshot ==
    [equity |-> account["risk"].equity, freeMargin |-> FreeMargin, bid |-> Quote.bid, ask |-> Quote.ask,
     exposures |-> account["risk"].exposures, marginPerLot |-> MarginPerLot, stage |-> view["risk"],
     blackout |-> FALSE, cutoff |-> FALSE]

Answer(intent) ==
    IF Fresh THEN Approved([intent EXCEPT !.signal = SignalOf[@]], Snapshot, gate.halted # Never) ELSE 0

(* _finish: the signed decision; basis (history) is what it counted. *)
Decide(s, lots) ==
    /\ Publish("decisions", <<[signal |-> s, lots |-> lots, at |-> time, seq |-> gate.seq + 1,
                               basis |-> {e.id : e \in account["risk"].exposures}]>>)
    /\ signed' = [signed EXCEPT ![s] = IF lots > 0 THEN @ \union {lots} ELSE @]

(* Mutants: a stale account is not answered; the sequence number is not saved. *)
OnIntentSilent ==
    LET intent == Message(<<"risk", "intents">>)
    IN  /\ Delivers(<<"risk", "intents">>)
        /\ gate' = [gate EXCEPT !.seq = @ + 1]
        /\ IF Fresh THEN Decide(intent.signal, Answer(intent)) ELSE UNCHANGED <<log, signed>>
        /\ UNCHANGED <<mode, scenario, time, sched, owner, stage, view, account, execVars, brokerVars, reading,
                       asked, slipped, updates>>

OnIntentUnsaved ==
    LET intent == Message(<<"risk", "intents">>)
    IN  /\ Delivers(<<"risk", "intents">>)
        /\ Decide(intent.signal, Answer(intent))
        /\ UNCHANGED <<mode, scenario, time, sched, owner, stage, riskVars, execVars, brokerVars, reading,
                       asked, slipped, updates>>

(* _on_intent: a numbered answer to every intent. *)
OnIntent ==
    LET intent == Message(<<"risk", "intents">>)
    IN  /\ Delivers(<<"risk", "intents">>)
        /\ gate' = [gate EXCEPT !.seq = @ + 1]
        /\ Decide(intent.signal, Answer(intent))
        /\ UNCHANGED <<mode, scenario, time, sched, owner, stage, view, account, execVars, brokerVars, reading,
                       asked, slipped, updates>>

-----------------------------------------------------------------------------
(* Execution. *)
Live == {s \in Signals : broker[s].state \in {"pending", "open"}}
Ended(s) == [broker[s] EXCEPT !.state = IF @ = "pending" THEN "cancelled" ELSE "closed"]
Slip(entries, why) == slipped' = IF mode = "pump" THEN slipped \union (entries \X {why}) ELSE slipped

(* _on_halt and apply_halt: cancel what the broker shows pending, close what it shows open. *)
OnHalt ==
    /\ Delivers(<<"execution", "halts">>)
    /\ broker' = [s \in Signals |-> IF s \in Live THEN Ended(s) ELSE broker[s]]
    /\ orders' = [s \in Signals |-> IF broker[s].state = "pending" /\ orders[s] = "pending"
                                    THEN "cancelled" ELSE orders[s]]
    /\ UNCHANGED <<mode, scenario, time, log, sched, owner, stage, riskVars, intents, placing, lastSeq, entered,
                   reading, slipped, updates, historyVars>>

(* _on_control, cancel_pending_of and close_positions_of: by the journal.  An entry that filled
   meanwhile refuses its cancel; that raises, and no position of the version is closed. *)
OnControl ==
    LET pending == {s \in Signals : orders[s] = "pending"}
        filled == {s \in pending : broker[s].state # "pending"}
        closed == IF filled = {} THEN {s \in Signals : orders[s] = "open"} ELSE {}
        ended == (pending \ filled) \union (closed \intersect Live)
    IN  /\ Delivers(<<"execution", "control">>)
        /\ broker' = [s \in Signals |-> IF s \in ended THEN Ended(s) ELSE broker[s]]
        /\ orders' = [s \in Signals |-> IF s \in pending \ filled THEN "cancelled" ELSE orders[s]]
        /\ slipped' = slipped \union ({s \in Signals : orders[s] = "sending"} \X {"sending"})
                              \union (IF filled = {} THEN {} ELSE ((Live \ pending) \union filled) \X {"refused"})
        /\ UNCHANGED <<mode, scenario, time, log, sched, owner, stage, riskVars, intents, placing, lastSeq, entered,
                       reading, updates, historyVars>>

ExecutionOnIntent ==
    LET intent == Message(<<"execution", "intents">>)
    IN  /\ Delivers(<<"execution", "intents">>)
        /\ intents' = [intents EXCEPT ![intent.signal] = intent.lots]
        /\ UNCHANGED <<mode, scenario, time, log, sched, owner, stage, riskVars, placing, orders, lastSeq, brokerVars,
                       reading, slipped, updates, historyVars>>

(* Mutants: an expired decision is good; the journal is not asked for the order. *)
VerifiedLate(d) == d.lots > 0 /\ intents[d.signal] # 0 /\ orders[d.signal] = None /\ d.seq > lastSeq
VerifiedAgain(d) == d.lots > 0 /\ intents[d.signal] # 0 /\ time <= d.at + DecisionTtl /\ d.seq > lastSeq

(* _on_decision, OrderManager.execute and DecisionVerifier.verify, up to the call of the broker:
   the consumed sequence number is saved, then the order as "sending". *)
Verified(d) ==
    /\ d.lots > 0
    /\ intents[d.signal] # 0
    /\ orders[d.signal] = None
    /\ time <= d.at + DecisionTtl
    /\ d.seq > lastSeq

OnDecision ==
    LET d == Message(<<"execution", "decisions">>)
        sends == Verified(d) /\ d.lots <= intents[d.signal]
    IN  /\ Delivers(<<"execution", "decisions">>)
        /\ lastSeq' = IF Verified(d) THEN d.seq ELSE lastSeq
        /\ IF sends
           THEN /\ orders' = [orders EXCEPT ![d.signal] = "sending"]
                /\ placing' = placing \union {[signal |-> d.signal, lots |-> d.lots, decided |-> d.at,
                                               verified |-> time, basis |-> d.basis, sent |-> FALSE]}
                /\ IF owner THEN Slip({d.signal}, "sending") ELSE UNCHANGED slipped
           ELSE UNCHANGED <<orders, placing, slipped>>
        /\ UNCHANGED <<mode, scenario, time, log, sched, owner, stage, riskVars, intents, brokerVars, reading, updates,
                       historyVars>>

(* _send: an order the broker already shows is adopted, another one is placed; the answer comes
   back with the next action. *)
Resting(s) == SignalOf[s].type # "market"
Entered(p) == [lots |-> p.lots, decided |-> p.decided, verified |-> p.verified, basis |-> p.basis, at |-> time]
Place(p) ==
    /\ ~p.sent
    /\ placing' = (placing \ {p}) \union {[p EXCEPT !.sent = TRUE]}
    /\ IF p.signal \in Live
       THEN UNCHANGED brokerVars
       ELSE /\ broker' = [broker EXCEPT ![p.signal] =
                             [state |-> IF Resting(p.signal) THEN "pending" ELSE "open", lots |-> p.lots]]
            /\ entered' = [entered EXCEPT ![p.signal] = Append(@, Entered(p))]
    /\ UNCHANGED <<mode, scenario, time, busVars, sched, owner, stage, riskVars, intents, orders, lastSeq,
                   reading, slipped, updates, historyVars>>

Acked(p) ==
    /\ p.sent
    /\ placing' = placing \ {p}
    /\ orders' = [orders EXCEPT ![p.signal] = IF Resting(p.signal) THEN "pending" ELSE "open"]
    /\ UNCHANGED <<mode, scenario, time, busVars, sched, owner, stage, riskVars, intents, lastSeq, brokerVars,
                   reading, slipped, updates, historyVars>>

Journalled(s) == IF broker[s] = Nothing THEN "rejected" ELSE broker[s].state

(* ExecutionBusService.cycle: the journal follows the broker's deals (an order left "sending" by
   a restart is found or given up by the reconciliation), closed trades go out, and
   publish_account reads what the broker holds. *)
Following == {s \in Signals : orders[s] \in {"sending", "pending", "open"} /\ \A p \in placing : p.signal # s}
Ends == {s \in Following : Journalled(s) = "closed"}

Exposures ==
    {[id |-> s, symbol |-> SignalOf[s].symbol, side |-> SignalOf[s].side, lots |-> broker[s].lots,
      entry |-> MarketEntry(s), stop |-> SignalOf[s].stop, strategy |-> SignalOf[s].strategy,
      external |-> FALSE] : s \in Live}

Cycle ==
    /\ AtStep(AtAccount)
    /\ reading = NoAccount /\ updates < MaxUpdates
    /\ orders' = [s \in Signals |-> IF s \in Following THEN Journalled(s) ELSE orders[s]]
    /\ Publish("trades", SetToSeq(Ends))
    /\ \E equity \in Levels : reading' = [at |-> time, equity |-> equity, exposures |-> Exposures]
    /\ updates' = updates + 1
    /\ UNCHANGED <<mode, scenario, time, cursor, sched, owner, stage, riskVars, intents, placing, lastSeq, brokerVars,
                   slipped, historyVars>>

(* The update is stamped with the clock after the broker's last answer. *)
PublishAccount ==
    /\ reading # NoAccount
    /\ Publish("account", <<[reading EXCEPT !.at = time]>>)
    /\ reading' = NoAccount
    /\ sched' = IF mode = "pump" THEN AtSignals ELSE sched
    /\ UNCHANGED <<mode, scenario, time, cursor, owner, stage, riskVars, execVars, brokerVars, slipped, updates, historyVars>>

-----------------------------------------------------------------------------
(* The lifecycle: an evaluation may demote the version to shadow; flush publishes the change,
   then the order to cancel and to close. *)
Demotes == scenario.demotes /\ stage = "live" /\ stage' = "shadow"
Flush == Publish2("stages", <<"shadow">>, "control", <<"close">>)

OnTrade ==
    /\ Delivers(<<"lifecycle", "trades">>)
    /\ \/ Demotes /\ Flush
       \/ UNCHANGED <<stage, log>>
    /\ UNCHANGED <<mode, scenario, time, sched, owner, riskVars, execVars, brokerVars, reading, slipped, updates, historyVars>>

Hourly ==
    /\ AtStep(AtHourly)
    /\ \/ Demotes /\ Flush
       \/ mode = "pump" /\ UNCHANGED <<stage, log>>
    /\ sched' = IF mode = "pump" THEN 1 ELSE sched
    /\ UNCHANGED <<mode, scenario, time, cursor, owner, riskVars, execVars, brokerVars, reading, slipped, updates, historyVars>>

(* DemoStack.paper_trade(on = False), a request of the owner's: between two minutes, or while
   the scheduler's pump waits for the broker; it pumps by itself. *)
OwnerStops ==
    /\ mode = "pump" /\ (sched = AtRest \/ placing # {})
    /\ Demotes /\ Flush
    /\ sched' = IF sched = AtRest THEN 1 ELSE sched
    /\ owner' = (sched # AtRest)
    /\ UNCHANGED <<mode, scenario, time, cursor, riskVars, execVars, brokerVars, reading, slipped, updates, historyVars>>

-----------------------------------------------------------------------------
(* The broker fills a resting entry, or its stop closes a position.  In one process that is
   while it waits for the broker or for the next minute. *)
Elapses == mode = "run" \/ sched = AtRest \/ placing # {} \/ reading # NoAccount

Fills(s) ==
    /\ Elapses /\ broker[s].state = "pending"
    /\ broker' = [broker EXCEPT ![s].state = "open"]
    /\ UNCHANGED <<mode, scenario, time, busVars, sched, owner, stage, riskVars, execVars, entered, reading,
                   slipped, updates, historyVars>>

Stopped(s) ==
    /\ Elapses /\ broker[s].state = "open"
    /\ broker' = [broker EXCEPT ![s] = Ended(s)]
    /\ UNCHANGED <<mode, scenario, time, busVars, sched, owner, stage, riskVars, execVars, entered, reading,
                   slipped, updates, historyVars>>

Tick ==
    /\ Elapses /\ time < MaxTime
    /\ reading # NoAccount => time < reading.at + MaxLag
    /\ time' = time + 1
    /\ UNCHANGED <<mode, scenario, busVars, sched, owner, stage, riskVars, execVars, brokerVars, reading, slipped, updates, historyVars>>

(* Mutant: the gate's start publishes nothing. *)
HaltForgotten == <<>>

(* The gate's start publishes a halt that survived; the lifecycle's, the stages. *)
HaltAgain == IF gate.halted # Never THEN <<time>> ELSE <<>>

(* Mode "run": one service restarts.  It gets the message again whose acknowledgement was not
   through, surely the one its handler was at (bound: one stream's message). *)
Restart(service, again) ==
    /\ mode = "run" /\ scenario.restarts > 0
    /\ service = "execution" /\ placing # {} => <<"execution", "decisions">> \in again
    /\ cursor' = [r \in Readers |-> IF r \in again THEN cursor[r] - 1 ELSE cursor[r]]
    /\ view' = [v \in Viewers |-> IF v = service THEN None ELSE view[v]]
    /\ account' = [v \in DOMAIN account |-> IF v = service THEN NoAccount ELSE account[v]]
    /\ log' = [log EXCEPT !["halts"] = IF service = "risk" THEN @ \o HaltAgain ELSE @,
                          !["stages"] = IF service = "lifecycle" THEN Append(@, stage) ELSE @]
    /\ IF service = "execution"
       THEN intents' = [s \in Signals |-> 0] /\ placing' = {} /\ reading' = NoAccount
       ELSE UNCHANGED <<intents, placing, reading>>
    /\ scenario' = [scenario EXCEPT !.restarts = @ - 1]
    /\ UNCHANGED <<mode, time, updates, sched, owner, stage, gate, orders, lastSeq, brokerVars, slipped, historyVars>>

(* Mode "pump": the process restarts with an empty bus. *)
RestartAll ==
    /\ mode = "pump" /\ scenario.restarts > 0
    /\ log' = [st \in Streams |-> CASE st = "stages" -> <<stage>> [] st = "halts" -> HaltAgain
                                    [] OTHER -> <<>>]
    /\ cursor' = [r \in Readers |-> 0]
    /\ sched' = 1 /\ owner' = FALSE
    /\ view' = [v \in Viewers |-> None]
    /\ account' = [v \in DOMAIN account |-> NoAccount]
    /\ intents' = [s \in Signals |-> 0] /\ placing' = {} /\ reading' = NoAccount
    /\ IF stage = "shadow" THEN Slip(Live \union {s \in Signals : orders[s] = "sending"}, "restart")
                           ELSE UNCHANGED slipped
    /\ scenario' = [scenario EXCEPT !.restarts = @ - 1]
    /\ UNCHANGED <<mode, time, updates, stage, gate, orders, lastSeq, brokerVars, historyVars>>

-----------------------------------------------------------------------------
Engine == OnStage("engine") \/ \E s \in Signals : Emit(s)
Allocator == OnStage("allocator") \/ AllocatorOnAccount \/ OnSignal
Risk == OnStage("risk") \/ RiskOnAccount \/ OnIntent
Execution ==
    \/ OnHalt \/ OnControl \/ ExecutionOnIntent \/ OnDecision
    \/ Cycle \/ PublishAccount
    \/ \E p \in placing : Place(p) \/ Acked(p)
Lifecycle == OnTrade \/ Hourly \/ OwnerStops
Broker == \E s \in Signals : Fills(s) \/ Stopped(s)
Restarts ==
    \/ RestartAll
    \/ \E service \in Services :
          \E again \in {{}} \union {{r} : r \in {r \in Readers : r[1] = service /\ cursor[r] > 0}} :
              Restart(service, again)

Next ==
    \/ PumpMoves \/ MinuteMoves
    \/ Engine \/ Allocator \/ Risk \/ Execution \/ Lifecycle
    \/ Broker \/ Tick \/ Restarts

Fairness == WF_vars(OnIntent)

Spec == Init /\ [][Next]_vars
FairSpec == Spec /\ Fairness

-----------------------------------------------------------------------------
(* The streams, what each service believes, and the orders have their types. *)
TypeOK ==
    /\ mode \in {"run", "pump"} /\ time \in 0..MaxTime /\ updates \in 0..MaxUpdates
    /\ DOMAIN log = Streams
    /\ \A r \in Readers : cursor[r] \in 0..Len(log[r[2]])
    /\ sched \in AtAccount..Len(Rounds) /\ owner \in BOOLEAN
    /\ stage \in {"live", "shadow"}
    /\ view \in [Viewers -> {None, "live", "shadow"}]
    /\ \A v \in DOMAIN account : account[v].at \in 0..Never
    /\ gate.halted \in 0..Never /\ gate.seq \in Nat /\ lastSeq \in 0..gate.seq
    /\ intents \in [Signals -> Nat]
    /\ orders \in [Signals -> {None, "sending", "pending", "open", "closed", "cancelled", "rejected"}]
    /\ \A s \in Signals : broker[s].state \in {None, "pending", "open", "closed", "cancelled"}
    /\ \A p \in placing : orders[p.signal] \in {"sending", "pending", "open"}

(* However often a signal, an intent or a decision is delivered, and whoever restarts, a signal
   enters the market at most once and with an approved size (bus.py's "handlers are idempotent"). *)
Life == INSTANCE SignalLife WITH
            Lots <- 1..MaxLot, proposed <- asked,
            approved <- signed,
            entered <- [s \in Signals |-> [i \in DOMAIN entered[s] |-> entered[s][i].lots]]
EntersOnce == Life!Spec

(* Whatever the streams' delays, nothing enters on an approval from after a halt, and nothing on
   one from before it once the approval's time to live has passed. *)
HaltStopsEntries ==
    gate.halted # Never =>
        \A s \in Signals : \A i \in DOMAIN entered[s] :
            /\ entered[s][i].decided <= gate.halted
            /\ entered[s][i].verified <= gate.halted + DecisionTtl

(* The limits see every position but the youngest: an approval counts each entry that is still
   at the broker and was there longer than an account update may be old. *)
BlindSpotBounded ==
    \A p, q \in Signals : \A i \in DOMAIN entered[p], j \in DOMAIN entered[q] :
        /\ p \in Live
        /\ entered[q][j].decided > entered[p][i].at + MaxAccountAge + MaxLag
        => p \in entered[q][j].basis

(* When the pump of the one-process demo has come to rest, a halt or a demotion has left nothing at
   the broker, but entries it could not see, could not cancel, or lost with the bus. *)
Exempt(why) == {s \in Signals : <<s, why>> \in slipped}
FlatAtRest ==
    /\ mode = "pump" /\ sched = AtRest
    => /\ gate.halted # Never => Live = {}
       /\ stage = "shadow" => Live \subseteq Exempt("sending") \union Exempt("refused") \union Exempt("restart")

(* Each intent that the bus keeps is answered, although the gate restarts. *)
Answered(s) == \E i \in DOMAIN log["decisions"] : log["decisions"][i].signal = s
Asked(s) == \E i \in DOMAIN log["intents"] : log["intents"][i].signal = s
IntentAnswered == <>[](mode = "run" => \A s \in Signals : Asked(s) => Answered(s))
=============================================================================
