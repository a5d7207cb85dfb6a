-------------------------------- MODULE AiTrader --------------------------------
(***************************************************************************)
(* Claude's two tracks (ai/trader.py, ai/decision.py): a question is asked *)
(* when a setup or an M15 bar comes, and its answer is acted on when it    *)
(* returns, at the price and under the stage of that moment.               *)
(*                                                                         *)
(* One symbol, prices in ticks.  Market time and wall time are two clocks: *)
(* the simulated market runs faster.  The checklist is part of an answer   *)
(* that takes.                                                             *)
(***************************************************************************)
EXTENDS Integers, Sequences, FiniteSets, SequencesExt

CONSTANTS Tracks, Free,           \* the tracks, and the one of them that trades on its own
          Setups,                 \* what the coded rules find: [side, sweep], sweep 0 for none
          Answers,                \* takes: [side, stop, target]
          Bids, Spread, MinRR, MaxStop,
          MaxCalls, Window,       \* at most MaxCalls questions in Window of wall time
          FreeEvery, MaxAge,
          MaxTime, MaxWall        \* bounds

VARIABLES now, wall,
          trading,      \* the tracks in a money stage
          held,         \* the tracks with a position, by the last account update
          bid,          \* the last quote, 0 before the first
          asking,       \* busy: track -> its question, in flight
          calls, lastFree,
          asked, sent   \* history: the wall times of all questions, and the signals sent

vars == <<now, wall, trading, held, bid, asking, calls, lastFree, asked, sent>>

NoSetup == [side |-> "any", sweep |-> 0]
Never == -1

Init ==
    /\ now = 0 /\ wall = 0 /\ trading = {} /\ held = {} /\ bid = 0
    /\ asking = <<>> /\ calls = <<>> /\ lastFree = Never
    /\ asked = <<>> /\ sent = <<>>

-----------------------------------------------------------------------------
Tick ==
    /\ \/ now < MaxTime /\ now' = now + 1 /\ UNCHANGED wall
       \/ wall < MaxWall /\ wall' = wall + 1 /\ UNCHANGED now
    /\ UNCHANGED <<trading, held, bid, asking, calls, lastFree, asked, sent>>

(* _on_stage: the owner switches a track on or off in the hub. *)
OnStage(t) ==
    /\ trading' = IF t \in trading THEN trading \ {t} ELSE trading \union {t}
    /\ UNCHANGED <<now, wall, held, bid, asking, calls, lastFree, asked, sent>>

(* _on_account. *)
OnAccount(S) ==
    /\ held' = S
    /\ UNCHANGED <<now, wall, trading, bid, asking, calls, lastFree, asked, sent>>

(* _on_quote. *)
OnQuote(b) ==
    /\ bid' = b
    /\ UNCHANGED <<now, wall, trading, held, asking, calls, lastFree, asked, sent>>

(* blocked: the calls of the last Window, after popleft of those before it. *)
Recent ==
    LET gone == Max({k \in 0..Len(calls) : \A i \in 1..k : wall - calls[i] > Window})
    IN  SubSeq(calls, gone + 1, Len(calls))
Blocked(t) ==
    \/ t \notin trading \/ t \in DOMAIN asking \/ t \in held
    \/ Len(Recent) >= MaxCalls
    \/ t = Free /\ lastFree # Never /\ wall - lastFree < FreeEvery

(* ask: the judge's track of a setup, the free one of a closed M15 bar. *)
Ask(t, setup) ==
    /\ (t = Free) = (setup = NoSetup)
    /\ ~Blocked(t)
    /\ calls' = Append(Recent, wall)
    /\ asked' = Append(asked, wall)
    /\ lastFree' = IF t = Free THEN wall ELSE lastFree
    /\ asking' = [x \in DOMAIN asking \union {t} |-> IF x = t THEN [at |-> now, bid |-> bid, setup |-> setup] ELSE asking[x]]
    /\ UNCHANGED <<now, wall, trading, held, bid, sent>>

-----------------------------------------------------------------------------
Done(t) == asking' = [x \in DOMAIN asking \ {t} |-> asking[x]]

(* check: the rules of the method, at this price. *)
Passes(a, setup, b) ==
    LET buy == a.side = "buy"
        entry == IF buy THEN b + Spread ELSE b
        risk == IF buy THEN entry - a.stop ELSE a.stop - entry
        reward == IF buy THEN a.target - entry ELSE entry - a.target
    IN  /\ setup.side \in {"any", a.side}
        /\ risk > 0 /\ reward > 0 /\ risk <= MaxStop /\ reward >= MinRR * risk
        /\ setup.sweep = 0 \/ (IF buy THEN a.stop <= setup.sweep ELSE a.stop >= setup.sweep)

(* Mutant: the answer is checked at the price Claude was shown. *)
AcceptsAsShown(t, a) ==
    /\ t \in trading /\ now - asking[t].at <= MaxAge
    /\ bid # 0 /\ Passes(a, asking[t].setup, asking[t].bid)

(* act: the track still trades, and the answer is not too late for the price of now. *)
Accepts(t, a) ==
    /\ t \in trading /\ now - asking[t].at <= MaxAge
    /\ bid # 0 /\ Passes(a, asking[t].setup, bid)

(* An answer that takes: its signal is published. *)
Take(t, a) ==
    /\ t \in DOMAIN asking /\ Accepts(t, a)
    /\ sent' = Append(sent, [track |-> t, live |-> t \in trading, age |-> now - asking[t].at, bid |-> bid,
                             setup |-> asking[t].setup, answer |-> a])
    /\ Done(t)
    /\ UNCHANGED <<now, wall, trading, held, bid, calls, lastFree, asked>>

(* It skips, is refused, or the call failed. *)
Pass(t) ==
    /\ t \in DOMAIN asking
    /\ Done(t)
    /\ UNCHANGED <<now, wall, trading, held, bid, calls, lastFree, asked, sent>>

Next ==
    \/ Tick
    \/ \E t \in Tracks :
           \/ OnStage(t) \/ Pass(t)
           \/ \E setup \in Setups \union {NoSetup} : Ask(t, setup)
           \/ \E a \in Answers : Take(t, a)
    \/ \E S \in SUBSET Tracks : OnAccount(S)
    \/ \E b \in Bids : OnQuote(b)

Spec == Init /\ [][Next]_vars

-----------------------------------------------------------------------------
(* Clocks, questions and signals have their types. *)
AiTypeOK ==
    /\ now \in 0..MaxTime /\ wall \in 0..MaxWall
    /\ trading \subseteq Tracks /\ held \subseteq Tracks /\ bid \in Bids \union {0}
    /\ DOMAIN asking \subseteq Tracks /\ \A t \in DOMAIN asking : asking[t].at \in 0..now
    /\ Range(calls) \subseteq 0..wall /\ lastFree \in Never..wall

(* Whatever happened while Claude was thinking: a signal is sent by a track that is
   trading, no later than MaxAge, and keeps the method's rules at the price it will get,
   on the side of its setup; and there are never more than MaxCalls questions in any
   Window (trader.py:8-12, 187-290, decision.py check). *)
AnswersInTime ==
    /\ \A i \in DOMAIN sent :
           /\ sent[i].live /\ sent[i].age <= MaxAge
           /\ Passes(sent[i].answer, sent[i].setup, sent[i].bid)
    /\ \A i \in DOMAIN asked :
           Cardinality({j \in 1..i : asked[i] - asked[j] <= Window}) <= MaxCalls
    /\ Len(sent) + Cardinality(DOMAIN asking) <= Len(asked)
================================================================================
