------------------------------ MODULE Journeys ------------------------------
(***************************************************************************)
(* The hub's view of an order (monitor/journey.py, monitor/feed.py and the *)
(* slippage watch of monitor/state.py): the journey of each signal, the    *)
(* counters of the pipeline, and the warning that fills are worse than the *)
(* backtest's model.                                                       *)
(*                                                                         *)
(* Each stream has a reader of its own, so that a message may be read      *)
(* before one of another stream that was published earlier.  What the      *)
(* other services publish is kept to the order in which they publish it.   *)
(***************************************************************************)
EXTENDS Integers, SequencesExt, FiniteSetsExt

CONSTANTS Refs,         \* client order ids
          Early,        \* orders that rest at the broker from before the monitor started
          Slips,        \* adverse slippage of a fill; the model charges Modelled
          Modelled,
          Window,       \* fills of the slippage watch
          MaxJourneys,  \* MAX_JOURNEYS
          MaxUnread, MaxRestarts   \* bounds

VARIABLES life,     \* how far the services are with each order
          queue,    \* the messages of each stream that the monitor has not read
          known,    \* Journeys.by_ref: the orders with a journey, oldest first
          status,   \* the status of each journey
          counts,   \* Feed.counts
          fills,    \* SlippageWatch.fills: the last fills, since the start
          breached, \* SlippageWatch.breached
          crossed,  \* history: orders with a message read before an earlier one
          slips, warned,    \* history: every fill read, and the warnings sent
          restarts

vars == <<life, queue, known, status, counts, fills, breached, crossed, slips, warned, restarts>>

Streams == {"signals", "intents", "decisions", "trades", "orders"}
Steps == {"signal", "intent", "decision", "order", "fill", "trade"}

-----------------------------------------------------------------------------
(* Each message by its kind: stream, step in the feed, and rank in the order of publishing. *)
Message == [
    signal    |-> [stream |-> "signals",   step |-> "signal",   rank |-> 1, status |-> "signal"],
    sized     |-> [stream |-> "intents",   step |-> "intent",   rank |-> 2, status |-> "sized"],
    approved  |-> [stream |-> "decisions", step |-> "decision", rank |-> 3, status |-> "approved"],
    refused   |-> [stream |-> "decisions", step |-> "decision", rank |-> 3, status |-> "rejected"],
    sent      |-> [stream |-> "orders",    step |-> "order",    rank |-> 4, status |-> "sent"],
    rejected  |-> [stream |-> "orders",    step |-> "order",    rank |-> 5, status |-> "rejected"],
    pending   |-> [stream |-> "orders",    step |-> "order",    rank |-> 5, status |-> "pending"],
    cancelled |-> [stream |-> "orders",    step |-> "order",    rank |-> 6, status |-> "cancelled"],
    fill      |-> [stream |-> "orders",    step |-> "fill",     rank |-> 6, status |-> "as it was"],
    open      |-> [stream |-> "orders",    step |-> "order",    rank |-> 6, status |-> "open"],
    closed    |-> [stream |-> "trades",    step |-> "trade",    rank |-> 7, status |-> "closed"],
    flat      |-> [stream |-> "orders",    step |-> "order",    rank |-> 8, status |-> "as it was"]]

(* What the services publish when an order goes from one stage of its life to the next. *)
Stage == [
    new      |-> {<<"signal">>},
    signal   |-> {<<"sized">>},
    sized    |-> {<<"approved">>, <<"refused">>},
    approved |-> {<<"sent">>},
    sent     |-> {<<"rejected">>, <<"pending">>, <<"open", "fill">>},
    pending  |-> {<<"cancelled">>, <<"fill", "open">>},
    open     |-> {<<"closed", "flat">>},
    fill     |-> {<<"closed", "flat">>}]

(* SlippageWatch.add: whether the mean of a full window is above the model. *)
Above(f) == Len(f) = Window /\ FoldLeft(LAMBDA a, b : a + b, 0, f) > Window * Modelled

Kept(f, slip) == LET all == Append(f, slip) IN SubSeq(all, IF Len(all) > Window THEN Len(all) - Window + 1 ELSE 1, Len(all))

-----------------------------------------------------------------------------
Init ==
    /\ life = [r \in Refs |-> IF r \in Early THEN "pending" ELSE "new"]
    /\ queue = [s \in Streams |-> <<>>]
    /\ known = <<>> /\ status = [r \in Refs |-> ""]
    /\ counts = [s \in Steps |-> 0]
    /\ fills = <<>> /\ breached = FALSE
    /\ crossed = {} /\ slips = <<>> /\ warned = 0 /\ restarts = 0

(* The other services: an order goes on, and what they publish of it waits for the monitor. *)
Publish(r) ==
    /\ life[r] \in DOMAIN Stage
    /\ FoldSet(LAMBDA s, n : n + Len(queue[s]), 0, Streams) < MaxUnread
    /\ \E kinds \in Stage[life[r]], slip \in Slips :
          /\ "fill" \notin Range(kinds) => slip = Modelled
          /\ life' = [life EXCEPT ![r] = Last(kinds)]
          /\ queue' = [s \in Streams |->
                         queue[s] \o [i \in DOMAIN SelectSeq(kinds, LAMBDA k : Message[k].stream = s) |->
                            [ref |-> r, kind |-> SelectSeq(kinds, LAMBDA k : Message[k].stream = s)[i], slip |-> slip]]]
    /\ UNCHANGED <<known, status, counts, fills, breached, crossed, slips, warned, restarts>>

(* Feed.add: every message of a step counts, with a journey or without. *)
Counted(m) == [counts EXCEPT ![Message[m.kind].step] = @ + 1]

(* Journeys.add: only a signal or an intent starts a journey, and the oldest goes when there are too many. *)
Started(m) ==
    IF m.ref \in Range(known) THEN known
    ELSE IF m.kind \notin {"signal", "sized"} THEN known
    ELSE IF Len(known) = MaxJourneys THEN Append(Tail(known), m.ref)
    ELSE Append(known, m.ref)

(* Journeys._step: a fill, and the order event of a position that is flat, leave the status; a new journey is "signal". *)
Told(m) ==
    IF m.kind \in {"fill", "flat"} THEN status[m.ref] ELSE Message[m.kind].status

(* SlippageWatch.add of a fill: one warning until the mean is back under the model. *)
Watch(m) ==
    IF m.kind # "fill" THEN UNCHANGED <<fills, breached, slips, warned>>
    ELSE LET f == Kept(fills, m.slip) IN
         /\ fills' = f
         /\ slips' = Append(slips, m.slip)
         /\ breached' = IF Len(f) < Window THEN breached ELSE Above(f)
         /\ warned' = IF Above(f) /\ ~breached THEN warned + 1 ELSE warned

(* MonitorService._fed and _order: a reader hands on the next message of its stream. *)
Read(s) ==
    /\ queue[s] # <<>>
    /\ LET m == Head(queue[s]) IN
       /\ queue' = [queue EXCEPT ![s] = Tail(@)]
       /\ counts' = Counted(m)
       /\ known' = Started(m)
       /\ status' = [r \in Refs |-> IF r \notin Range(known') THEN "" ELSE IF r = m.ref THEN Told(m) ELSE status[r]]
       /\ Watch(m)
       /\ crossed' = IF \E t \in Streams : \E i \in DOMAIN queue[t] :
                           queue[t][i].ref = m.ref /\ Message[queue[t][i].kind].rank < Message[m.kind].rank
                     THEN crossed \union {m.ref} ELSE crossed
    /\ UNCHANGED <<life, restarts>>

(* The monitor's process starts again: nothing of this is kept, and the streams are read on from where they were. *)
Restart ==
    /\ restarts < MaxRestarts
    /\ known' = <<>> /\ status' = [r \in Refs |-> ""]
    /\ counts' = [s \in Steps |-> 0]
    /\ fills' = <<>> /\ breached' = FALSE /\ slips' = <<>> /\ warned' = 0
    /\ restarts' = restarts + 1
    /\ UNCHANGED <<life, queue, crossed>>

Next == Restart \/ (\E r \in Refs : Publish(r)) \/ (\E s \in Streams : Read(s))

Spec == Init /\ [][Next]_vars

-----------------------------------------------------------------------------
(* The type invariant. *)
JourneysTypeOK ==
    /\ life \in [Refs -> DOMAIN Message \union {"new"}]
    /\ DOMAIN queue = Streams
    /\ Range(known) \subseteq Refs /\ Len(known) <= MaxJourneys /\ IsInjective(known)
    /\ \A r \in Refs : status[r] = "" <=> r \notin Range(known)
    /\ counts \in [Steps -> Nat]
    /\ Len(fills) <= Window /\ breached \in BOOLEAN /\ warned \in Nat
    /\ crossed \subseteq Refs /\ restarts \in 0..MaxRestarts

(* What a journey says once all is read is what became of its order. *)
Became(r) ==
    CASE life[r] \in {"fill", "open"} -> "open"
      [] life[r] = "flat" -> "closed"
      [] OTHER -> Message[life[r]].status

AllRead == \A s \in Streams : queue[s] = <<>>

(* The warnings are the fills at which the mean of the last Window goes above the model. *)
Tips(f) == {k \in Window..Len(f) : Above(SubSeq(f, k - Window + 1, k)) /\ (k = Window \/ ~Above(SubSeq(f, k - Window, k - 1)))}

(* journey.py, feed.py, state.py (SlippageWatch): once everything is read, each journey whose messages were read as
   they were published says what became of its order - closed with a result, and not open, after a close -, the
   pipeline narrows from signal to trade, and one warning was sent for each time fills tipped over the model. *)
JourneysTell ==
    /\ \A r \in Range(known) \ crossed : AllRead => status[r] = Became(r)
    /\ AllRead /\ restarts = 0 =>
          /\ counts["trade"] <= counts["fill"] /\ counts["fill"] <= counts["order"]
          /\ counts["decision"] <= counts["intent"] /\ counts["intent"] <= counts["signal"]
    /\ warned = Cardinality(Tips(slips))
=============================================================================
