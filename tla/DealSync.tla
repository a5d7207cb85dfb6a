------------------------------ MODULE DealSync ------------------------------
(***************************************************************************)
(* Deal synchronisation over time: OrderManager.initialize and sync_deals  *)
(* (execution/order_manager.py) with the pruning in Journal.save           *)
(* (execution/journal.py).  The order's life under calls and crashes is    *)
(* OrderManager's subject; here one position is filled, partly closed,     *)
(* financed and closed, money is paid in, and time passes, and the         *)
(* question is which deals the books have counted.                         *)
(*                                                                         *)
(* sync_deals has several callers (ExecutionService.cycle, Reconciler      *)
(* .check, ExecutionBusService.cycle), so it runs in more than one task.   *)
(***************************************************************************)
EXTENDS Integers, Sequences, FiniteSets, SequencesExt, Functions

CONSTANTS Tasks,       \* the tasks that may run sync_deals
          Lots,        \* the size of the position
          Lookback,    \* deal_lookback_seconds
          Retention,   \* SEEN_DEAL_RETENTION
          MaxDelay,    \* a payment is booked with a time at most this old
          MaxTime,     \* bound: the clock
          MaxDeals,    \* bound: deals at the broker
          MaxRepeats,  \* bound: syncs while the books count more than the broker has
          MaxCrashes   \* bound: crashes

ASSUME DealSyncAssumption ==
    /\ Lots \in Nat \ {0}
    /\ Lookback \in Nat /\ Retention \in Nat /\ MaxDelay \in Nat
    /\ MaxTime \in Nat /\ MaxDeals \in Nat /\ MaxRepeats \in Nat /\ MaxCrashes \in Nat
    /\ Lookback < Retention
    /\ MaxDelay <= Lookback

VARIABLES now,      \* the clock
          log,      \* the broker's deals, in the order they were booked
          held,     \* the position's lots at the broker
          mem,      \* the part of ExecState that deals change, in memory
          journal,  \* and as last saved
          task,     \* local state of each caller of sync_deals
          start,    \* the clock and the broker's deals when initialize read the balance
          trades,   \* the closed trades handed to on_trade
          lull,     \* history: a save has dropped a deal that a query still returns
          repeats, crashes

vars == <<now, log, held, mem, journal, task, start, trades, lull, repeats, crashes>>

-----------------------------------------------------------------------------
(* A deal: its time, kind, lots and effect on the balance. *)
Deal == [time : 0..MaxTime, kind : {"in", "out", "balance"}, lots : 0..Lots, cash : Int]

Cash(kind, lots) ==
    CASE kind = "in" -> -1            \* a commission
      [] kind = "out" -> 2 * lots - 1 \* the profit of a close, or financing without lots
      [] OTHER -> 10                  \* a payment

Ids == 1..Len(log)
Total(ids) == SumFunction([i \in ids |-> log[i].cash])
Balance == Total(Ids)
Position == {i \in Ids : log[i].kind # "balance"}

None == -1

(* st, lots, entered, net (realized less costs) and out (out_lots) of the tracked order; ever is
   what seen_deals held at any time, a history variable the code does not have. *)
Init ==
    /\ now = 0
    /\ log = <<>>
    /\ held = 0
    /\ mem = [st |-> "sending", lots |-> Lots, entered |-> FALSE, net |-> 0, out |-> 0,
              seen |-> {}, ever |-> {}, cursor |-> None, since |-> None, expected |-> 0]
    /\ journal = mem
    /\ task = [c \in Tasks |-> [pc |-> "idle", todo |-> <<>>, cursor |-> 0, new |-> FALSE]]
    /\ start = [at |-> None, known |-> {}]
    /\ trades = {}
    /\ lull = FALSE
    /\ repeats = 0 /\ crashes = 0

(* Between its awaits a task runs alone; the broker's steps and the clock commute with it. *)
Turn(c) == \A d \in Tasks \ {c} : task[d].pc # "apply"
Quiet == \A c \in Tasks : task[c].pc # "apply"
Idle(t) == [t EXCEPT !.pc = "idle", !.todo = <<>>, !.new = FALSE, !.cursor = 0]

-----------------------------------------------------------------------------
(* Where a query of the deals starts.  Mutant: without the lookback. *)
SinceMutant(cursor) == cursor
Since(cursor) == cursor - Lookback

(* OrderManager.save: Journal.save forgets the deals older than the retention. *)
Awaited(m, i) ==                 \* the next query or one under way returns deal i
    \/ log[i].time >= Since(m.cursor)
    \/ \E c \in Tasks : \/ task[c].pc = "deals" /\ log[i].time >= Since(task[c].cursor)
                       \/ i \in ToSet(task[c].todo)
Pruned(m) == [m EXCEPT !.seen = {i \in @ : log[i].time >= now - Retention}]

Save(m) ==
    /\ mem' = Pruned(m)
    /\ journal' = Pruned(m)
    /\ lull' = (lull \/ \E i \in m.seen \ Pruned(m).seen : Awaited(m, i))

(* A handler that has nothing to do with deals saves. *)
OtherSave ==
    /\ Quiet
    /\ start.at # None
    /\ Save(mem)
    /\ UNCHANGED <<now, log, held, task, start, trades, repeats, crashes>>

(* initialize: the account is read, and only after the answer the clock. *)
ReadBalance ==
    /\ start.at = None
    /\ start' = [at |-> now, known |-> Ids]
    /\ UNCHANGED <<now, log, held, mem, journal, task, trades, lull, repeats, crashes>>

Initialize ==
    /\ start.at # None /\ mem.since = None
    /\ Save([mem EXCEPT !.since = now, !.cursor = now, !.expected = Total(start.known)])
    /\ UNCHANGED <<now, log, held, task, start, trades, repeats, crashes>>

-----------------------------------------------------------------------------
(* The deals of the answer by time, then id: there is one such sequence. *)
Window(since) == {i \in Ids : log[i].time >= since}
Before(i, j) == log[i].time < log[j].time \/ (log[i].time = log[j].time /\ i < j)
InOrder(ids) == {s \in [1..Cardinality(ids) -> ids] :
                    Range(s) = ids /\ \A j, k \in DOMAIN s : j < k => Before(s[j], s[k])}

(* sync_deals up to its query; the window's start and the cursor are taken here. *)
AskDeals(c) ==
    /\ mem.since # None
    /\ Turn(c) /\ task[c].pc = "idle"
    /\ repeats < MaxRepeats
    /\ task' = [task EXCEPT ![c] = [pc |-> "deals", todo |-> <<>>, cursor |-> mem.cursor, new |-> FALSE]]
    /\ UNCHANGED <<now, log, held, mem, journal, start, trades, lull, repeats, crashes>>

(* The answer; a broker may report every deal twice. *)
GotDeals(c) ==
    /\ Turn(c) /\ task[c].pc = "deals"
    /\ \E ids \in InOrder(Window(Since(task[c].cursor))) : \E s \in {ids, ids \o ids} :
          task' = [task EXCEPT ![c].pc = "apply", ![c].todo = s]
    /\ UNCHANGED <<now, log, held, mem, journal, start, trades, lull, repeats, crashes>>

(* BrokerUnavailableError leaves sync_deals. *)
DealsLost(c) ==
    /\ task[c].pc = "deals"
    /\ task' = [task EXCEPT ![c] = Idle(@)]
    /\ UNCHANGED <<now, log, held, mem, journal, start, trades, lull, repeats, crashes>>

(* A deal's cash counts from initialize on.  Mutant: whenever it was. *)
CountedAlways(m, i) ==
    [m EXCEPT !.seen = @ \union {i}, !.ever = @ \union {i}, !.expected = @ + log[i].cash]

Counted(m, i) ==
    [m EXCEPT !.seen = @ \union {i}, !.ever = @ \union {i},
              !.expected = IF log[i].time >= m.since THEN @ + log[i].cash ELSE @]

Applied(c, i) ==
    [task[c] EXCEPT !.todo = Tail(@), !.new = TRUE,
                    !.cursor = IF log[i].time > @ THEN log[i].time ELSE @]

(* One deal of the answer. *)
SkipSeen(c) ==
    /\ task[c].pc = "apply" /\ task[c].todo # <<>>
    /\ Head(task[c].todo) \in mem.seen
    /\ task' = [task EXCEPT ![c].todo = Tail(@)]
    /\ UNCHANGED <<now, log, held, mem, journal, start, trades, lull, repeats, crashes>>

Unseen(c, i) == task[c].pc = "apply" /\ task[c].todo # <<>> /\ i = Head(task[c].todo) /\ i \notin mem.seen

(* A payment, or a closing deal of an order that is not open. *)
CountOnly(c) == \E i \in Ids :
    /\ Unseen(c, i)
    /\ \/ log[i].kind = "balance"
       \/ log[i].kind = "out" /\ mem.st # "open"
    /\ mem' = Counted(mem, i)
    /\ task' = [task EXCEPT ![c] = Applied(c, i)]
    /\ UNCHANGED <<now, log, held, journal, start, trades, lull, repeats, crashes>>

(* The net result after entry i.  Mutant: the cost of an order known to be open is dropped. *)
NetOfEntryMutant(m, i) == IF m.st = "sending" THEN m.net + log[i].cash ELSE m.net
NetOfEntry(m, i) == m.net + log[i].cash

(* An entry: its cost, and of an order not known to be open the position; then confirm_stop. *)
ApplyIn(c) == \E i \in Ids :
    LET m == [Counted(mem, i) EXCEPT !.net = NetOfEntry(mem, i)] IN
    /\ Unseen(c, i) /\ log[i].kind = "in"
    /\ IF mem.st = "sending"
       THEN /\ Save([m EXCEPT !.st = "open", !.lots = log[i].lots, !.entered = TRUE])
            /\ task' = [task EXCEPT ![c] = [Applied(c, i) EXCEPT !.pc = "confirm"]]
       ELSE /\ mem' = m
            /\ task' = [task EXCEPT ![c] = Applied(c, i)]
            /\ UNCHANGED <<journal, lull>>
    /\ UNCHANGED <<now, log, held, start, trades, repeats, crashes>>

(* confirm_stop returns, whatever became of it. *)
StopConfirmed(c) ==
    /\ Turn(c) /\ task[c].pc = "confirm"
    /\ task' = [task EXCEPT ![c].pc = "apply"]
    /\ UNCHANGED <<now, log, held, mem, journal, start, trades, lull, repeats, crashes>>

(* Is there something left to close? *)
StillOpen(m) == m.lots > 0

(* _closed_trade: only of an order whose entry is known. *)
ClosedTrade(m) == IF m.entered /\ m.out > 0 THEN {[net |-> m.net, out |-> m.out]} ELSE {}

(* A closing deal of the open order; the last one makes it a trade. *)
ApplyOut(c) == \E i \in Ids :
    LET m == [Counted(mem, i) EXCEPT !.net = @ + log[i].cash, !.out = @ + log[i].lots,
                                     !.lots = @ - log[i].lots] IN
    /\ Unseen(c, i) /\ log[i].kind = "out" /\ mem.st = "open"
    /\ IF StillOpen(m)
       THEN mem' = m /\ UNCHANGED trades
       ELSE /\ mem' = [m EXCEPT !.st = "closed", !.lots = 0]
            /\ trades' = trades \union ClosedTrade(m)
    /\ task' = [task EXCEPT ![c] = Applied(c, i)]
    /\ UNCHANGED <<now, log, held, journal, start, lull, repeats, crashes>>

(* The cursor after a sync.  Mutant: the start of the window. *)
CursorMutant(t) == t.cursor - Lookback
Cursor(t) == t.cursor

(* Nothing left: the cursor moves on when it did or when a deal was new. *)
SyncDone(c) ==
    LET t == task[c] IN
    /\ t.pc = "apply" /\ t.todo = <<>>
    /\ IF t.new \/ Cursor(t) # mem.cursor
       THEN Save([mem EXCEPT !.cursor = Cursor(t)])
       ELSE UNCHANGED <<mem, journal, lull>>
    /\ task' = [task EXCEPT ![c] = Idle(@)]
    /\ repeats' = IF lull /\ t.new THEN repeats + 1 ELSE repeats
    /\ UNCHANGED <<now, log, held, start, trades, crashes>>

Sync(c) == AskDeals(c) \/ GotDeals(c) \/ DealsLost(c) \/ SkipSeen(c) \/ CountOnly(c)
           \/ ApplyIn(c) \/ StopConfirmed(c) \/ ApplyOut(c) \/ SyncDone(c)

-----------------------------------------------------------------------------
(* The broker. *)
Book(kind, lots, time) ==
    /\ Quiet
    /\ Len(log) < MaxDeals
    /\ log' = Append(log, [time |-> time, kind |-> kind, lots |-> lots, cash |-> Cash(kind, lots)])

Untouched == UNCHANGED <<now, journal, task, start, trades, lull, repeats, crashes>>

(* The order fills; the answer reaches _send, which records the fill, or does not. *)
Unsent == mem.since # None /\ Position = {}

Fill ==
    /\ Unsent
    /\ Book("in", Lots, now)
    /\ held' = Lots
    /\ UNCHANGED mem /\ Untouched

FillAnswered ==
    /\ Unsent
    /\ Book("in", Lots, now)
    /\ held' = Lots
    /\ Save([mem EXCEPT !.st = "open", !.entered = TRUE])
    /\ UNCHANGED <<now, task, start, trades, repeats, crashes>>

(* Closed in part or whole, or financed. *)
Reduce == \E lots \in 0..held :
    /\ held > 0
    /\ Book("out", lots, now)
    /\ held' = held - lots
    /\ UNCHANGED mem /\ Untouched

Pay == \E time \in (now - MaxDelay)..now :
    /\ time >= 0
    /\ Book("balance", 0, time)
    /\ UNCHANGED <<held, mem>> /\ Untouched

(* A call of the broker times out in seconds, well under the unit of the clock. *)
Tick ==
    /\ \A c \in Tasks : task[c].pc = "idle"
    /\ now < MaxTime
    /\ now' = now + 1
    /\ UNCHANGED <<log, held, mem, journal, task, start, trades, lull, repeats, crashes>>

(* The process restarts from its journal. *)
Crash ==
    /\ crashes < MaxCrashes
    /\ crashes' = crashes + 1
    /\ mem' = journal
    /\ task' = [c \in Tasks |-> Idle(task[c])]
    /\ start' = IF journal.since = None THEN [at |-> None, known |-> {}] ELSE start
    /\ UNCHANGED <<now, log, held, journal, trades, lull, repeats>>

Next ==
    \/ OtherSave \/ ReadBalance \/ Initialize
    \/ \E c \in Tasks : Sync(c)
    \/ Fill \/ FillAnswered \/ Reduce \/ Pay
    \/ Tick
    \/ Crash

Spec == Init /\ [][Next]_vars

-----------------------------------------------------------------------------
State == [st : {"sending", "open", "closed"}, lots : 0..Lots, entered : BOOLEAN, net : Int, out : Nat,
          seen : SUBSET Nat, ever : SUBSET Nat, cursor : None..MaxTime, since : None..MaxTime, expected : Int]

(* Every variable has its type. *)
TypeOK ==
    /\ now \in 0..MaxTime
    /\ log \in Seq(Deal)
    /\ held \in 0..Lots
    /\ mem \in State /\ journal \in State
    /\ mem.seen \subseteq Ids /\ journal.seen \subseteq Ids
    /\ task \in [Tasks -> [pc : {"idle", "deals", "apply", "confirm"}, todo : Seq(Nat),
                           cursor : 0..MaxTime, new : BOOLEAN]]
    /\ start \in [at : None..MaxTime, known : SUBSET Nat]
    /\ trades \subseteq [net : Int, out : Int]
    /\ lull \in BOOLEAN
    /\ repeats \in Nat /\ crashes \in 0..MaxCrashes

(* initialize tells history from what follows by time alone: no deal was booked between its
   read of the balance and its read of the clock, or with the same time, or earlier than that
   but later reported. *)
CleanStart == \A i \in Ids : i \in start.known <=> log[i].time < mem.since

Current ==
    /\ mem.since # None
    /\ \A c \in Tasks : task[c].pc = "idle"
    /\ \A i \in Ids : i \in mem.ever \/ log[i].time < mem.since

(* sync_deals counts every deal once: when nothing is left to apply, the balance that
   reconciliation compares with the broker's is the broker's, and the tracked position is the
   broker's, with the same lots and open while it is.  As long as no save dropped a deal that a
   query still returns. *)
BooksMatch ==
    Current /\ CleanStart /\ ~lull =>
        /\ mem.expected = Balance
        /\ Position # {} => mem.lots = held /\ (mem.st = "open" <=> held > 0)

(* A deal the books have not counted is in the window of the next query, after a restart too. *)
NothingMissed ==
    journal.since # None =>
        \A i \in Ids : i \in journal.ever \/ log[i].time >= Since(journal.cursor)
                       \/ log[i].time < journal.since

(* A closed position becomes one trade, with the money of all its deals and all its lots. *)
TradeWhole ==
    ~lull => \A t \in trades : t.out = Lots /\ t.net = Total(Position)

(* What sync_deals says of itself: "Apply new broker deals once each (duplicates and restarts
   are harmless)". *)
AppliedOnce == Current /\ CleanStart => mem.expected = Balance
=============================================================================
