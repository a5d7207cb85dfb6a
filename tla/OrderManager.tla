---------------------------- MODULE OrderManager ----------------------------
(***************************************************************************)
(* Execution's order manager (execution/order_manager.py) with its journal *)
(* (execution/journal.py), driven as ExecutionService.cycle and            *)
(* ExecutionBusService drive it, against the Broker.                       *)
(*                                                                         *)
(* One asyncio process.  Each task runs alone until its next await, and    *)
(* every await is a call of the broker: the call reaches the broker in a   *)
(* step of its own (Serve), and the task goes on from the answer in a      *)
(* later one.  Everything may move in between.  A label in Internal is a   *)
(* point where the task still runs, so that no other task may step.        *)
(*                                                                         *)
(* With serial the tasks run one after the other (the in-process           *)
(* composition: one scheduler, then pump); without it the stream readers   *)
(* of core/bus.py run and the periodic cycle interleave at every await.    *)
(***************************************************************************)
EXTENDS Broker

CONSTANTS Decisions,   \* the DECISIONS stream: element n is the order that decision n approves
          Modes,       \* the values of serial to explore
          Controls,    \* the control operations to explore
          MaxControls, \* bound: control operations started
          MaxCrashes,  \* bound: crashes of the process
          NoOrder      \* "no order" in a task's local state

ControlOps == {"halt", "halt_close", "cancel", "close", "tighten", "demote"}

ASSUME OrderManagerAssumption ==
    /\ Decisions \in Seq(Orders)
    /\ Modes \subseteq BOOLEAN
    /\ Controls \subseteq ControlOps
    /\ MaxControls \in Nat /\ MaxCrashes \in Nat
    /\ NoOrder \notin Orders

VARIABLES mem,      \* ExecState in memory
          journal,  \* ExecState as last saved
          task,     \* local state of each task
          acked,    \* decisions acknowledged on the stream
          fills,    \* per order: fills recorded (execution_quality, OrderFilled)
          outbox,   \* closed trades on their way to the bus, in memory
          trades,   \* per order: closed trades published
          serial, controls, crashes

omVars == <<mem, journal, task, acked, fills, outbox, trades, serial, controls, crashes>>
vars == <<omVars, brokerVars>>

-----------------------------------------------------------------------------
(* OrderState; "failed" is left out, which only a resync of the Reconciler writes. *)
OrderStates == {"none", "sending", "pending", "open", "closed", "cancelled", "expired", "rejected"}
Active == {"sending", "pending", "open"}

(* TrackedOrder: pos and oid are the attempt whose ticket is position_id and
   broker_order_id, 0 for None; entered stands for entry_price. *)
TrackedOrder == [st : OrderStates, pos : 0..2, oid : 0..2, sl : 1..MaxSl,
                 conf : BOOLEAN, entered : BOOLEAN]
Untracked == [st |-> "none", pos |-> 0, oid |-> 0, sl |-> 1, conf |-> FALSE, entered |-> FALSE]

ExecState == [ord : [Orders -> TrackedOrder], seen : Nat, seq : Nat]

Tasks == {"decisions", "cycle", "control"}

(* Labels at which a task still runs. *)
Internal == {"apply_deal", "expire_next", "stops_next", "cancel_next", "close_next",
             "demote_cancel", "demote_close"}
Awaiting == {"find_position", "find_order", "place", "confirm", "stop_set", "stop_check",
             "stop_close", "deals", "expire_cancel", "expire_check", "cancel_list",
             "cancel_one", "close_list", "close_one", "cancel_request", "close_request",
             "tighten", "demote_cancel_one", "demote_close_one"}

Ops == {"none", "place", "modify", "cancel", "close", "open_positions", "pending_orders", "deals"}

(* pc, the order at hand, two counters, the attempts to set its stop, the work list, where
   confirm_stop returns to, and
   the call in flight (method, attempt of the ticket, stop) with its answer. *)
Idle == [pc |-> "idle", o |-> NoOrder, n |-> 0, m |-> 0, tries |-> 0, todo |-> {}, ret |-> "idle",
         op |-> "none", k |-> 0, sl |-> 0, ans |-> NoAnswer]

Init ==
    /\ BrokerInit
    /\ mem = [ord |-> [o \in Orders |-> Untracked], seen |-> 0, seq |-> 0]
    /\ journal = mem
    /\ task = [c \in Tasks |-> Idle]
    /\ acked = 0
    /\ fills = [o \in Orders |-> 0]
    /\ outbox = {}
    /\ trades = [o \in Orders |-> 0]
    /\ serial \in Modes
    /\ controls = 0 /\ crashes = 0

-----------------------------------------------------------------------------
(* Building blocks. *)
Turn(c) == \A d \in Tasks \ {c} : task[d].pc \notin Internal

(* A task may begin: one reader per stream, and with serial only one task at all. *)
MayStart(c) ==
    /\ task[c].pc = "idle"
    /\ Turn(c)
    /\ serial => \A d \in Tasks : task[d].pc = "idle"

At(c, pc) == task[c].pc = pc /\ (pc \notin Internal => task[c].ans # NoAnswer) /\ Turn(c)

Goto(c, t) == task' = [task EXCEPT ![c] = t]
Done(c) == Goto(c, Idle)

(* The local state t at an await: at label pc the answer of op on attempt k's ticket. *)
Await(t, pc, op, k, sl) ==
    [t EXCEPT !.pc = pc, !.op = op, !.k = k, !.sl = sl, !.ans = NoAnswer]
Run(t, pc) == [t EXCEPT !.pc = pc, !.op = "none", !.k = 0, !.sl = 0, !.ans = NoAnswer]

Saw(c, o, k) == \E s \in 0..MaxSl : <<<<o, k>>, s>> \in task[c].ans.saw
Protected(c, o, k) == \E s \in mem.ord[o].sl..MaxSl : <<<<o, k>>, s>> \in task[c].ans.saw

Tracked(o, t) == [mem EXCEPT !.ord[o] = t]
Keep(m) == mem' = m /\ UNCHANGED journal        \* memory only
Save(m) == mem' = m /\ journal' = m             \* and OrderManager.save

Count(f, o) == [f EXCEPT ![o] = IF @ < 2 THEN @ + 1 ELSE @]

Ended == acked' = acked + 1          \* the decision's handler returned: ack
Quiet == UNCHANGED <<brokerVars, trades, serial, controls, crashes>>

(* Mutant: a state the journal does not have. *)
OpenedAsFilled(t, k) == [t EXCEPT !.st = "filled", !.pos = k, !.entered = TRUE]

(* Mutant: the entry price is forgotten. *)
OpenedWithoutEntry(t, k) == [t EXCEPT !.st = "open", !.pos = k, !.entered = FALSE]

(* _opened and the assignments around it: position k of the order is open. *)
Opened(t, k) == [t EXCEPT !.st = "open", !.pos = k, !.entered = TRUE]

(* confirm_stop: look at the position first; return to ret. *)
ConfirmStop(t, o, ret) == Await([t EXCEPT !.o = o, !.ret = ret, !.tries = 0], "confirm",
                                "open_positions", 0, 0)

(* Where confirm_stop's caller goes on; the decision's handler has ended then. *)
Return(c) ==
    IF task[c].ret = "idle" THEN Done(c) /\ (IF c = "decisions" THEN Ended ELSE UNCHANGED acked)
    ELSE Goto(c, Run([task[c] EXCEPT !.ret = "idle", !.o = NoOrder, !.tries = 0], task[c].ret)) /\ UNCHANGED acked

-----------------------------------------------------------------------------
(* The call in flight reaches the broker and is answered, or is lost before or after that. *)
Serve(c) ==
    LET t == task[c] IN
    /\ t.op # "none" /\ t.ans = NoAnswer
    /\ \/ \E a \in Answers(t.op) :
            /\ Apply(t.op, <<t.o, t.k>>, t.sl, a)
            /\ Goto(c, [t EXCEPT !.ans = a])
            /\ UNCHANGED lost
       \/ /\ lost < MaxLost /\ lost' = lost + 1
          /\ Goto(c, [t EXCEPT !.ans = Lost])
          /\ \/ UNCHANGED <<ticket, deals, refused>>
             \/ \E a \in Answers(t.op) : Apply(t.op, <<t.o, t.k>>, t.sl, a)
    /\ UNCHANGED due
    /\ UNCHANGED <<mem, journal, acked, fills, outbox, trades, serial, controls, crashes>>

-----------------------------------------------------------------------------
(* The DECISIONS reader: ExecutionBusService._on_decision, OrderManager.execute and _send. *)
NextDecision == acked + 1

DecisionWaits == MayStart("decisions") /\ acked < Len(Decisions)

(* No intent for it, the order exists already, expired, or a sequence number consumed before. *)
DropDecision ==
    /\ DecisionWaits
    /\ Ended
    /\ UNCHANGED <<mem, journal, task, fills, outbox>> /\ Quiet

Admissible(o) == mem.ord[o].st = "none" /\ NextDecision > mem.seq

(* Verified, its number persisted, then refused: unknown symbol, invalid lots, no fresh quote. *)
RefuseEntry ==
    /\ DecisionWaits
    /\ Admissible(Decisions[NextDecision])
    /\ Save([mem EXCEPT !.seq = NextDecision])
    /\ Ended
    /\ UNCHANGED <<task, fills, outbox>> /\ Quiet

(* Mutant: the order is journalled in memory only. *)
ExecuteUnsaved ==
    LET o == Decisions[NextDecision] IN
    /\ DecisionWaits
    /\ Admissible(o)
    /\ Keep([mem EXCEPT !.seq = NextDecision, !.ord[o] = [Untracked EXCEPT !.st = "sending"]])
    /\ Goto("decisions", Await([Idle EXCEPT !.o = o, !.n = 1], "find_position", "open_positions", 0, 0))
    /\ UNCHANGED <<acked, fills, outbox>> /\ Quiet

(* Mutant: the decision's sequence number is not persisted. *)
ExecuteUncounted ==
    LET o == Decisions[NextDecision] IN
    /\ DecisionWaits
    /\ Admissible(o)
    /\ Save([mem EXCEPT !.ord[o] = [Untracked EXCEPT !.st = "sending"]])
    /\ Goto("decisions", Await([Idle EXCEPT !.o = o, !.n = 1], "find_position", "open_positions", 0, 0))
    /\ UNCHANGED <<acked, fills, outbox>> /\ Quiet

(* Verified, its number persisted, journalled as sending, then the search before the first send. *)
Execute ==
    LET o == Decisions[NextDecision] IN
    /\ DecisionWaits
    /\ Admissible(o)
    /\ Save([mem EXCEPT !.seq = NextDecision, !.ord[o] = [Untracked EXCEPT !.st = "sending"]])
    /\ Goto("decisions", Await([Idle EXCEPT !.o = o, !.n = 1], "find_position", "open_positions", 0, 0))
    /\ UNCHANGED <<acked, fills, outbox>> /\ Quiet

(* Mutant: the second attempt places at once. *)
RetryWithoutSearch ==
    LET t == task["decisions"] IN
    /\ At("decisions", t.pc)
    /\ t.pc \in {"find_position", "find_order", "place"}
    /\ t.ans = Lost
    /\ \/ /\ t.n = 1
          /\ Goto("decisions", Await([t EXCEPT !.n = 2], "place", "place", 2, mem.ord[t.o].sl))
          /\ UNCHANGED acked
       \/ t.n = 2 /\ Done("decisions") /\ Ended
    /\ UNCHANGED <<mem, journal, fills, outbox>> /\ Quiet

(* BrokerUnavailableError in _send: search and place once more, or leave the order sending. *)
Retry ==
    LET t == task["decisions"] IN
    /\ At("decisions", t.pc)
    /\ t.pc \in {"find_position", "find_order", "place"}
    /\ t.ans = Lost
    /\ \/ /\ t.n = 1
          /\ Goto("decisions", Await([t EXCEPT !.n = 2], "find_position", "open_positions", 0, 0))
          /\ UNCHANGED acked
       \/ t.n = 2 /\ Done("decisions") /\ Ended
    /\ UNCHANGED <<mem, journal, fills, outbox>> /\ Quiet

(* The answers of the searches: _adopt what is found, place otherwise. *)
FoundPosition ==
    LET t == task["decisions"] IN
    /\ At("decisions", "find_position")
    /\ t.ans # Lost
    /\ \/ \E k \in Attempts :
            /\ Saw("decisions", t.o, k)
            /\ Save(Tracked(t.o, Opened(mem.ord[t.o], k)))
            /\ fills' = Count(fills, t.o)
            /\ Goto("decisions", ConfirmStop(t, t.o, "idle"))
       \/ /\ \A k \in Attempts : ~Saw("decisions", t.o, k)
          /\ Goto("decisions", Await(t, "find_order", "pending_orders", 0, 0))
          /\ UNCHANGED <<mem, journal, fills>>
    /\ UNCHANGED <<acked, outbox>> /\ Quiet

FoundOrder ==
    LET t == task["decisions"] IN
    /\ At("decisions", "find_order")
    /\ t.ans # Lost
    /\ \/ \E k \in Attempts :
            /\ Saw("decisions", t.o, k)
            /\ Save(Tracked(t.o, [mem.ord[t.o] EXCEPT !.st = "pending", !.oid = k]))
            /\ Done("decisions") /\ Ended
       \/ /\ \A k \in Attempts : ~Saw("decisions", t.o, k)
          /\ Goto("decisions", Await(t, "place", "place", t.n, mem.ord[t.o].sl))
          /\ UNCHANGED <<mem, journal, acked>>
    /\ UNCHANGED <<fills, outbox>> /\ Quiet

(* The broker's answer to place: the tracked order is overwritten whatever it became meanwhile. *)
Placed ==
    LET t == task["decisions"] IN
    /\ At("decisions", "place")
    /\ t.ans # Lost
    /\ \/ /\ t.ans = Nack
          /\ Save(Tracked(t.o, [mem.ord[t.o] EXCEPT !.st = "rejected"]))
          /\ Done("decisions") /\ Ended
          /\ UNCHANGED fills
       \/ /\ t.ans = Ack /\ t.o \in Resting
          /\ Save(Tracked(t.o, [mem.ord[t.o] EXCEPT !.st = "pending", !.oid = t.n]))
          /\ Done("decisions") /\ Ended
          /\ UNCHANGED fills
       \/ /\ t.ans = Ack /\ t.o \notin Resting
          /\ Save(Tracked(t.o, Opened(mem.ord[t.o], t.n)))
          /\ fills' = Count(fills, t.o)
          /\ Goto("decisions", ConfirmStop(t, t.o, "idle"))
          /\ UNCHANGED acked
    /\ UNCHANGED outbox /\ Quiet

-----------------------------------------------------------------------------
(* confirm_stop, called from _send, _adopt, sync_deals and the cycle. *)
Confirmed(o) == Save(Tracked(o, [mem.ord[o] EXCEPT !.conf = TRUE]))

AskStop(c, t) == Goto(c, Await(t, "stop_set", "modify", mem.ord[t.o].pos, mem.ord[t.o].sl))

StopSeen(c) ==
    LET t == task[c]
        p == mem.ord[t.o].pos IN
    /\ At(c, "confirm")
    /\ \/ /\ t.ans = Lost \/ ~Saw(c, t.o, p)      \* not reachable, or closed already
          /\ Return(c)
          /\ UNCHANGED <<mem, journal>>
       \/ /\ Protected(c, t.o, p)
          /\ Confirmed(t.o)
          /\ Return(c)
       \/ /\ Saw(c, t.o, p) /\ ~Protected(c, t.o, p)
          /\ AskStop(c, [t EXCEPT !.tries = 1])
          /\ UNCHANGED <<mem, journal, acked>>
    /\ UNCHANGED <<fills, outbox>> /\ Quiet

(* Mutant: modify's answer is taken for the stop being there. *)
StopAskedTrusting(c) ==
    /\ At(c, "stop_set")
    /\ Confirmed(task[c].o)
    /\ Return(c)
    /\ UNCHANGED <<fills, outbox>> /\ Quiet

(* Whatever modify answered, look again. *)
StopAsked(c) ==
    /\ At(c, "stop_set")
    /\ Goto(c, Await(task[c], "stop_check", "open_positions", 0, 0))
    /\ UNCHANGED <<mem, journal, acked, fills, outbox>> /\ Quiet

StopChecked(c) ==
    LET t == task[c]
        p == mem.ord[t.o].pos
        fine == ~Saw(c, t.o, p) \/ Protected(c, t.o, p) IN
    /\ At(c, "stop_check")
    /\ \/ /\ t.ans = Lost
          /\ Return(c)
          /\ UNCHANGED <<mem, journal>>
       \/ /\ t.ans # Lost /\ fine
          /\ Confirmed(t.o)
          /\ Return(c)
       \/ /\ t.ans # Lost /\ ~fine /\ t.tries < 2
          /\ AskStop(c, [t EXCEPT !.tries = @ + 1])
          /\ UNCHANGED <<mem, journal, acked>>
       \/ /\ t.ans # Lost /\ ~fine /\ t.tries = 2
          /\ Goto(c, Await(t, "stop_close", "close", p, 0))
          /\ UNCHANGED <<mem, journal, acked>>
    /\ UNCHANGED <<fills, outbox>> /\ Quiet

StopClosed(c) ==
    /\ At(c, "stop_close")
    /\ IF task[c].ans = Lost THEN UNCHANGED <<mem, journal>> ELSE Save(mem)
    /\ Return(c)
    /\ UNCHANGED <<fills, outbox>> /\ Quiet

-----------------------------------------------------------------------------
(* The periodic cycle: sync_deals, expire_pending, then the unconfirmed stops.  A lost call
   ends it (except in confirm_stop); nothing is saved on that way out. *)
StartCycle ==
    /\ MayStart("cycle")
    /\ Goto("cycle", Await(Idle, "deals", "deals", 0, 0))
    /\ UNCHANGED <<mem, journal, acked, fills, outbox>> /\ Quiet

CycleLost ==
    LET t == task["cycle"] IN
    /\ At("cycle", t.pc)
    /\ t.pc \in {"deals", "expire_cancel", "expire_check"}
    /\ t.ans = Lost
    /\ Done("cycle")
    /\ UNCHANGED <<mem, journal, acked, fills, outbox>> /\ Quiet

(* n: the deals in the answer; m: those known before. *)
GotDeals ==
    LET t == task["cycle"] IN
    /\ At("cycle", "deals")
    /\ t.ans # Lost
    /\ Goto("cycle", Run([t EXCEPT !.n = t.ans.n, !.m = mem.seen], "apply_deal"))
    /\ UNCHANGED <<mem, journal, acked, fills, outbox>> /\ Quiet

Seen == [mem EXCEPT !.seen = @ + 1]

(* The states in which an entry deal opens the order. *)
FillableMutantOpen == {"pending", "sending", "open"}
FillableMutantPending == {"pending"}
Fillable == {"pending", "sending"}

ApplyDeal ==
    LET t == task["cycle"]
        d == deals[mem.seen + 1]
        o == d.tk[1]
        k == d.tk[2]
        r == mem.ord[o] IN
    /\ At("cycle", "apply_deal")
    /\ mem.seen < t.n
    /\ \/ /\ d.entry = "in" /\ r.st \in Fillable
          /\ Save([Seen EXCEPT !.ord[o] = Opened(r, k)])
          /\ fills' = Count(fills, o)
          /\ Goto("cycle", ConfirmStop(t, o, "apply_deal"))
          /\ UNCHANGED outbox
       \/ /\ d.entry = "out" /\ r.st = "open" /\ r.pos = k
          /\ Keep([Seen EXCEPT !.ord[o].st = "closed"])
          /\ outbox' = IF r.entered THEN outbox \union {o} ELSE outbox
          /\ UNCHANGED <<task, fills>>
       \/ /\ IF d.entry = "in" THEN r.st \notin Fillable
                               ELSE r.st # "open" \/ r.pos # k
          /\ Keep(Seen)
          /\ UNCHANGED <<task, fills, outbox>>
    /\ UNCHANGED acked /\ Quiet

(* Mutant: applied deals are not saved. *)
DealsAppliedUnsaved ==
    LET t == task["cycle"] IN
    /\ At("cycle", "apply_deal")
    /\ mem.seen >= t.n
    /\ UNCHANGED <<mem, journal>>
    /\ Goto("cycle", Run([t EXCEPT !.n = 0, !.m = 0,
                             !.todo = {o \in due : mem.ord[o].st \in Active}], "expire_next"))
    /\ UNCHANGED <<acked, fills, outbox>> /\ Quiet

(* Saved when something was new; then expire_pending looks at the active orders. *)
DealsApplied ==
    LET t == task["cycle"] IN
    /\ At("cycle", "apply_deal")
    /\ mem.seen >= t.n
    /\ IF mem.seen > t.m THEN Save(mem) ELSE UNCHANGED <<mem, journal>>
    /\ Goto("cycle", Run([t EXCEPT !.n = 0, !.m = 0,
                             !.todo = {o \in due : mem.ord[o].st \in Active}], "expire_next"))
    /\ UNCHANGED <<acked, fills, outbox>> /\ Quiet

Expirable(t) == {o \in t.todo : mem.ord[o].st = "pending" /\ mem.ord[o].oid # 0}

ExpireNext ==
    LET t == task["cycle"] IN
    /\ At("cycle", "expire_next")
    /\ \E o \in Expirable(t) :
         Goto("cycle", Await([t EXCEPT !.o = o, !.todo = @ \ {o}],
                             "expire_cancel", "cancel", mem.ord[o].oid, 0))
    /\ UNCHANGED <<mem, journal, acked, fills, outbox>> /\ Quiet

Expired(t) ==
    /\ Keep(Tracked(t.o, [mem.ord[t.o] EXCEPT !.st = "expired"]))
    /\ Goto("cycle", Run([t EXCEPT !.n = 1, !.o = NoOrder], "expire_next"))

ExpireCancelled ==
    LET t == task["cycle"] IN
    /\ At("cycle", "expire_cancel")
    /\ \/ t.ans = Ack /\ Expired(t)
       \/ /\ t.ans = Nack
          /\ Goto("cycle", Await(t, "expire_check", "pending_orders", 0, 0))
          /\ UNCHANGED <<mem, journal>>
    /\ UNCHANGED <<acked, fills, outbox>> /\ Quiet

(* The cancel was refused: an order no longer at the broker counts as expired. *)
ExpireChecked ==
    LET t == task["cycle"] IN
    /\ At("cycle", "expire_check")
    /\ t.ans # Lost
    /\ IF Saw("cycle", t.o, mem.ord[t.o].oid)
       THEN /\ Goto("cycle", Run([t EXCEPT !.o = NoOrder], "expire_next"))
            /\ UNCHANGED <<mem, journal>>
       ELSE Expired(t)
    /\ UNCHANGED <<acked, fills, outbox>> /\ Quiet

ExpireDone ==
    LET t == task["cycle"] IN
    /\ At("cycle", "expire_next")
    /\ Expirable(t) = {}
    /\ IF t.n = 1 THEN Save(mem) ELSE UNCHANGED <<mem, journal>>
    /\ Goto("cycle", Run([t EXCEPT !.n = 0,
                             !.todo = {o \in Orders : mem.ord[o].st \in Active}], "stops_next"))
    /\ UNCHANGED <<acked, fills, outbox>> /\ Quiet

(* Mutant: the cycle does not look at unconfirmed stops again. *)
UnconfirmedIgnored(t) == {o \in t.todo : FALSE}

Unconfirmed(t) == {o \in t.todo : mem.ord[o].st = "open" /\ ~mem.ord[o].conf}

StopsNext ==
    LET t == task["cycle"] IN
    /\ At("cycle", "stops_next")
    /\ \/ \E o \in Unconfirmed(t) :
            Goto("cycle", ConfirmStop([t EXCEPT !.todo = @ \ {o}], o, "stops_next"))
       \/ Unconfirmed(t) = {} /\ Done("cycle")
    /\ UNCHANGED <<mem, journal, acked, fills, outbox>> /\ Quiet

-----------------------------------------------------------------------------
(* Halts, demotions and strategy requests: the readers of HALTS, CONTROL and REQUESTS. *)
StartControl(op) ==
    /\ op \in Controls
    /\ MayStart("control")
    /\ controls < MaxControls /\ controls' = controls + 1
    /\ UNCHANGED <<mem, journal, acked, fills, outbox, trades, serial, crashes, brokerVars>>

(* apply_halt; n = 1 when positions are closed too. *)
Halt(op) ==
    /\ op \in {"halt", "halt_close"}
    /\ StartControl(op)
    /\ Goto("control", Await([Idle EXCEPT !.n = IF op = "halt" THEN 0 ELSE 1],
                             "cancel_list", "pending_orders", 0, 0))

(* A CancelRequest of the strategy. *)
RequestCancel(o) ==
    /\ StartControl("cancel")
    /\ mem.ord[o].st = "pending" /\ mem.ord[o].oid # 0
    /\ Goto("control", Await([Idle EXCEPT !.o = o], "cancel_request", "cancel", mem.ord[o].oid, 0))

(* A CloseRequest. *)
RequestClose(o) ==
    /\ StartControl("close")
    /\ mem.ord[o].pos # 0
    /\ Goto("control", Await([Idle EXCEPT !.o = o], "close_request", "close", mem.ord[o].pos, 0))

(* A ModifyStopRequest: tighten_stop refuses what is not tighter than the tracked stop. *)
RequestTighten(o, sl) ==
    /\ StartControl("tighten")
    /\ mem.ord[o].st = "open" /\ mem.ord[o].pos # 0
    /\ sl > mem.ord[o].sl
    /\ Goto("control", Await([Idle EXCEPT !.o = o], "tighten", "modify", mem.ord[o].pos, sl))

(* A DemotionOrder that closes positions: cancel_pending_of lists the pending entries first. *)
Demote ==
    /\ StartControl("demote")
    /\ Goto("control", Run([Idle EXCEPT !.todo = {o \in Orders : mem.ord[o].st = "pending"}],
                           "demote_cancel"))

(* BrokerUnavailableError leaves the handler: logged, acknowledged, nothing saved. *)
ControlLost ==
    LET t == task["control"] IN
    /\ At("control", t.pc)
    /\ t.pc \in {"cancel_list", "cancel_one", "close_list", "cancel_request", "close_request",
                 "tighten", "demote_cancel_one", "demote_close_one"}
    /\ t.ans = Lost
    /\ Done("control")
    /\ UNCHANGED <<mem, journal, acked, fills, outbox>> /\ Quiet

Listed(t) == {x[1] : x \in t.ans.saw}

GotList ==
    LET t == task["control"] IN
    /\ \/ At("control", "cancel_list") /\ t.ans # Lost
          /\ Goto("control", Run([t EXCEPT !.todo = Listed(t)], "cancel_next"))
       \/ At("control", "close_list") /\ t.ans # Lost
          /\ Goto("control", Run([t EXCEPT !.todo = Listed(t)], "close_next"))
    /\ UNCHANGED <<mem, journal, acked, fills, outbox>> /\ Quiet

(* cancel_pending_entries *)
CancelNext ==
    LET t == task["control"] IN
    /\ At("control", "cancel_next")
    /\ \/ /\ \E i \in t.todo :
               Goto("control", Await([t EXCEPT !.todo = @ \ {i}, !.o = i[1]],
                                     "cancel_one", "cancel", i[2], 0))
          /\ UNCHANGED <<mem, journal>>
       \/ /\ t.todo = {}
          /\ Save(mem)
          /\ IF t.n = 1 THEN Goto("control", Await(t, "close_list", "open_positions", 0, 0))
                        ELSE Done("control")
    /\ UNCHANGED <<acked, fills, outbox>> /\ Quiet

(* Mutant: a cancelled ticket cancels its order in any state. *)
CancelledWhatever ==
    LET t == task["control"] IN
    /\ At("control", "cancel_one")
    /\ t.ans # Lost
    /\ IF t.ans = Ack
       THEN Keep(Tracked(t.o, [mem.ord[t.o] EXCEPT !.st = "cancelled"]))
       ELSE UNCHANGED <<mem, journal>>
    /\ Goto("control", Run([t EXCEPT !.o = NoOrder], "cancel_next"))
    /\ UNCHANGED <<acked, fills, outbox>> /\ Quiet

CancelledOne ==
    LET t == task["control"] IN
    /\ At("control", "cancel_one")
    /\ t.ans # Lost
    /\ IF t.ans = Ack /\ mem.ord[t.o].st = "pending"
       THEN Keep(Tracked(t.o, [mem.ord[t.o] EXCEPT !.st = "cancelled"]))
       ELSE UNCHANGED <<mem, journal>>
    /\ Goto("control", Run([t EXCEPT !.o = NoOrder], "cancel_next"))
    /\ UNCHANGED <<acked, fills, outbox>> /\ Quiet

(* The closing half of apply_halt: a close that is lost or refused is only alerted. *)
CloseNext ==
    LET t == task["control"] IN
    /\ At("control", "close_next")
    /\ \/ /\ \E i \in t.todo :
               Goto("control", Await([t EXCEPT !.todo = @ \ {i}, !.o = i[1]],
                                     "close_one", "close", i[2], 0))
          /\ UNCHANGED <<mem, journal>>
       \/ t.todo = {} /\ Save(mem) /\ Done("control")
    /\ UNCHANGED <<acked, fills, outbox>> /\ Quiet

ClosedOne ==
    LET t == task["control"] IN
    /\ At("control", "close_one")
    /\ Goto("control", Run([t EXCEPT !.o = NoOrder], "close_next"))
    /\ UNCHANGED <<mem, journal, acked, fills, outbox>> /\ Quiet

(* The answers to the strategy's requests. *)
RequestDone ==
    LET t == task["control"]
        r == mem.ord[t.o] IN
    /\ At("control", t.pc)
    /\ t.ans # Lost
    /\ \/ /\ t.pc = "cancel_request"
          /\ IF t.ans = Ack THEN Save(Tracked(t.o, [r EXCEPT !.st = "cancelled"]))
                            ELSE UNCHANGED <<mem, journal>>
       \/ /\ t.pc = "close_request"
          /\ IF t.ans = Ack THEN Save(mem) ELSE UNCHANGED <<mem, journal>>
       \/ /\ t.pc = "tighten"
          /\ IF t.ans = Ack THEN Save(Tracked(t.o, [r EXCEPT !.sl = t.sl]))
                            ELSE UNCHANGED <<mem, journal>>
    /\ Done("control")
    /\ UNCHANGED <<acked, fills, outbox>> /\ Quiet

(* cancel_pending_of, then close_positions_of unless a cancel failed (n = 1). *)
DemoteNext ==
    LET t == task["control"] IN
    /\ \/ /\ At("control", "demote_cancel")
          /\ \/ /\ \E o \in t.todo :
                     Goto("control", Await([t EXCEPT !.todo = @ \ {o}, !.o = o],
                                           "demote_cancel_one", "cancel", mem.ord[o].oid, 0))
                /\ UNCHANGED <<mem, journal>>
             \/ /\ t.todo = {}
                /\ Save(mem)
                /\ IF t.n = 1 THEN Done("control")
                   ELSE Goto("control", Run([t EXCEPT !.todo =
                            {o \in Orders : mem.ord[o].st = "open"}], "demote_close"))
       \/ /\ At("control", "demote_close")
          /\ UNCHANGED <<mem, journal>>
          /\ \/ \E o \in t.todo :
                  Goto("control", Await([t EXCEPT !.todo = @ \ {o}, !.o = o],
                                        "demote_close_one", "close", mem.ord[o].pos, 0))
             \/ t.todo = {} /\ Done("control")
    /\ UNCHANGED <<acked, fills, outbox>> /\ Quiet

DemotedOne ==
    LET t == task["control"] IN
    /\ t.ans # Lost
    /\ \/ /\ At("control", "demote_cancel_one")
          /\ IF t.ans = Ack
             THEN /\ Keep(Tracked(t.o, [mem.ord[t.o] EXCEPT !.st = "cancelled"]))
                  /\ Goto("control", Run([t EXCEPT !.o = NoOrder], "demote_cancel"))
             ELSE /\ Goto("control", Run([t EXCEPT !.o = NoOrder, !.n = 1], "demote_cancel"))
                  /\ UNCHANGED <<mem, journal>>
       \/ /\ At("control", "demote_close_one")
          /\ IF t.ans = Ack THEN Save(mem) ELSE UNCHANGED <<mem, journal>>
          /\ Goto("control", Run([t EXCEPT !.o = NoOrder], "demote_close"))
    /\ UNCHANGED <<acked, fills, outbox>> /\ Quiet

-----------------------------------------------------------------------------
(* The process dies and starts again from its journal.  A decision whose handler did not end
   is not acknowledged, so it is delivered again. *)
Crash ==
    /\ crashes < MaxCrashes /\ crashes' = crashes + 1
    /\ mem' = journal
    /\ task' = [c \in Tasks |-> Idle]
    /\ outbox' = {}
    /\ UNCHANGED <<journal, acked, fills, trades, serial, controls, brokerVars>>

(* It dies in execute, after the sequence number is saved and before the order is. *)
CrashInExecute ==
    /\ crashes < MaxCrashes /\ crashes' = crashes + 1
    /\ DecisionWaits
    /\ Admissible(Decisions[NextDecision])
    /\ journal' = [mem EXCEPT !.seq = NextDecision]
    /\ mem' = journal'
    /\ task' = [c \in Tasks |-> Idle]
    /\ outbox' = {}
    /\ UNCHANGED <<acked, fills, trades, serial, controls, brokerVars>>

(* Mutant: the outbox is published and not emptied. *)
FlushKeeping ==
    /\ outbox # {}
    /\ \A c \in Tasks : task[c].pc \notin Internal
    /\ trades' = [o \in Orders |-> IF o \in outbox THEN Count(trades, o)[o] ELSE trades[o]]
    /\ outbox' = outbox
    /\ UNCHANGED <<mem, journal, task, acked, fills, serial, controls, crashes, brokerVars>>

(* ExecutionBusService.flush, after any handler and in its cycle. *)
Flush ==
    /\ outbox # {}
    /\ \A c \in Tasks : task[c].pc \notin Internal
    /\ trades' = [o \in Orders |-> IF o \in outbox THEN Count(trades, o)[o] ELSE trades[o]]
    /\ outbox' = {}
    /\ UNCHANGED <<mem, journal, task, acked, fills, serial, controls, crashes, brokerVars>>

DecisionSteps ==
    DropDecision \/ RefuseEntry \/ Execute \/ Retry \/ FoundPosition \/ FoundOrder \/ Placed

ConfirmSteps(c) == StopSeen(c) \/ StopAsked(c) \/ StopChecked(c) \/ StopClosed(c)

CycleSteps ==
    \/ StartCycle \/ CycleLost \/ GotDeals \/ ApplyDeal \/ DealsApplied
    \/ ExpireNext \/ ExpireCancelled \/ ExpireChecked \/ ExpireDone \/ StopsNext

ControlSteps ==
    \/ \E op \in {"halt", "halt_close"} : Halt(op)
    \/ \E o \in Orders : RequestCancel(o) \/ RequestClose(o) \/ \E sl \in 1..MaxSl : RequestTighten(o, sl)
    \/ Demote \/ ControlLost \/ GotList \/ CancelNext \/ CancelledOne \/ CloseNext \/ ClosedOne
    \/ RequestDone \/ DemoteNext \/ DemotedOne

Next ==
    \/ BrokerNext /\ UNCHANGED omVars
    \/ \E c \in Tasks : Serve(c)
    \/ DecisionSteps
    \/ \E c \in {"decisions", "cycle"} : ConfirmSteps(c)
    \/ CycleSteps
    \/ ControlSteps
    \/ Flush
    \/ Crash \/ CrashInExecute

Spec == Init /\ [][Next]_vars

(* The event loop runs every task that can run, the broker answers or the call times out, and
   the scheduler starts the cycle again: ExecutionService.run loops until stopped. *)
Fairness ==
    /\ \A c \in Tasks : WF_vars(Serve(c))
    /\ WF_vars(Execute \/ Retry \/ FoundPosition \/ FoundOrder \/ Placed \/ ConfirmSteps("decisions"))
    /\ WF_vars(CycleSteps \/ ConfirmSteps("cycle"))
    /\ WF_vars(ControlLost \/ GotList \/ CancelNext \/ CancelledOne \/ CloseNext \/ ClosedOne
               \/ RequestDone \/ DemoteNext \/ DemotedOne)
    /\ SF_vars(Flush)

FairSpec == Spec /\ Fairness

-----------------------------------------------------------------------------
(* Properties. *)
TaskState == [pc : {"idle"} \union Internal \union Awaiting, o : Orders \union {NoOrder},
              n : Nat, m : Nat, tries : 0..2, todo : SUBSET (Orders \union Tickets),
              ret : {"idle"} \union Internal, op : Ops, k : 0..2, sl : 0..MaxSl,
              ans : [st : {"ok", "nack", "lost", "none"}, saw : SUBSET (Tickets \X (0..MaxSl)), n : Nat]]

(* Every variable has its type. *)
TypeOK ==
    /\ BrokerTypeOK
    /\ mem \in ExecState /\ journal \in ExecState
    /\ task \in [Tasks -> TaskState]
    /\ acked \in 0..Len(Decisions)
    /\ fills \in [Orders -> 0..2] /\ trades \in [Orders -> 0..2]
    /\ outbox \in SUBSET Orders
    /\ serial \in BOOLEAN
    /\ controls \in 0..MaxControls /\ crashes \in 0..MaxCrashes

(* Whatever the broker holds, the saved journal has an order for it: execute saves the order as
   sending before the first call that could place it, so no crash leaves a ticket unknown. *)
WriteAhead == \A i \in Tickets : ticket[i].st # "none" => journal.ord[i[1]].st # "none"

(* A decision that made an order is consumed on disk, so that its redelivery after a crash is
   refused as a replay. *)
ConsumedOnDisk ==
    \A o \in Orders : mem.ord[o].st # "none" =>
        \E n \in 1..journal.seq : n <= Len(Decisions) /\ Decisions[n] = o

(* One intent never has two market positions open at once, however often its placement is
   retried or its decision redelivered: the broker is searched for the id before every send. *)
NoDoubleExposure ==
    \A o \in Orders \ Resting : Cardinality({k \in Attempts : ticket[<<o, k>>].st \in Live}) <= 1

(* With one task at a time the journal and the published trades implement OrderLife: an order
   never leaves a stage it has finished in, and each stage it is saved in follows the last. *)
Life == INSTANCE OrderLife WITH
    stage <- [o \in Orders |-> journal.ord[o].st],
    published <- trades

OrdersFollowLife == Life!Spec

(* Only one of the two attempts made a ticket. *)
Once(o) == \E k \in Attempts : ticket[<<o, k>>].st = "none"

(* A position's close is published as a trade at most once, across crashes and replays of the
   closing deal and whatever the tasks interleave. *)
TradedOnce == \A o \in Orders : Once(o) => trades[o] <= 1

(* With one task at a time and without a crash a fill is recorded once: the deal that reports it
   and the answer that reports it do not both count.  A crash may lose the save after which the
   deal, read again, records it a second time. *)
FilledOnce == serial /\ crashes = 0 => \A o \in Orders : fills[o] <= 1

SentOnce(o) == Once(o) /\ (o \in Resting => mem.ord[o].st # "rejected")
Settled == (\A c \in Tasks : task[c].pc = "idle") /\ mem.seen = Len(deals)

(* With one task at a time, once every deal is applied and nothing is in flight, the tracked
   order and the broker's position agree both ways.  Excepted are orders with an expiry, which
   expire_pending marks expired when the cancel is refused because they filled, and a second
   placement that was accepted or refused while the first one filled unseen, see
   OneIntentOneTicket. *)
PositionsAgree ==
    serial /\ Settled =>
        \A o \in Orders \ Timed :
          SentOnce(o) => \A k \in Attempts :
            (mem.ord[o].st = "open" /\ mem.ord[o].pos = k) <=> ticket[<<o, k>>].st = "position"

(* With one task at a time, a stop recorded as confirmed is at the broker, as tight as tracked. *)
ConfirmedIsProtected ==
    serial => \A o \in Orders : \A k \in Attempts :
        mem.ord[o].conf /\ mem.ord[o].pos = k /\ ticket[<<o, k>>].st = "position"
            => ticket[<<o, k>>].sl >= mem.ord[o].sl

(* What order_manager.py says of its retries: "retries and restarts never place twice". *)
OneIntentOneTicket == \A o \in Orders : Once(o)

(* A position that was filled without its stop gets one or is closed. *)
Exposed(o, k) ==
    /\ SentOnce(o) /\ o \notin Timed
    /\ ticket[<<o, k>>] = [st |-> "position", sl |-> 0]
StopRestored ==
    \A o \in Orders : \A k \in Attempts :
        Exposed(o, k) ~> ~Exposed(o, k)

(* Without a crash, the close of a position whose fill was applied is published. *)
TradePublished ==
    \A o \in Orders :
        (mem.ord[o].st = "closed") ~> (trades[o] = 1 \/ crashes > 0)

(* What TRADING_SYSTEM_SPEC.md says of daily, weekly and full halts: they "also close open
   positions at market".  A position that is open when such a halt is acted on is closed. *)
HaltClosesPositions ==
    \A i \in Tickets :
        (/\ task["control"].pc = "cancel_list" /\ task["control"].n = 1
         /\ ticket[i].st = "position")
            ~> ticket[i].st # "position"
=============================================================================
