------------------------ MODULE OrderManager_proofs ------------------------
(***************************************************************************)
(* Proofs about OrderManager, for any orders, decisions, stop levels and   *)
(* bounds, with tasks one after the other and interleaved alike: its       *)
(* types, that the journal knows every ticket, that a consumed decision is *)
(* consumed on disk, that a market order is never open twice, and that a   *)
(* position's close is published as a trade at most once.                  *)
(*                                                                         *)
(* Four invariants, each proved with the help of those before it: what a   *)
(* task holds at each of its points (Shape), what memory and journal have  *)
(* in common (Recorded), what the search before the second placement has   *)
(* ruled out (Searched, OneLive), and which deals were counted and traded  *)
(* (TInv): a ticket is placed while it does not exist, so that it closes   *)
(* once and leaves one closing deal; a trade that was published comes from *)
(* a deal the journal has counted, and memory counts each deal of the log  *)
(* once and never falls behind the journal.                                *)
(***************************************************************************)
EXTENDS OrderManager, FiniteSetTheorems, SequenceTheorems, TLAPS

(* The points of _send, of the halt's two loops over tickets, and those with an order at hand. *)
SendPoints == {"find_position", "find_order", "place"}
HaltPoints == {"cancel_list", "cancel_next", "cancel_one", "close_list", "close_next", "close_one"}
ConfirmPoints == {"confirm", "stop_set", "stop_check", "stop_close"}
KeepPoints == {"expire_cancel", "expire_check", "demote_cancel_one", "cancel_request"}
OrderPoints == SendPoints \union ConfirmPoints \union KeepPoints \union
               {"cancel_one", "close_one", "close_request", "tighten", "demote_close_one"}

(* What task c with local state t holds when memory is m, n deals are booked and a decisions
   are acknowledged. *)
TaskShape(c, t, m, n, a) ==
    /\ t.pc \in OrderPoints => t.o \in Orders
    /\ IF t.pc \in HaltPoints THEN t.todo \in SUBSET Tickets ELSE t.todo \in SUBSET Orders
    /\ t.ans.n <= n
    /\ (t.pc = "apply_deal" \/ t.ret = "apply_deal") => t.n <= n
    /\ t.ret \in {"idle", "apply_deal", "stops_next"}
    /\ t.ret # "idle" => t.pc \in ConfirmPoints
    /\ t.pc \in SendPoints => c = "decisions" /\ t.n \in Attempts
    /\ t.pc = "find_position" => t.op = "open_positions"
    /\ t.op = "place" => t.pc = "place" /\ t.k = t.n
    /\ t.op = "close" => t.pc \in OrderPoints /\ t.k \in Attempts
    /\ t.pc = "tighten" => t.sl \in 1..MaxSl
    /\ t.pc \in {"demote_close", "demote_close_one"} => \A o \in t.todo : m.ord[o].pos # 0
    /\ c = "decisions" /\ t.pc # "idle" => a < Len(Decisions)

OpenHasPosition(m) ==
    \A o \in Orders : /\ m.ord[o].st = "open" => m.ord[o].pos # 0
                      /\ m.ord[o].st = "none" => m.ord[o].pos = 0

Shape ==
    /\ \A c \in Tasks : TaskShape(c, task[c], mem, Len(deals), acked)
    /\ OpenHasPosition(mem) /\ OpenHasPosition(journal)

TypeInv == TypeOK /\ Shape

(* A task that is about to change order o whatever its state, or to place it, knows it. *)
HoldsKnown(t, m) ==
    /\ t.pc \in SendPoints \union KeepPoints => m.ord[t.o].st # "none"
    /\ t.pc \in {"demote_cancel", "demote_cancel_one"} => \A o \in t.todo : m.ord[o].st # "none"

(* Memory and journal know the same orders and sequence number. *)
Recorded ==
    /\ \A o \in Orders : mem.ord[o].st # "none" <=> journal.ord[o].st # "none"
    /\ mem.seq = journal.seq
    /\ \A c \in Tasks : HoldsKnown(task[c], mem)
    /\ WriteAhead
    /\ ConsumedOnDisk

(* Before the second attempt places a market order, the search has ruled out that the first
   is a position, unless its answer is still to come, was lost, or found it. *)
Searched ==
    LET t == task["decisions"] IN
    t.pc \in SendPoints =>
      /\ t.n = 1 => ticket[<<t.o, 2>>].st = "none"
      /\ t.n = 2 /\ t.o \notin Resting =>
           \/ ticket[<<t.o, 1>>].st # "position"
           \/ t.pc = "place" /\ t.ans # NoAnswer
           \/ /\ t.pc = "find_position"
              /\ t.ans \in {NoAnswer, Lost} \/ Saw("decisions", t.o, 1)

(* A market order does not rest, and is a position at most once. *)
OneLive ==
    \A o \in Orders \ Resting :
        /\ \A k \in Attempts : ticket[<<o, k>>].st # "order"
        /\ ticket[<<o, 1>>].st = "position" => ticket[<<o, 2>>].st # "position"

IInv == TypeInv /\ Recorded /\ Searched /\ OneLive

-----------------------------------------------------------------------------
(* The local states a task can be given. *)
LEMMA IdleType ==
    /\ Idle \in TaskState
    /\ Idle.pc = "idle" /\ Idle.todo = {} /\ Idle.ret = "idle" /\ Idle.op = "none"
    /\ Idle.ans = NoAnswer
  BY BrokerAssumption DEF Idle, TaskState, NoAnswer, Answer, Ops, BrokerAssumption

(* The answers without content. *)
LEMMA AnswerType ==
    \A a \in {Ack, Nack, Lost, NoAnswer} :
        /\ a.n = 0 /\ a.saw = {}
        /\ a \in [st : {"ok", "nack", "lost", "none"}, saw : SUBSET (Tickets \X (0..MaxSl)), n : Nat]
  BY DEF Ack, Nack, Lost, NoAnswer, Answer

(* A task goes to an await... *)
LEMMA AwaitType ==
    ASSUME NEW t \in TaskState, NEW pc \in Awaiting, NEW op \in Ops, NEW k \in 0..2, NEW sl \in 0..MaxSl
    PROVE  LET u == Await(t, pc, op, k, sl) IN
           /\ u \in TaskState
           /\ u.pc = pc /\ u.op = op /\ u.k = k /\ u.sl = sl /\ u.ans = NoAnswer
           /\ u.o = t.o /\ u.n = t.n /\ u.todo = t.todo /\ u.ret = t.ret
  BY AnswerType DEF Await, TaskState

(* ...or on to a point inside its run. *)
LEMMA RunType ==
    ASSUME NEW t \in TaskState, NEW pc \in Internal
    PROVE  LET u == Run(t, pc) IN
           /\ u \in TaskState
           /\ u.pc = pc /\ u.op = "none" /\ u.ans = NoAnswer
           /\ u.o = t.o /\ u.n = t.n /\ u.todo = t.todo /\ u.ret = t.ret
<1>1. 0 \in 0..MaxSl
  BY BrokerAssumption DEF BrokerAssumption
<1>2. "none" \in Ops /\ 0 \in 0..2 /\ pc \in {"idle"} \union Internal \union Awaiting
  BY DEF Ops
<1> QED
  BY <1>1, <1>2, AnswerType DEF Run, TaskState

(* A shape survives what other tasks do. *)
LEMMA ShapeGrows ==
    ASSUME NEW c \in Tasks, NEW t \in TaskState, NEW m, NEW n \in Nat, NEW a,
           TaskShape(c, t, m, n, a),
           NEW m2, NEW n2 \in Nat, n <= n2, NEW a2, c = "decisions" => a2 = a,
           \A o \in Orders : m.ord[o].pos # 0 => m2.ord[o].pos # 0
    PROVE  TaskShape(c, t, m2, n2, a2)
<1>1. t.n \in Nat /\ t.ans.n \in Nat
  BY DEF TaskState
<1>2. t.ans.n <= n2 /\ ((t.pc = "apply_deal" \/ t.ret = "apply_deal") => t.n <= n2)
  BY <1>1 DEF TaskShape
<1>3. t.pc \in {"demote_close", "demote_close_one"} => \A o \in t.todo : m2.ord[o].pos # 0
  BY DEF TaskShape, HaltPoints
<1> QED
  BY <1>2, <1>3, Zenon DEF TaskShape

(* The memories a step may leave. *)
MemGood(m) ==
    /\ m \in ExecState
    /\ OpenHasPosition(m)
    /\ \A o \in Orders : mem.ord[o].pos # 0 => m.ord[o].pos # 0

(* Memory as it is may stay... *)
LEMMA MemStays == TypeInv => MemGood(mem)
  BY DEF TypeInv, TypeOK, Shape, MemGood

(* ...and one tracked order may change, as long as it keeps its position. *)
LEMMA TrackedGood ==
    ASSUME TypeInv, NEW o \in Orders, NEW r \in TrackedOrder,
           r.st = "open" => r.pos # 0, r.st = "none" => r.pos = 0, mem.ord[o].pos # 0 => r.pos # 0
    PROVE  /\ MemGood(Tracked(o, r))
           /\ Tracked(o, r).ord[o] = r
           /\ Tracked(o, r).seen = mem.seen
  BY DEF TypeInv, TypeOK, Shape, MemGood, OpenHasPosition, Tracked, ExecState

(* A step of one task keeps the types and shapes when what it writes has them. *)
LEMMA TaskStep ==
    ASSUME TypeInv, NEW c \in Tasks, NEW t \in TaskState, Goto(c, t),
           NEW m, MemGood(m), mem' = m, journal' \in {m, journal},
           BrokerTypeOK', Len(deals) <= Len(deals'),
           acked' \in 0..Len(Decisions), c # "decisions" => acked' = acked,
           fills' \in [Orders -> 0..2], outbox' \in SUBSET Orders,
           UNCHANGED <<trades, serial>>, controls' \in 0..MaxControls, crashes' \in 0..MaxCrashes,
           TaskShape(c, t, m, Len(deals'), acked')
    PROVE  TypeInv'
<1>1. task' \in [Tasks -> TaskState] /\ task'[c] = t /\ \A d \in Tasks \ {c} : task'[d] = task[d]
  BY DEF TypeInv, TypeOK, Goto
<1>2. Len(deals) \in Nat /\ Len(deals') \in Nat
  <2>1. BrokerTypeOK
    BY DEF TypeInv, TypeOK
  <2>2. deals \in Seq([tk : Tickets, entry : {"in", "out"}])
    BY <2>1 DEF BrokerTypeOK
  <2>3. deals' \in Seq([tk : Tickets, entry : {"in", "out"}])
    BY DEF BrokerTypeOK
  <2> QED
    BY <2>2, <2>3
<1>3. ASSUME NEW d \in Tasks PROVE TaskShape(d, task'[d], mem', Len(deals'), acked')
  <2>1. CASE d = c
    BY <2>1, <1>1
  <2>2. CASE d # c
    <3>1. task'[d] = task[d] /\ task[d] \in TaskState
      BY <2>2, <1>1 DEF TypeInv, TypeOK
    <3>2. TaskShape(d, task[d], mem, Len(deals), acked)
      BY DEF TypeInv, Shape
    <3>3. \A o \in Orders : mem.ord[o].pos # 0 => mem'.ord[o].pos # 0
      BY DEF MemGood
    <3>4. d = "decisions" => acked' = acked
      BY <2>2
    <3> QED
      BY <3>1, <3>2, <3>3, <3>4, <1>2, ShapeGrows
  <2> QED
    BY <2>1, <2>2
<1>4. mem' \in ExecState /\ journal' \in ExecState /\ OpenHasPosition(mem') /\ OpenHasPosition(journal')
  BY DEF TypeInv, TypeOK, Shape, MemGood
<1>5. Shape'
  BY <1>3, <1>4 DEF Shape
<1>6. TypeOK'
  BY <1>1, <1>4 DEF TypeInv, TypeOK
<1> QED
  BY <1>5, <1>6 DEF TypeInv

(* The same where only task, memory and what is recorded move. *)
LEMMA QuietStep ==
    ASSUME TypeInv, NEW c \in Tasks, NEW t \in TaskState, Goto(c, t),
           NEW m, MemGood(m), mem' = m, journal' \in {m, journal},
           Quiet, fills' \in [Orders -> 0..2], outbox' \in SUBSET Orders,
           \/ UNCHANGED acked
           \/ c = "decisions" /\ acked < Len(Decisions) /\ Ended,
           TaskShape(c, t, m, Len(deals), acked')
    PROVE  TypeInv'
<1>1. BrokerTypeOK' /\ deals' = deals
  BY DEF TypeInv, TypeOK, Quiet, brokerVars, BrokerTypeOK
<1>2. Len(deals) \in Nat /\ Len(deals) <= Len(deals')
  BY <1>1 DEF TypeInv, TypeOK, BrokerTypeOK
<1>3. acked' \in 0..Len(Decisions) /\ (c # "decisions" => acked' = acked)
  BY OrderManagerAssumption DEF TypeInv, TypeOK, Ended, OrderManagerAssumption
<1>4. UNCHANGED <<trades, serial>> /\ controls' \in 0..MaxControls /\ crashes' \in 0..MaxCrashes
  BY DEF TypeInv, TypeOK, Quiet
<1> QED
  BY <1>1, <1>2, <1>3, <1>4, TaskStep

(* A task that ends has nothing at hand. *)
LEMMA IdleShape ==
    ASSUME NEW c, NEW m, NEW n \in Nat, NEW a
    PROVE  TaskShape(c, Idle, m, n, a)
  BY IdleType, AnswerType DEF TaskShape, OrderPoints, SendPoints, ConfirmPoints, KeepPoints, HaltPoints

(* The same for a task that writes and moves on... *)
LEMMA WriteStep ==
    ASSUME TypeInv, NEW c \in Tasks, NEW t \in TaskState, Goto(c, t),
           NEW m, MemGood(m), Save(m) \/ Keep(m),
           Quiet, UNCHANGED <<acked, fills, outbox>>,
           TaskShape(c, t, m, Len(deals), acked)
    PROVE  TypeInv'
<1>1. fills' \in [Orders -> 0..2] /\ outbox' \in SUBSET Orders
  BY DEF TypeInv, TypeOK
<1>2. mem' = m /\ journal' \in {m, journal}
  BY DEF Save, Keep
<1>3. TaskShape(c, t, m, Len(deals), acked')
  OBVIOUS
<1> QED
  BY <1>1, <1>2, <1>3, QuietStep

(* ...moves on only... *)
LEMMA MoveStep ==
    ASSUME TypeInv, NEW c \in Tasks, NEW t \in TaskState, Goto(c, t),
           UNCHANGED <<mem, journal, acked, fills, outbox>>, Quiet,
           TaskShape(c, t, mem, Len(deals), acked)
    PROVE  TypeInv'
<1>1. Keep(mem)
  BY DEF Keep
<1> QED
  BY <1>1, MemStays, WriteStep

(* ...or ends. *)
LEMMA EndStep ==
    ASSUME TypeInv, NEW c \in Tasks, Done(c), NEW m, MemGood(m), mem' = m, journal' \in {m, journal},
           Quiet, UNCHANGED <<fills, outbox>>,
           \/ UNCHANGED acked
           \/ c = "decisions" /\ acked < Len(Decisions) /\ Ended
    PROVE  TypeInv'
<1>1. fills' \in [Orders -> 0..2] /\ outbox' \in SUBSET Orders /\ Len(deals) \in Nat
  BY DEF TypeInv, TypeOK, BrokerTypeOK
<1>2. Goto(c, Idle) /\ Idle \in TaskState /\ TaskShape(c, Idle, m, Len(deals), acked')
  BY <1>1, IdleType, IdleShape DEF Done
<1> QED
  BY <1>1, <1>2, QuietStep

(* What the types and shapes say of one task. *)
LEMMA Holds ==
    ASSUME TypeInv, NEW c \in Tasks
    PROVE  /\ task[c] \in TaskState
           /\ TaskShape(c, task[c], mem, Len(deals), acked)
           /\ MemGood(mem)
           /\ \A o \in Orders : mem.ord[o] \in TrackedOrder
           /\ Len(deals) \in Nat
           /\ fills \in [Orders -> 0..2] /\ outbox \in SUBSET Orders
           /\ \A o \in Orders : Count(fills, o) \in [Orders -> 0..2]
  BY MemStays DEF TypeInv, TypeOK, Shape, ExecState, BrokerTypeOK, Count

(* What can happen to a tracked order. *)
LEMMA StateChanged ==
    ASSUME NEW r \in TrackedOrder, NEW s \in OrderStates
    PROVE  [r EXCEPT !.st = s] \in TrackedOrder /\ [r EXCEPT !.st = s].st = s /\ [r EXCEPT !.st = s].pos = r.pos
  BY DEF TrackedOrder

LEMMA TrackedOrders ==
    ASSUME NEW r \in TrackedOrder
    PROVE  /\ \A k \in Attempts : /\ Opened(r, k) \in TrackedOrder
                                  /\ Opened(r, k).st = "open" /\ Opened(r, k).pos = k
           /\ \A k \in Attempts : /\ [r EXCEPT !.st = "pending", !.oid = k] \in TrackedOrder
                                  /\ [r EXCEPT !.st = "pending", !.oid = k].pos = r.pos
                                  /\ [r EXCEPT !.st = "pending", !.oid = k].st = "pending"
           /\ \A s \in OrderStates : /\ [r EXCEPT !.st = s] \in TrackedOrder
                                     /\ [r EXCEPT !.st = s].st = s
                                     /\ [r EXCEPT !.st = s].pos = r.pos
           /\ /\ [r EXCEPT !.conf = TRUE] \in TrackedOrder
              /\ [r EXCEPT !.conf = TRUE].st = r.st /\ [r EXCEPT !.conf = TRUE].pos = r.pos
           /\ \A sl \in 1..MaxSl : /\ [r EXCEPT !.sl = sl] \in TrackedOrder
                                   /\ [r EXCEPT !.sl = sl].st = r.st
                                   /\ [r EXCEPT !.sl = sl].pos = r.pos
<1>1. ASSUME NEW k \in Attempts
      PROVE  Opened(r, k) \in TrackedOrder /\ Opened(r, k).st = "open" /\ Opened(r, k).pos = k
  <2>1. k \in 0..2 /\ "open" \in OrderStates
    BY DEF Attempts, OrderStates
  <2> QED
    BY <2>1 DEF TrackedOrder, Opened
<1>2. ASSUME NEW k \in Attempts
      PROVE  /\ [r EXCEPT !.st = "pending", !.oid = k] \in TrackedOrder
             /\ [r EXCEPT !.st = "pending", !.oid = k].pos = r.pos
             /\ [r EXCEPT !.st = "pending", !.oid = k].st = "pending"
  <2>1. k \in 0..2 /\ "pending" \in OrderStates
    BY DEF Attempts, OrderStates
  <2> QED
    BY <2>1 DEF TrackedOrder
<1>3. ASSUME NEW s \in OrderStates
      PROVE  /\ [r EXCEPT !.st = s] \in TrackedOrder
             /\ [r EXCEPT !.st = s].st = s /\ [r EXCEPT !.st = s].pos = r.pos
  BY StateChanged
<1>4. /\ [r EXCEPT !.conf = TRUE] \in TrackedOrder
      /\ [r EXCEPT !.conf = TRUE].st = r.st /\ [r EXCEPT !.conf = TRUE].pos = r.pos
  BY DEF TrackedOrder
<1>5. ASSUME NEW sl \in 1..MaxSl
      PROVE  /\ [r EXCEPT !.sl = sl] \in TrackedOrder
             /\ [r EXCEPT !.sl = sl].st = r.st /\ [r EXCEPT !.sl = sl].pos = r.pos
  BY DEF TrackedOrder
<1> QED
  BY <1>1, <1>2, <1>3, <1>4, <1>5

(* The memory after one of them. *)
LEMMA TrackedChanges ==
    ASSUME TypeInv, NEW o \in Orders
    PROVE  /\ \A k \in Attempts : MemGood(Tracked(o, Opened(mem.ord[o], k)))
           /\ \A k \in Attempts : MemGood(Tracked(o, [mem.ord[o] EXCEPT !.st = "pending", !.oid = k]))
           /\ \A s \in OrderStates \ {"none", "open"} :
                 MemGood(Tracked(o, [mem.ord[o] EXCEPT !.st = s]))
           /\ MemGood(Tracked(o, [mem.ord[o] EXCEPT !.conf = TRUE]))
           /\ \A sl \in 1..MaxSl : MemGood(Tracked(o, [mem.ord[o] EXCEPT !.sl = sl]))
<1> DEFINE r == mem.ord[o]
<1>1. r \in TrackedOrder /\ (r.st = "open" => r.pos # 0) /\ (r.st = "none" => r.pos = 0)
  BY Holds DEF TypeInv, Shape, OpenHasPosition, Tasks
<1> HIDE DEF r
<1>2. ASSUME NEW q \in TrackedOrder, q.st = "open" => q.pos # 0, q.st = "none" => q.pos = 0,
             r.pos # 0 => q.pos # 0
      PROVE  MemGood(Tracked(o, q))
  BY <1>2, TrackedGood DEF r
<1>3. ASSUME NEW k \in Attempts PROVE MemGood(Tracked(o, Opened(r, k)))
  <2>1. Opened(r, k) \in TrackedOrder /\ Opened(r, k).st = "open" /\ Opened(r, k).pos = k
    BY Zenon, <1>1, <1>3, TrackedOrders
  <2>2. k # 0
    BY DEF Attempts
  <2> QED
    BY <1>2, <2>1, <2>2
<1>4. ASSUME NEW k \in Attempts PROVE MemGood(Tracked(o, [r EXCEPT !.st = "pending", !.oid = k]))
  <2> DEFINE q == [r EXCEPT !.st = "pending", !.oid = k]
  <2>1. q \in TrackedOrder /\ q.st = "pending" /\ q.pos = r.pos
    BY <1>1, TrackedOrders
  <2> HIDE DEF q
  <2>2. MemGood(Tracked(o, q))
    BY <1>2, <2>1
  <2> QED
    BY <2>2 DEF q
<1>5. ASSUME NEW s \in OrderStates \ {"none", "open"}
      PROVE  MemGood(Tracked(o, [r EXCEPT !.st = s]))
  <2> DEFINE q == [r EXCEPT !.st = s]
  <2>1. q \in TrackedOrder /\ q.st = s /\ q.pos = r.pos
    <3>1. s \in OrderStates
      BY <1>5
    <3> QED
      BY <1>1, <3>1, StateChanged
  <2> HIDE DEF q
  <2>2. MemGood(Tracked(o, q))
    BY <1>2, <2>1
  <2> QED
    BY <2>2 DEF q
<1>6. MemGood(Tracked(o, [r EXCEPT !.conf = TRUE]))
  <2> DEFINE q == [r EXCEPT !.conf = TRUE]
  <2>1. q \in TrackedOrder /\ q.st = r.st /\ q.pos = r.pos
    BY <1>1, TrackedOrders
  <2> HIDE DEF q
  <2>2. MemGood(Tracked(o, q))
    BY <1>1, <1>2, <2>1
  <2> QED
    BY <2>2 DEF q
<1>7. ASSUME NEW sl \in 1..MaxSl PROVE MemGood(Tracked(o, [r EXCEPT !.sl = sl]))
  <2> DEFINE q == [r EXCEPT !.sl = sl]
  <2>1. q \in TrackedOrder /\ q.st = r.st /\ q.pos = r.pos
    BY <1>1, TrackedOrders
  <2> HIDE DEF q
  <2>2. MemGood(Tracked(o, q))
    BY <1>1, <1>2, <2>1
  <2> QED
    BY <2>2 DEF q
<1> QED
  BY <1>3, <1>4, <1>5, <1>6, <1>7 DEF r

(* The shape of a task that goes to an await. *)
LEMMA AwaitShape ==
    ASSUME NEW c, NEW t \in TaskState, NEW pc \in Awaiting, NEW op \in Ops, NEW k \in 0..2,
           NEW sl \in 0..MaxSl, NEW m, NEW n \in Nat, NEW a,
           pc \in OrderPoints => t.o \in Orders,
           IF pc \in HaltPoints THEN t.todo \in SUBSET Tickets ELSE t.todo \in SUBSET Orders,
           t.ret \in {"idle", "apply_deal", "stops_next"},
           t.ret = "apply_deal" => t.n <= n,
           t.ret = "idle" \/ pc \in ConfirmPoints,
           pc \in SendPoints => c = "decisions" /\ t.n \in Attempts,
           pc = "find_position" => op = "open_positions",
           op = "place" => pc = "place" /\ k = t.n,
           op = "close" => pc \in OrderPoints /\ k \in Attempts,
           pc = "tighten" => sl \in 1..MaxSl,
           pc = "demote_close_one" => \A o \in t.todo : m.ord[o].pos # 0,
           c = "decisions" => a < Len(Decisions)
    PROVE  /\ Await(t, pc, op, k, sl) \in TaskState
           /\ TaskShape(c, Await(t, pc, op, k, sl), m, n, a)
<1> DEFINE u == Await(t, pc, op, k, sl)
<1>1. /\ u \in TaskState
      /\ u.pc = pc /\ u.op = op /\ u.k = k /\ u.sl = sl /\ u.ans = NoAnswer
      /\ u.o = t.o /\ u.n = t.n /\ u.todo = t.todo /\ u.ret = t.ret
  BY AwaitType
<1> HIDE DEF u
<1>2. pc # "apply_deal" /\ pc # "demote_close"
  BY DEF Awaiting
<1>3. TaskShape(c, u, m, n, a)
  BY <1>1, <1>2, AnswerType DEF TaskShape
<1> QED
  BY <1>1, <1>3 DEF u

(* The shape of a task that runs on. *)
LEMMA RunShape ==
    ASSUME NEW c, NEW t \in TaskState, NEW pc \in Internal, NEW m, NEW n \in Nat, NEW a,
           IF pc \in HaltPoints THEN t.todo \in SUBSET Tickets ELSE t.todo \in SUBSET Orders,
           t.ret = "idle", pc = "apply_deal" => t.n <= n,
           pc = "demote_close" => \A o \in t.todo : m.ord[o].pos # 0,
           c = "decisions" => a < Len(Decisions)
    PROVE  /\ Run(t, pc) \in TaskState
           /\ TaskShape(c, Run(t, pc), m, n, a)
<1> DEFINE u == Run(t, pc)
<1>1. /\ u \in TaskState
      /\ u.pc = pc /\ u.op = "none" /\ u.ans = NoAnswer
      /\ u.o = t.o /\ u.n = t.n /\ u.todo = t.todo /\ u.ret = t.ret
  BY RunType
<1> HIDE DEF u
<1>2. pc \notin OrderPoints \union SendPoints \union {"tighten", "find_position", "demote_close_one"}
  BY DEF Internal, OrderPoints, SendPoints, ConfirmPoints, KeepPoints
<1>3. TaskShape(c, u, m, n, a)
  BY <1>1, <1>2, AnswerType DEF TaskShape
<1> QED
  BY <1>1, <1>3 DEF u

(* A task that has an order enters confirm_stop. *)
LEMMA ConfirmStopType ==
    ASSUME TypeInv, NEW c \in Tasks, NEW t \in TaskState, NEW o \in Orders, NEW m, NEW n, NEW a,
           NEW ret \in {"idle", "apply_deal", "stops_next"},
           t.todo \in SUBSET Orders, ret = "apply_deal" => t.n <= n, n \in Nat,
           c = "decisions" => a < Len(Decisions)
    PROVE  /\ ConfirmStop(t, o, ret) \in TaskState
           /\ TaskShape(c, ConfirmStop(t, o, ret), m, n, a)
<1> DEFINE u == [t EXCEPT !.o = o, !.ret = ret, !.tries = 0]
<1>0. ret \in {"idle"} \union Internal /\ 0 \in 0..2 /\ o \in Orders \union {NoOrder}
  BY DEF Internal
<1>1. u \in TaskState /\ u.o = o /\ u.ret = ret /\ u.n = t.n /\ u.todo = t.todo
  BY <1>0 DEF TaskState
<1>2. "confirm" \in Awaiting /\ "open_positions" \in Ops /\ 0 \in 0..2 /\ 0 \in 0..MaxSl
  BY BrokerAssumption DEF Awaiting, Ops, BrokerAssumption
<1> HIDE DEF u
<1> DEFINE v == Await(u, "confirm", "open_positions", 0, 0)
<1>3. /\ v \in TaskState
      /\ v.pc = "confirm" /\ v.op = "open_positions" /\ v.ans = NoAnswer
      /\ v.o = o /\ v.n = t.n /\ v.todo = t.todo /\ v.ret = ret
  BY <1>1, <1>2, AwaitType
<1> HIDE DEF v
<1>4. TaskShape(c, v, m, n, a)
  BY <1>3, AnswerType DEF TaskShape, OrderPoints, SendPoints, ConfirmPoints, KeepPoints, HaltPoints
<1> QED
  BY <1>3, <1>4 DEF ConfirmStop, u, v

-----------------------------------------------------------------------------
(* Types and shapes, one lemma per task.  First the reader of DECISIONS. *)
LEMMA NewDecision ==
    ASSUME TypeInv, DecisionWaits
    PROVE  /\ Decisions[NextDecision] \in Orders
           /\ acked < Len(Decisions) /\ NextDecision \in Nat
           /\ task["decisions"].pc = "idle"
           /\ Goto("decisions", task["decisions"]) <=> UNCHANGED task
           /\ \A a : TaskShape("decisions", task["decisions"], mem, Len(deals), a)
<1>1. acked \in Nat /\ acked < Len(Decisions) /\ task["decisions"].pc = "idle"
  BY OrderManagerAssumption DEF DecisionWaits, MayStart, TypeInv, TypeOK, OrderManagerAssumption
<1>2. Decisions[NextDecision] \in Orders /\ NextDecision \in Nat
  BY <1>1, OrderManagerAssumption DEF NextDecision, OrderManagerAssumption
<1>3. task = [task EXCEPT !["decisions"] = task["decisions"]]
  BY DEF TypeInv, TypeOK, Tasks
<1>4. ASSUME NEW a PROVE TaskShape("decisions", task["decisions"], mem, Len(deals), a)
  <2>1. "decisions" \in Tasks
    BY DEF Tasks
  <2>2. TaskShape("decisions", task["decisions"], mem, Len(deals), acked)
    BY <2>1, Holds
  <2> QED
    BY <1>1, <2>2 DEF TaskShape
<1> QED
  BY <1>1, <1>2, <1>3, <1>4 DEF Goto

(* A sequence number and a new order in memory. *)
LEMMA NewOrder ==
    ASSUME TypeInv, NEW o \in Orders, mem.ord[o].st = "none", NEW n \in Nat
    PROVE  /\ MemGood([mem EXCEPT !.seq = n])
           /\ MemGood([mem EXCEPT !.seq = n, !.ord[o] = [Untracked EXCEPT !.st = "sending"]])
<1>1. Untracked \in TrackedOrder
  <2>1. 1 \in 1..MaxSl /\ 0 \in 0..2 /\ "none" \in OrderStates
    BY BrokerAssumption DEF OrderStates, BrokerAssumption
  <2> QED
    BY <2>1 DEF Untracked, TrackedOrder
<1> DEFINE r == [Untracked EXCEPT !.st = "sending"]
<1>2. r \in TrackedOrder /\ r.st = "sending"
  <2>1. "sending" \in OrderStates
    BY DEF OrderStates
  <2> QED
    BY <1>1, <2>1, StateChanged
<1> HIDE DEF r
<1>3. mem.ord[o].pos = 0 /\ MemGood(mem)
  BY MemStays DEF MemGood, OpenHasPosition
<1>4. MemGood([mem EXCEPT !.seq = n])
  BY <1>3 DEF MemGood, OpenHasPosition, ExecState
<1>5. MemGood([mem EXCEPT !.seq = n, !.ord[o] = r])
  BY <1>2, <1>3 DEF MemGood, OpenHasPosition, ExecState
<1> QED
  BY <1>4, <1>5 DEF r

(* The answer a task goes on from saw tickets only. *)
LEMMA SawTicket ==
    ASSUME TypeInv, NEW c \in Tasks, NEW o, NEW k, Saw(c, o, k)
    PROVE  o \in Orders /\ k \in Attempts
<1>1. task[c].ans.saw \in SUBSET (Tickets \X (0..MaxSl))
  BY Holds DEF TaskState
<1> QED
  BY <1>1 DEF Saw, Tickets

(* The points of _send. *)
LEMMA SendShape ==
    ASSUME NEW t \in TaskState, t.o \in Orders, t.n \in Attempts, t.todo \in SUBSET Orders,
           t.ret = "idle", NEW m, NEW n \in Nat, NEW a, a < Len(Decisions), NEW sl \in 0..MaxSl
    PROVE  LET Good(u) == u \in TaskState /\ TaskShape("decisions", u, m, n, a) IN
           /\ Good(Await(t, "find_position", "open_positions", 0, sl))
           /\ Good(Await(t, "find_order", "pending_orders", 0, sl))
           /\ Good(Await(t, "place", "place", t.n, sl))
<1>1. SendPoints \subseteq Awaiting /\ SendPoints \subseteq OrderPoints /\ t.n \in 0..2 /\ 0 \in 0..2
  BY DEF SendPoints, OrderPoints, Awaiting, Attempts
<1>2. SendPoints \cap (HaltPoints \union {"tighten", "demote_close_one"}) = {}
  BY DEF HaltPoints, SendPoints
<1>3. /\ {"find_position", "find_order", "place"} \subseteq SendPoints
      /\ {"open_positions", "pending_orders", "place"} \subseteq Ops
  BY DEF SendPoints, Ops
<1> QED
  BY <1>1, <1>2, <1>3, AwaitShape

(* What the reader of DECISIONS leaves has the types and shapes. *)
LEMMA TypeDecisions == ASSUME TypeInv, DecisionSteps PROVE TypeInv'
<1> DEFINE c == "decisions"
           t == task[c]
<1>0. /\ c \in Tasks /\ t \in TaskState
      /\ TaskShape(c, t, mem, Len(deals), acked)
      /\ MemGood(mem) /\ Len(deals) \in Nat
      /\ fills \in [Orders -> 0..2] /\ outbox \in SUBSET Orders
      /\ 0 \in 0..MaxSl /\ 0 \in 0..2
  BY Holds, BrokerAssumption DEF Tasks, BrokerAssumption
<1>1. CASE DropDecision
  <2>1. acked < Len(Decisions) /\ Goto(c, t) /\ TaskShape(c, t, mem, Len(deals), acked')
    BY <1>1, NewDecision DEF DropDecision
  <2> QED
    BY <1>0, <1>1, <2>1, QuietStep DEF DropDecision
<1>2. CASE RefuseEntry
  <2> DEFINE m == [mem EXCEPT !.seq = NextDecision]
  <2>1. DecisionWaits /\ Admissible(Decisions[NextDecision]) /\ Save(m) /\ UNCHANGED task
    BY <1>2 DEF RefuseEntry
  <2>2. MemGood(m) /\ acked < Len(Decisions) /\ Goto(c, t)
    BY <2>1, NewDecision, NewOrder DEF Admissible
  <2>3. TaskShape(c, t, m, Len(deals), acked')
    BY <2>1, NewDecision DEF TaskShape
  <2> HIDE DEF m
  <2> QED
    BY <1>0, <1>2, <2>1, <2>2, <2>3, QuietStep DEF RefuseEntry, Save
<1>3. CASE Execute
  <2> DEFINE o == Decisions[NextDecision]
             m == [mem EXCEPT !.seq = NextDecision, !.ord[o] = [Untracked EXCEPT !.st = "sending"]]
             i == [Idle EXCEPT !.o = o, !.n = 1]
             u == Await(i, "find_position", "open_positions", 0, 0)
  <2>1. DecisionWaits /\ Admissible(o) /\ Save(m) /\ Goto(c, u)
    BY <1>3 DEF Execute
  <2>2. MemGood(m) /\ acked < Len(Decisions) /\ o \in Orders
    BY <2>1, NewDecision, NewOrder DEF Admissible
  <2>3. i \in TaskState /\ i.o = o /\ i.n = 1 /\ i.todo = {} /\ i.ret = "idle"
    BY <2>2, IdleType DEF TaskState
  <2> HIDE DEF m, i
  <2>4. u \in TaskState /\ TaskShape(c, u, m, Len(deals), acked)
    BY <1>0, <2>2, <2>3, SendShape DEF Attempts
  <2> HIDE DEF u
  <2> QED
    BY <1>0, <1>3, <2>1, <2>2, <2>4, QuietStep DEF Execute, Save
<1>4. ASSUME t.pc \in SendPoints
      PROVE  t.o \in Orders /\ t.n \in Attempts /\ t.todo \in SUBSET Orders /\ acked < Len(Decisions)
             /\ t.ret = "idle"
  BY <1>0, <1>4 DEF TaskShape, SendPoints, OrderPoints, HaltPoints, ConfirmPoints
<1>5. CASE Retry
  <2>1. t.pc \in SendPoints /\ UNCHANGED <<mem, journal, fills, outbox>> /\ Quiet
    BY <1>5 DEF Retry, SendPoints
  <2>2. CASE t.n = 1 /\ UNCHANGED acked
             /\ Goto(c, Await([t EXCEPT !.n = 2], "find_position", "open_positions", 0, 0))
    <3> DEFINE i == [t EXCEPT !.n = 2]
               u == Await(i, "find_position", "open_positions", 0, 0)
    <3>1. i \in TaskState /\ i.o = t.o /\ i.n = 2 /\ i.todo = t.todo /\ i.ret = t.ret
      BY <1>0 DEF TaskState
    <3> HIDE DEF i
    <3>2. u \in TaskState /\ TaskShape(c, u, mem, Len(deals), acked)
      BY <1>0, <1>4, <2>1, <3>1, SendShape DEF Attempts
    <3> QED
      BY <1>0, <2>1, <2>2, <3>2, QuietStep DEF i
  <2>3. CASE t.n = 2 /\ Done(c) /\ Ended
    BY <1>0, <1>4, <2>1, <2>3, IdleType, IdleShape, QuietStep DEF Done
  <2> QED
    BY <1>5, <2>2, <2>3 DEF Retry
<1>6. CASE FoundPosition
  <2>1. t.pc \in SendPoints /\ Quiet /\ UNCHANGED <<acked, outbox>>
    BY <1>6 DEF FoundPosition, At, SendPoints
  <2>2. ASSUME NEW k \in Attempts, Save(Tracked(t.o, Opened(mem.ord[t.o], k))),
               fills' = Count(fills, t.o), Goto(c, ConfirmStop(t, t.o, "idle"))
        PROVE  TypeInv'
    <3> DEFINE m == Tracked(t.o, Opened(mem.ord[t.o], k))
               u == ConfirmStop(t, t.o, "idle")
    <3>1. MemGood(m)
      BY <1>4, <2>1, TrackedChanges
    <3>2. u \in TaskState /\ TaskShape(c, u, m, Len(deals), acked')
      BY <1>0, <1>4, <2>1, ConfirmStopType
    <3>3. mem' = m /\ journal' = m /\ fills' \in [Orders -> 0..2]
      BY <1>0, <1>4, <2>1, <2>2, Holds DEF Save
    <3>4. Goto(c, u)
      BY <2>2
    <3> HIDE DEF m, u
    <3> QED
      BY <1>0, <2>1, <3>1, <3>2, <3>3, <3>4, QuietStep
  <2>3. CASE Goto(c, Await(t, "find_order", "pending_orders", 0, 0)) /\ UNCHANGED <<mem, journal, fills>>
    BY <1>0, <1>4, <2>1, <2>3, SendShape, QuietStep
  <2> QED
    BY <1>6, <2>2, <2>3 DEF FoundPosition
<1>7. CASE FoundOrder
  <2>1. t.pc \in SendPoints /\ Quiet /\ UNCHANGED <<fills, outbox>>
    BY <1>7 DEF FoundOrder, At, SendPoints
  <2>2. ASSUME NEW k \in Attempts, Done(c), Ended,
               Save(Tracked(t.o, [mem.ord[t.o] EXCEPT !.st = "pending", !.oid = k]))
        PROVE  TypeInv'
    <3> DEFINE m == Tracked(t.o, [mem.ord[t.o] EXCEPT !.st = "pending", !.oid = k])
    <3>1. MemGood(m)
      BY <1>4, <2>1, TrackedChanges
    <3>2. mem' = m /\ journal' = m
      BY <2>2 DEF Save
    <3>3. Goto(c, Idle) /\ Ended
      BY <2>2 DEF Done
    <3> HIDE DEF m
    <3> QED
      BY <1>0, <1>4, <2>1, <3>1, <3>2, <3>3, IdleType, IdleShape, QuietStep
  <2>3. CASE Goto(c, Await(t, "place", "place", t.n, mem.ord[t.o].sl)) /\ UNCHANGED <<mem, journal, acked>>
    <3>1. mem.ord[t.o].sl \in 0..MaxSl
      BY <1>0, <1>4, <2>1, Holds DEF TrackedOrder
    <3> DEFINE u == Await(t, "place", "place", t.n, mem.ord[t.o].sl)
    <3>2. u \in TaskState /\ TaskShape(c, u, mem, Len(deals), acked)
      BY <1>0, <1>4, <2>1, <3>1, SendShape
    <3>3. Goto(c, u)
      BY <2>3
    <3> HIDE DEF u
    <3> QED
      BY <1>0, <2>1, <2>3, <3>2, <3>3, QuietStep
  <2> QED
    BY <1>7, <2>2, <2>3 DEF FoundOrder
<1>8. CASE Placed
  <2>1. t.pc \in SendPoints /\ Quiet /\ UNCHANGED outbox
    BY <1>8 DEF Placed, At, SendPoints
  <2>2. ASSUME NEW m, MemGood(m), Save(m), Done(c), Ended, UNCHANGED fills
        PROVE  TypeInv'
    BY <1>0, <1>4, <2>1, <2>2, IdleType, IdleShape, QuietStep DEF Done, Save
  <2>3. CASE /\ Save(Tracked(t.o, Opened(mem.ord[t.o], t.n)))
             /\ fills' = Count(fills, t.o)
             /\ Goto(c, ConfirmStop(t, t.o, "idle"))
             /\ UNCHANGED acked
    <3> DEFINE m == Tracked(t.o, Opened(mem.ord[t.o], t.n))
               u == ConfirmStop(t, t.o, "idle")
    <3>1. MemGood(m)
      BY <1>4, <2>1, TrackedChanges
    <3>2. u \in TaskState /\ TaskShape(c, u, m, Len(deals), acked')
      BY <1>0, <1>4, <2>1, <2>3, ConfirmStopType
    <3>3. mem' = m /\ journal' = m /\ fills' \in [Orders -> 0..2]
      BY <1>0, <1>4, <2>1, <2>3, Holds DEF Save
    <3>4. Goto(c, u) /\ UNCHANGED acked
      BY <2>3
    <3> HIDE DEF m, u
    <3> QED
      BY <1>0, <2>1, <3>1, <3>2, <3>3, <3>4, QuietStep
  <2>4. /\ MemGood(Tracked(t.o, [mem.ord[t.o] EXCEPT !.st = "rejected"]))
        /\ MemGood(Tracked(t.o, [mem.ord[t.o] EXCEPT !.st = "pending", !.oid = t.n]))
    BY <1>4, <2>1, TrackedChanges DEF OrderStates
  <2> QED
    BY <1>8, <2>2, <2>3, <2>4 DEF Placed
<1> QED
  BY <1>1, <1>2, <1>3, <1>5, <1>6, <1>7, <1>8 DEF DecisionSteps

-----------------------------------------------------------------------------
(* confirm_stop in either task that calls it returns to its caller. *)
LEMMA ReturnStep ==
    ASSUME TypeInv, NEW c \in {"decisions", "cycle"}, task[c].pc \in ConfirmPoints,
           NEW m, MemGood(m), mem' = m, journal' \in {m, journal},
           Return(c), Quiet, UNCHANGED <<fills, outbox>>
    PROVE  TypeInv'
<1> DEFINE t == task[c]
<1>0. /\ c \in Tasks /\ t \in TaskState
      /\ TaskShape(c, t, mem, Len(deals), acked)
      /\ Len(deals) \in Nat
      /\ fills \in [Orders -> 0..2] /\ outbox \in SUBSET Orders
  BY Holds DEF Tasks
<1>1. /\ t.todo \in SUBSET Orders /\ t.ret \in {"idle", "apply_deal", "stops_next"}
      /\ (t.ret = "apply_deal" => t.n <= Len(deals))
      /\ (c = "decisions" => acked < Len(Decisions))
  BY <1>0 DEF TaskShape, ConfirmPoints, HaltPoints
<1>2. CASE t.ret = "idle"
  <2>1. /\ Done(c)
        /\ \/ UNCHANGED acked
           \/ c = "decisions" /\ acked < Len(Decisions) /\ Ended
    BY <1>1, <1>2 DEF Return
  <2> QED
    BY <1>0, <2>1, EndStep
<1>3. CASE t.ret # "idle"
  <2> DEFINE v == [t EXCEPT !.ret = "idle", !.o = NoOrder, !.tries = 0]
             u == Run(v, t.ret)
  <2>1. Goto(c, u) /\ UNCHANGED acked
    BY <1>3 DEF Return
  <2>2. NoOrder \in Orders \union {NoOrder} /\ 0 \in 0..2 /\ "idle" \in {"idle"} \union Internal
    OBVIOUS
  <2>3. v \in TaskState /\ v.todo = t.todo /\ v.ret = "idle" /\ v.n = t.n
    BY <1>0, <2>2 DEF TaskState
  <2>4. t.ret \in Internal /\ t.ret \notin HaltPoints /\ t.ret # "demote_close"
    BY <1>1, <1>3 DEF Internal, HaltPoints
  <2> HIDE DEF v
  <2>5. u \in TaskState /\ TaskShape(c, u, m, Len(deals), acked)
    BY <1>0, <1>1, <2>3, <2>4, RunShape
  <2> HIDE DEF u
  <2>6. fills' \in [Orders -> 0..2] /\ outbox' \in SUBSET Orders
    BY <1>0
  <2> QED
    BY <1>0, <2>1, <2>5, <2>6, QuietStep
<1> QED
  BY <1>2, <1>3

(* The awaits of confirm_stop. *)
LEMMA ConfirmShape ==
    ASSUME NEW c, NEW t \in TaskState, t.o \in Orders, t.todo \in SUBSET Orders,
           t.ret \in {"idle", "apply_deal", "stops_next"}, NEW m, NEW n \in Nat, NEW a,
           t.ret = "apply_deal" => t.n <= n, c = "decisions" => a < Len(Decisions),
           NEW k \in 0..2, NEW sl \in 0..MaxSl
    PROVE  LET Good(u) == u \in TaskState /\ TaskShape(c, u, m, n, a) IN
           /\ Good(Await(t, "stop_set", "modify", k, sl))
           /\ Good(Await(t, "stop_check", "open_positions", k, sl))
           /\ k \in Attempts => Good(Await(t, "stop_close", "close", k, sl))
<1>1. /\ ConfirmPoints \subseteq Awaiting /\ ConfirmPoints \subseteq OrderPoints
      /\ ConfirmPoints \cap (HaltPoints \union SendPoints \union {"tighten", "demote_close_one"}) = {}
  BY DEF ConfirmPoints, OrderPoints, Awaiting, HaltPoints, SendPoints
<1>2. /\ {"stop_set", "stop_check", "stop_close"} \subseteq ConfirmPoints
      /\ {"modify", "open_positions", "close"} \subseteq Ops
      /\ "find_position" \in SendPoints
  BY DEF ConfirmPoints, Ops, SendPoints
<1> QED
  BY <1>1, <1>2, AwaitShape

(* What confirm_stop leaves. *)
LEMMA TypeConfirm ==
    ASSUME TypeInv, NEW c \in {"decisions", "cycle"}, ConfirmSteps(c)
    PROVE  TypeInv'
<1> DEFINE t == task[c]
           o == t.o
<1>1. t.pc \in ConfirmPoints /\ Quiet /\ UNCHANGED <<fills, outbox>>
  BY DEF ConfirmSteps, StopSeen, StopAsked, StopChecked, StopClosed, At, ConfirmPoints
<1>2. /\ c \in Tasks /\ t \in TaskState
      /\ TaskShape(c, t, mem, Len(deals), acked)
      /\ MemGood(mem) /\ Len(deals) \in Nat
  BY Holds DEF Tasks
<1>3. /\ o \in Orders
      /\ t.todo \in SUBSET Orders /\ t.ret \in {"idle", "apply_deal", "stops_next"}
      /\ (t.ret = "apply_deal" => t.n <= Len(deals))
      /\ (c = "decisions" => acked < Len(Decisions))
  BY <1>1, <1>2 DEF TaskShape, ConfirmPoints, OrderPoints, HaltPoints
<1>4. mem.ord[o].pos \in 0..2 /\ mem.ord[o].sl \in 0..MaxSl /\ 0 \in 0..MaxSl /\ 0 \in 0..2
  BY <1>2, <1>3, Holds, BrokerAssumption DEF TrackedOrder, BrokerAssumption
<1>5. CASE Return(c) /\ UNCHANGED <<mem, journal>>
  BY <1>1, <1>2, <1>5, ReturnStep
<1>6. CASE Return(c) /\ Confirmed(o)
  <2> DEFINE m == Tracked(o, [mem.ord[o] EXCEPT !.conf = TRUE])
  <2>1. MemGood(m) /\ mem' = m /\ journal' = m
    BY <1>3, <1>6, TrackedChanges DEF Confirmed, Save
  <2> HIDE DEF m
  <2> QED
    BY <1>1, <1>6, <2>1, ReturnStep
<1>7. ASSUME NEW tries \in 0..2, AskStop(c, [t EXCEPT !.tries = tries]), UNCHANGED <<mem, journal, acked>>
      PROVE  TypeInv'
  <2> DEFINE v == [t EXCEPT !.tries = tries]
             u == Await(v, "stop_set", "modify", mem.ord[o].pos, mem.ord[o].sl)
  <2>1. v \in TaskState /\ v.todo = t.todo /\ v.ret = t.ret /\ v.n = t.n /\ v.o = o
    BY <1>2 DEF TaskState
  <2>2. Goto(c, u)
    BY <1>7, <2>1 DEF AskStop
  <2> HIDE DEF v
  <2>3. u \in TaskState /\ TaskShape(c, u, mem, Len(deals), acked)
    BY <1>2, <1>3, <1>4, <2>1, ConfirmShape
  <2> HIDE DEF u
  <2> QED
    BY <1>1, <1>2, <1>7, <2>2, <2>3, MoveStep
<1>8. CASE Goto(c, Await(t, "stop_check", "open_positions", 0, 0)) /\ UNCHANGED <<mem, journal, acked>>
  <2> DEFINE u == Await(t, "stop_check", "open_positions", 0, 0)
  <2>1. u \in TaskState /\ TaskShape(c, u, mem, Len(deals), acked)
    BY <1>2, <1>3, <1>4, ConfirmShape
  <2> QED
    BY <1>1, <1>2, <1>8, <2>1, MoveStep
<1>9. CASE /\ Saw(c, o, mem.ord[o].pos)
           /\ Goto(c, Await(t, "stop_close", "close", mem.ord[o].pos, 0))
           /\ UNCHANGED <<mem, journal, acked>>
  <2> DEFINE u == Await(t, "stop_close", "close", mem.ord[o].pos, 0)
  <2>1. mem.ord[o].pos \in Attempts
    BY <1>2, <1>9, SawTicket
  <2>2. u \in TaskState /\ TaskShape(c, u, mem, Len(deals), acked)
    BY <1>2, <1>3, <1>4, <2>1, ConfirmShape
  <2> QED
    BY <1>1, <1>2, <1>9, <2>2, MoveStep
<1>10. CASE StopSeen(c)
  BY <1>5, <1>6, <1>7, <1>10 DEF StopSeen
<1>11. CASE StopAsked(c)
  BY <1>8, <1>11 DEF StopAsked
<1>12. CASE StopChecked(c)
  <2>1. t.tries \in 0..2 /\ (t.tries < 2 => t.tries + 1 \in 0..2)
    BY <1>2 DEF TaskState
  <2>2. [t EXCEPT !.tries = @ + 1] = [t EXCEPT !.tries = t.tries + 1]
    OBVIOUS
  <2> QED
    BY <1>5, <1>6, <1>7, <1>9, <1>12, <2>1, <2>2 DEF StopChecked
<1>13. CASE StopClosed(c)
  <2>1. Save(mem) => UNCHANGED mem /\ journal' = mem
    BY DEF Save
  <2> QED
    BY <1>1, <1>2, <1>5, <1>13, <2>1, ReturnStep DEF StopClosed
<1> QED
  BY <1>10, <1>11, <1>12, <1>13 DEF ConfirmSteps

-----------------------------------------------------------------------------
(* The awaits of the periodic cycle. *)
LEMMA CycleShape ==
    ASSUME NEW t \in TaskState, t.o \in Orders, t.todo \in SUBSET Orders,
           t.ret = "idle", NEW m, NEW n \in Nat, NEW a, NEW k \in 0..2
    PROVE  LET Good(u) == u \in TaskState /\ TaskShape("cycle", u, m, n, a) IN
           /\ Good(Await(t, "expire_cancel", "cancel", k, 0))
           /\ Good(Await(t, "expire_check", "pending_orders", k, 0))
<1>1. /\ KeepPoints \subseteq Awaiting /\ KeepPoints \subseteq OrderPoints
      /\ KeepPoints \cap (HaltPoints \union SendPoints \union {"tighten", "demote_close_one"}) = {}
  BY DEF KeepPoints, OrderPoints, Awaiting, HaltPoints, SendPoints
<1>2. /\ {"expire_cancel", "expire_check"} \subseteq KeepPoints
      /\ {"cancel", "pending_orders"} \subseteq Ops
      /\ "find_position" \in SendPoints /\ 0 \in 0..MaxSl
  BY BrokerAssumption DEF KeepPoints, Ops, SendPoints, BrokerAssumption
<1> QED
  BY <1>1, <1>2, AwaitShape

(* The memory after a deal is applied. *)
LEMMA SeenGood ==
    ASSUME TypeInv
    PROVE  /\ MemGood(Seen)
           /\ \A o \in Orders : \A k \in Attempts : MemGood([Seen EXCEPT !.ord[o] = Opened(mem.ord[o], k)])
           /\ \A o \in Orders : MemGood([Seen EXCEPT !.ord[o].st = "closed"])
<1>0. mem \in ExecState /\ MemGood(mem)
  BY MemStays DEF TypeInv, TypeOK
<1>1. ASSUME NEW m, MemGood(m) PROVE MemGood([m EXCEPT !.seen = mem.seen + 1])
  BY <1>0, <1>1 DEF MemGood, OpenHasPosition, ExecState
<1>2. ASSUME NEW o \in Orders, NEW r, MemGood(Tracked(o, r))
      PROVE  MemGood([Seen EXCEPT !.ord[o] = r])
  <2> DEFINE x == [Seen EXCEPT !.ord[o] = r]
  <2>1. x = [Tracked(o, r) EXCEPT !.seen = mem.seen + 1]
    BY <1>0 DEF Seen, Tracked, ExecState
  <2>2. MemGood(x)
    BY <1>1, <1>2, <2>1
  <2> QED
    BY <2>2
<1>3. MemGood(Seen)
  BY <1>0, <1>1 DEF Seen
<1>4. ASSUME NEW o \in Orders, NEW k \in Attempts
      PROVE  MemGood([Seen EXCEPT !.ord[o] = Opened(mem.ord[o], k)])
  <2> DEFINE r == Opened(mem.ord[o], k)
  <2>1. MemGood(Tracked(o, r))
    BY TrackedChanges
  <2> HIDE DEF r
  <2>2. MemGood([Seen EXCEPT !.ord[o] = r])
    BY <1>2, <2>1
  <2> QED
    BY <2>2 DEF r
<1>5. ASSUME NEW o \in Orders PROVE MemGood([Seen EXCEPT !.ord[o].st = "closed"])
  <2> DEFINE r == [mem.ord[o] EXCEPT !.st = "closed"]
  <2>1. MemGood(Tracked(o, r))
    BY TrackedChanges DEF OrderStates
  <2>2. [Seen EXCEPT !.ord[o].st = "closed"] = [Seen EXCEPT !.ord[o] = r]
    BY <1>0 DEF Seen, ExecState
  <2> HIDE DEF r
  <2>3. MemGood([Seen EXCEPT !.ord[o] = r])
    BY <1>2, <2>1
  <2> QED
    BY <2>2, <2>3
<1> QED
  BY <1>3, <1>4, <1>5

(* What the cycle leaves. *)
LEMMA TypeCycle == ASSUME TypeInv, CycleSteps PROVE TypeInv'
<1> DEFINE c == "cycle"
           t == task[c]
<1>0. /\ c \in Tasks /\ t \in TaskState
      /\ TaskShape(c, t, mem, Len(deals), acked)
      /\ MemGood(mem) /\ Len(deals) \in Nat
      /\ fills \in [Orders -> 0..2] /\ outbox \in SUBSET Orders
      /\ 0 \in 0..MaxSl /\ 0 \in 0..2 /\ NoOrder \in Orders \union {NoOrder}
      /\ \A o \in Orders : mem.ord[o] \in TrackedOrder
  BY Holds, BrokerAssumption DEF Tasks, BrokerAssumption
<1>1. /\ (t.pc \notin ConfirmPoints => t.ret = "idle")
      /\ (t.pc \notin HaltPoints => t.todo \in SUBSET Orders)
      /\ (t.pc \in OrderPoints => t.o \in Orders)
  BY <1>0 DEF TaskShape
<1>2. CASE StartCycle
  <2> DEFINE u == Await(Idle, "deals", "deals", 0, 0)
  <2>1. "deals" \in Awaiting /\ "deals" \in Ops
        /\ "deals" \notin OrderPoints \union HaltPoints \union SendPoints \union {"tighten"}
    BY DEF Awaiting, Ops, OrderPoints, HaltPoints, SendPoints, ConfirmPoints, KeepPoints
  <2>2. u \in TaskState /\ TaskShape(c, u, mem, Len(deals), acked)
    BY <1>0, <2>1, IdleType, AwaitShape
  <2> QED
    BY <1>0, <1>2, <2>2, MoveStep DEF StartCycle
<1>3. CASE CycleLost
  BY <1>0, <1>3, EndStep DEF CycleLost
<1>4. CASE GotDeals
  <2> DEFINE v == [t EXCEPT !.n = t.ans.n, !.m = mem.seen]
             u == Run(v, "apply_deal")
  <2>1. t.ans.n \in Nat /\ t.ans.n <= Len(deals) /\ mem.seen \in Nat
    BY <1>0 DEF TaskState, TaskShape, MemGood, ExecState
  <2>2. v \in TaskState /\ v.n = t.ans.n /\ v.todo = t.todo /\ v.ret = t.ret
    BY <1>0, <2>1 DEF TaskState
  <2>3. t.pc = "deals" /\ "deals" \notin HaltPoints \union ConfirmPoints /\ "apply_deal" \notin HaltPoints
        /\ "apply_deal" \in Internal
    BY <1>4 DEF GotDeals, At, HaltPoints, Internal, ConfirmPoints
  <2> HIDE DEF v
  <2>4. u \in TaskState /\ TaskShape(c, u, mem, Len(deals), acked)
    BY <1>0, <1>1, <2>1, <2>2, <2>3, RunShape
  <2> QED
    BY <1>0, <1>4, <2>4, MoveStep DEF GotDeals, v
<1>5. CASE ApplyDeal
  <2> DEFINE d == deals[mem.seen + 1]
             o == d.tk[1]
             k == d.tk[2]
             r == mem.ord[o]
  <2>1. t.pc = "apply_deal" /\ t.n <= Len(deals) /\ t.todo \in SUBSET Orders /\ mem.seen < t.n
        /\ Quiet /\ UNCHANGED acked
    BY <1>0, <1>1, <1>5 DEF ApplyDeal, At, TaskShape, HaltPoints
  <2>2. o \in Orders /\ k \in Attempts
    <3>0. mem.seen \in Nat /\ t.n \in Nat
      BY <1>0 DEF MemGood, ExecState, TaskState
    <3>1. mem.seen + 1 \in 1..Len(deals)
      BY <1>0, <2>1, <3>0
    <3>2. d \in [tk : Tickets, entry : {"in", "out"}]
      <4>1. deals \in Seq([tk : Tickets, entry : {"in", "out"}])
        BY DEF TypeInv, TypeOK, BrokerTypeOK
      <4> QED
        BY <3>1, <4>1, ElementOfSeq
    <3>3. d.tk \in Tickets
      BY <3>2
    <3> QED
      BY <3>3 DEF Tickets
  <2>3. CASE /\ Save([Seen EXCEPT !.ord[o] = Opened(r, k)])
             /\ fills' = Count(fills, o)
             /\ Goto(c, ConfirmStop(t, o, "apply_deal"))
             /\ UNCHANGED outbox
    <3> DEFINE m == [Seen EXCEPT !.ord[o] = Opened(r, k)]
               u == ConfirmStop(t, o, "apply_deal")
    <3>1. MemGood(m) /\ mem' = m /\ journal' = m
      BY <2>2, <2>3, SeenGood DEF Save
    <3>2. u \in TaskState /\ TaskShape(c, u, m, Len(deals), acked')
      BY <1>0, <2>1, <2>2, ConfirmStopType
    <3>3. Goto(c, u) /\ fills' \in [Orders -> 0..2] /\ outbox' \in SUBSET Orders
      BY <1>0, <2>2, <2>3, Holds
    <3> HIDE DEF m, u
    <3> QED
      BY <1>0, <2>1, <3>1, <3>2, <3>3, QuietStep
  <2>4. ASSUME NEW m, MemGood(m), Keep(m), UNCHANGED <<task, fills>>, outbox' \in SUBSET Orders
        PROVE  TypeInv'
    <3>1. Goto(c, t)
      BY <1>0, <2>4 DEF Goto, TypeInv, TypeOK
    <3>2. \A p \in Orders : mem.ord[p].pos # 0 => m.ord[p].pos # 0
      BY <2>4 DEF MemGood
    <3>3. TaskShape(c, t, m, Len(deals), acked')
      <4>1. acked' = acked /\ Len(deals) <= Len(deals)
        BY <1>0, <2>1
      <4> HIDE DEF c, t
      <4> QED
        BY <1>0, <3>2, <4>1, ShapeGrows
    <3>4. mem' = m /\ journal' = journal /\ fills' \in [Orders -> 0..2]
      BY <1>0, <2>4 DEF Keep
    <3> QED
      BY <1>0, <2>1, <2>4, <3>1, <3>3, <3>4, QuietStep
  <2>5. CASE /\ Keep([Seen EXCEPT !.ord[o].st = "closed"])
             /\ outbox' = IF r.entered THEN outbox \union {o} ELSE outbox
             /\ UNCHANGED <<task, fills>>
    <3> DEFINE m == [Seen EXCEPT !.ord[o].st = "closed"]
    <3>1. MemGood(m)
      BY <2>2, SeenGood
    <3>2. outbox' \in SUBSET Orders
      BY <1>0, <2>2, <2>5
    <3>3. Keep(m)
      BY <2>5
    <3> HIDE DEF m
    <3> QED
      BY <2>4, <2>5, <3>1, <3>2, <3>3
  <2>6. CASE Keep(Seen) /\ UNCHANGED <<task, fills, outbox>>
    BY <1>0, <2>4, <2>6, SeenGood
  <2> QED
    BY <1>5, <2>3, <2>5, <2>6 DEF ApplyDeal
<1>6. ASSUME NEW v \in TaskState, v.todo \in SUBSET Orders, v.ret = "idle",
             NEW pc \in {"expire_next", "stops_next"}, Goto(c, Run(v, pc)),
             NEW m, MemGood(m), Save(m) \/ Keep(m),
             UNCHANGED <<acked, fills, outbox>>, Quiet
      PROVE  TypeInv'
  <2> DEFINE u == Run(v, pc)
  <2>1. pc \in Internal /\ pc \notin HaltPoints \union {"apply_deal", "demote_close"}
    BY DEF Internal, HaltPoints
  <2>2. u \in TaskState /\ TaskShape(c, u, m, Len(deals), acked)
    BY <1>0, <1>6, <2>1, RunShape
  <2> QED
    BY <1>0, <1>6, <2>2, WriteStep
<1>7. Save(mem) \/ UNCHANGED <<mem, journal>> => Save(mem) \/ Keep(mem)
  BY DEF Keep
<1>8. CASE DealsApplied
  <2> DEFINE v == [t EXCEPT !.n = 0, !.m = 0, !.todo = {o \in due : mem.ord[o].st \in Active}]
  <2>1. t.ret = "idle"
    BY <1>1, <1>8 DEF DealsApplied, At, ConfirmPoints
  <2>2. {o \in due : mem.ord[o].st \in Active} \in SUBSET Orders
    BY BrokerAssumption DEF TypeInv, TypeOK, BrokerTypeOK, BrokerAssumption
  <2>3. v \in TaskState /\ v.todo \in SUBSET Orders /\ v.ret = "idle"
    BY <1>0, <2>1, <2>2 DEF TaskState
  <2>4. Goto(c, Run(v, "expire_next")) /\ (Save(mem) \/ UNCHANGED <<mem, journal>>)
    BY <1>8 DEF DealsApplied
  <2> HIDE DEF v
  <2> QED
    BY <1>0, <1>6, <1>7, <1>8, <2>3, <2>4 DEF DealsApplied
<1>9. CASE ExpireNext
  <2> PICK o \in Expirable(t) : Goto(c, Await([t EXCEPT !.o = o, !.todo = @ \ {o}],
                                             "expire_cancel", "cancel", mem.ord[o].oid, 0))
    BY <1>9 DEF ExpireNext
  <2> DEFINE v == [t EXCEPT !.o = o, !.todo = @ \ {o}]
             u == Await(v, "expire_cancel", "cancel", mem.ord[o].oid, 0)
  <2>1. t.todo \in SUBSET Orders /\ t.ret = "idle" /\ o \in Orders
    BY <1>1, <1>9 DEF ExpireNext, At, ConfirmPoints, HaltPoints, Expirable
  <2>2. v \in TaskState /\ v.o = o /\ v.todo \in SUBSET Orders /\ v.ret = "idle"
    BY <1>0, <2>1 DEF TaskState
  <2>3. mem.ord[o].oid \in 0..2
    BY <1>0, <2>1 DEF TrackedOrder
  <2> HIDE DEF v
  <2>4. u \in TaskState /\ TaskShape(c, u, mem, Len(deals), acked)
    BY <1>0, <2>1, <2>2, <2>3, CycleShape
  <2>5. Goto(c, u)
    BY DEF v
  <2> QED
    BY <1>0, <1>9, <2>4, <2>5, MoveStep DEF ExpireNext
<1>10. ASSUME t.pc \in {"expire_cancel", "expire_check"}
       PROVE  t.ret = "idle" /\ t.todo \in SUBSET Orders /\ t.o \in Orders
  BY <1>1, <1>10 DEF ConfirmPoints, HaltPoints, OrderPoints, KeepPoints
<1>11. ASSUME NEW n \in Nat, t.pc \in {"expire_cancel", "expire_check"}
       PROVE  LET v == [t EXCEPT !.n = n, !.o = NoOrder]
              IN  v \in TaskState /\ v.todo \in SUBSET Orders /\ v.ret = "idle"
  BY <1>0, <1>10, <1>11 DEF TaskState
<1>12. CASE /\ t.pc \in {"expire_cancel", "expire_check"} /\ Expired(t)
            /\ UNCHANGED <<acked, fills, outbox>> /\ Quiet
  <2> DEFINE v == [t EXCEPT !.n = 1, !.o = NoOrder]
             m == Tracked(t.o, [mem.ord[t.o] EXCEPT !.st = "expired"])
  <2>1. v \in TaskState /\ v.todo \in SUBSET Orders /\ v.ret = "idle"
    BY <1>11, <1>12
  <2>2. MemGood(m)
    BY <1>10, <1>12, TrackedChanges DEF OrderStates
  <2>3. Goto(c, Run(v, "expire_next")) /\ Keep(m)
    BY <1>12 DEF Expired
  <2> HIDE DEF v, m
  <2> QED
    BY <1>6, <1>12, <2>1, <2>2, <2>3
<1>13. CASE ExpireCancelled
  <2>1. t.pc = "expire_cancel" /\ UNCHANGED <<acked, fills, outbox>> /\ Quiet
    BY <1>13 DEF ExpireCancelled, At
  <2>2. CASE Goto(c, Await(t, "expire_check", "pending_orders", 0, 0)) /\ UNCHANGED <<mem, journal>>
    <3> DEFINE u == Await(t, "expire_check", "pending_orders", 0, 0)
    <3>1. u \in TaskState /\ TaskShape(c, u, mem, Len(deals), acked)
      BY <1>0, <1>10, <2>1, CycleShape
    <3> QED
      BY <1>0, <2>1, <2>2, <3>1, MoveStep
  <2> QED
    BY <1>12, <1>13, <2>1, <2>2 DEF ExpireCancelled
<1>14. CASE ExpireChecked
  <2>1. t.pc = "expire_check" /\ UNCHANGED <<acked, fills, outbox>> /\ Quiet
    BY <1>14 DEF ExpireChecked, At
  <2>2. CASE Goto(c, Run([t EXCEPT !.o = NoOrder], "expire_next")) /\ UNCHANGED <<mem, journal>>
    <3> DEFINE v == [t EXCEPT !.o = NoOrder]
    <3>1. v \in TaskState /\ v.todo \in SUBSET Orders /\ v.ret = "idle"
      BY <1>0, <1>10, <2>1 DEF TaskState
    <3> HIDE DEF v
    <3> QED
      BY <1>0, <1>6, <1>7, <2>1, <2>2, <3>1 DEF v
  <2> QED
    BY <1>12, <1>14, <2>1, <2>2 DEF ExpireChecked
<1>15. CASE ExpireDone
  <2> DEFINE v == [t EXCEPT !.n = 0, !.todo = {o \in Orders : mem.ord[o].st \in Active}]
  <2>1. t.ret = "idle"
    BY <1>1, <1>15 DEF ExpireDone, At, ConfirmPoints
  <2>2. v \in TaskState /\ v.todo \in SUBSET Orders /\ v.ret = "idle"
    BY <1>0, <2>1 DEF TaskState
  <2>3. Goto(c, Run(v, "stops_next")) /\ (Save(mem) \/ UNCHANGED <<mem, journal>>)
    BY <1>15 DEF ExpireDone
  <2> HIDE DEF v
  <2> QED
    BY <1>0, <1>6, <1>7, <1>15, <2>2, <2>3 DEF ExpireDone
<1>16. CASE StopsNext
  <2>1. t.pc = "stops_next" /\ Quiet /\ UNCHANGED <<mem, journal, acked, fills, outbox>>
        /\ t.todo \in SUBSET Orders
    BY <1>1, <1>16 DEF StopsNext, At, HaltPoints
  <2>2. ASSUME NEW o \in Unconfirmed(t),
               Goto(c, ConfirmStop([t EXCEPT !.todo = @ \ {o}], o, "stops_next"))
        PROVE  TypeInv'
    <3> DEFINE v == [t EXCEPT !.todo = @ \ {o}]
               u == ConfirmStop(v, o, "stops_next")
    <3>1. o \in Orders
      BY <2>1, <2>2 DEF Unconfirmed
    <3>2. v \in TaskState /\ v.todo \in SUBSET Orders
      BY <1>0, <2>1 DEF TaskState
    <3> HIDE DEF v
    <3>3. u \in TaskState /\ TaskShape(c, u, mem, Len(deals), acked)
      BY <1>0, <3>1, <3>2, ConfirmStopType
    <3>4. Goto(c, u)
      BY <2>2 DEF v
    <3> QED
      BY <1>0, <2>1, <3>3, <3>4, MoveStep
  <2>3. CASE Done(c)
    BY <1>0, <2>1, <2>3, EndStep
  <2> QED
    BY <1>16, <2>2, <2>3 DEF StopsNext
<1> QED
  BY <1>2, <1>3, <1>4, <1>5, <1>8, <1>9, <1>13, <1>14, <1>15, <1>16 DEF CycleSteps

-----------------------------------------------------------------------------
(* Halts, requests and demotions: their awaits. *)
LEMMA ControlShape ==
    ASSUME NEW t \in TaskState, t.ret = "idle", NEW m, NEW n \in Nat, NEW a,
           NEW k \in 0..2, NEW sl \in 0..MaxSl
    PROVE  LET Good(u) == u \in TaskState /\ TaskShape("control", u, m, n, a) IN
           /\ t.todo \in SUBSET Tickets =>
                /\ Good(Await(t, "cancel_list", "pending_orders", k, sl))
                /\ Good(Await(t, "close_list", "open_positions", k, sl))
                /\ t.o \in Orders => Good(Await(t, "cancel_one", "cancel", k, sl))
                /\ t.o \in Orders /\ k \in Attempts => Good(Await(t, "close_one", "close", k, sl))
           /\ t.todo \in SUBSET Orders /\ t.o \in Orders =>
                /\ Good(Await(t, "cancel_request", "cancel", k, sl))
                /\ Good(Await(t, "demote_cancel_one", "cancel", k, sl))
                /\ k \in Attempts => Good(Await(t, "close_request", "close", k, sl))
                /\ sl \in 1..MaxSl => Good(Await(t, "tighten", "modify", k, sl))
                /\ k \in Attempts /\ (\A o \in t.todo : m.ord[o].pos # 0) =>
                     Good(Await(t, "demote_close_one", "close", k, sl))
<1> DEFINE Lists == {"cancel_list", "close_list"}
           Ones == {"cancel_one", "close_one"}
           Asks == {"cancel_request", "demote_cancel_one", "close_request", "tighten", "demote_close_one"}
<1>1. /\ Lists \union Ones \union Asks \subseteq Awaiting
      /\ Lists \union Ones \subseteq HaltPoints /\ Asks \cap HaltPoints = {}
      /\ Ones \union Asks \subseteq OrderPoints
      /\ Lists \cap (OrderPoints \union {"tighten", "demote_close_one"}) = {}
      /\ (Lists \union Ones \union Asks) \cap SendPoints = {}
      /\ "find_position" \in SendPoints
  BY DEF Awaiting, HaltPoints, OrderPoints, SendPoints, ConfirmPoints, KeepPoints
<1>2. {"pending_orders", "open_positions", "cancel", "close", "modify"} \subseteq Ops
  BY DEF Ops
<1>3. t.todo \in SUBSET Tickets =>
        /\ Await(t, "cancel_list", "pending_orders", k, sl) \in TaskState
        /\ TaskShape("control", Await(t, "cancel_list", "pending_orders", k, sl), m, n, a)
        /\ Await(t, "close_list", "open_positions", k, sl) \in TaskState
        /\ TaskShape("control", Await(t, "close_list", "open_positions", k, sl), m, n, a)
  BY <1>1, <1>2, AwaitShape
<1>4. t.todo \in SUBSET Tickets /\ t.o \in Orders =>
        /\ Await(t, "cancel_one", "cancel", k, sl) \in TaskState
        /\ TaskShape("control", Await(t, "cancel_one", "cancel", k, sl), m, n, a)
        /\ k \in Attempts =>
             /\ Await(t, "close_one", "close", k, sl) \in TaskState
             /\ TaskShape("control", Await(t, "close_one", "close", k, sl), m, n, a)
  BY <1>1, <1>2, AwaitShape
<1>5. t.todo \in SUBSET Orders /\ t.o \in Orders =>
        /\ Await(t, "cancel_request", "cancel", k, sl) \in TaskState
        /\ TaskShape("control", Await(t, "cancel_request", "cancel", k, sl), m, n, a)
        /\ Await(t, "demote_cancel_one", "cancel", k, sl) \in TaskState
        /\ TaskShape("control", Await(t, "demote_cancel_one", "cancel", k, sl), m, n, a)
  BY <1>1, <1>2, AwaitShape
<1>6. t.todo \in SUBSET Orders /\ t.o \in Orders /\ k \in Attempts =>
        /\ Await(t, "close_request", "close", k, sl) \in TaskState
        /\ TaskShape("control", Await(t, "close_request", "close", k, sl), m, n, a)
        /\ (\A o \in t.todo : m.ord[o].pos # 0) =>
             /\ Await(t, "demote_close_one", "close", k, sl) \in TaskState
             /\ TaskShape("control", Await(t, "demote_close_one", "close", k, sl), m, n, a)
  BY <1>1, <1>2, AwaitShape
<1>7. t.todo \in SUBSET Orders /\ t.o \in Orders /\ sl \in 1..MaxSl =>
        /\ Await(t, "tighten", "modify", k, sl) \in TaskState
        /\ TaskShape("control", Await(t, "tighten", "modify", k, sl), m, n, a)
  BY <1>1, <1>2, AwaitShape
<1> QED
  BY <1>3, <1>4, <1>5, <1>6, <1>7

(* A control operation begins. *)
LEMMA StartStep ==
    ASSUME TypeInv, NEW op, StartControl(op), NEW u \in TaskState, Goto("control", u),
           TaskShape("control", u, mem, Len(deals), acked)
    PROVE  TypeInv'
<1>1. /\ BrokerTypeOK' /\ deals' = deals /\ acked' = acked
      /\ mem' = mem /\ journal' = journal /\ UNCHANGED <<trades, serial>>
      /\ fills' \in [Orders -> 0..2] /\ outbox' \in SUBSET Orders /\ crashes' \in 0..MaxCrashes
  BY DEF TypeInv, TypeOK, StartControl, brokerVars, BrokerTypeOK
<1>2. controls' \in 0..MaxControls
  BY OrderManagerAssumption DEF TypeInv, TypeOK, StartControl, OrderManagerAssumption
<1>3. /\ "control" \in Tasks /\ MemGood(mem) /\ Len(deals) \in Nat /\ Len(deals) <= Len(deals')
      /\ acked' \in 0..Len(Decisions)
  BY <1>1, MemStays DEF Tasks, TypeInv, TypeOK, BrokerTypeOK
<1>4. TaskShape("control", u, mem, Len(deals'), acked')
  BY <1>1
<1> QED
  BY <1>1, <1>2, <1>3, <1>4, TaskStep

(* What the readers of HALTS, CONTROL and REQUESTS leave. *)
LEMMA TypeControl == ASSUME TypeInv, ControlSteps PROVE TypeInv'
<1> DEFINE c == "control"
           t == task[c]
<1>0. /\ c \in Tasks /\ t \in TaskState
      /\ TaskShape(c, t, mem, Len(deals), acked)
      /\ MemGood(mem) /\ Len(deals) \in Nat
      /\ 0 \in 0..MaxSl /\ 0 \in 0..2 /\ NoOrder \in Orders \union {NoOrder}
      /\ \A o \in Orders : mem.ord[o] \in TrackedOrder
  BY Holds, BrokerAssumption DEF Tasks, BrokerAssumption
<1>1. /\ (t.pc \notin ConfirmPoints => t.ret = "idle")
      /\ (t.pc \in HaltPoints => t.todo \in SUBSET Tickets)
      /\ (t.pc \notin HaltPoints => t.todo \in SUBSET Orders)
      /\ (t.pc \in OrderPoints => t.o \in Orders)
      /\ (t.pc \in {"demote_close", "demote_close_one"} => \A o \in t.todo : mem.ord[o].pos # 0)
  BY <1>0 DEF TaskShape
<1>2. ASSUME NEW o \in Orders
      PROVE  /\ [Idle EXCEPT !.o = o] \in TaskState
             /\ [Idle EXCEPT !.o = o].o = o
             /\ [Idle EXCEPT !.o = o].todo = {} /\ [Idle EXCEPT !.o = o].ret = "idle"
             /\ mem.ord[o].oid \in 0..2 /\ mem.ord[o].pos \in 0..2
             /\ mem.ord[o].pos # 0 => mem.ord[o].pos \in Attempts
  <2>1. [Idle EXCEPT !.o = o] \in TaskState /\ [Idle EXCEPT !.o = o].o = o
    BY IdleType DEF TaskState
  <2>2. [Idle EXCEPT !.o = o].todo = {} /\ [Idle EXCEPT !.o = o].ret = "idle"
    BY IdleType DEF TaskState
  <2>3. mem.ord[o].oid \in 0..2 /\ mem.ord[o].pos \in 0..2
    BY <1>0 DEF TrackedOrder
  <2>4. mem.ord[o].pos # 0 => mem.ord[o].pos \in Attempts
    BY <2>3 DEF Attempts
  <2> QED
    BY <2>1, <2>2, <2>3, <2>4
<1>3. ASSUME NEW op, Halt(op) PROVE TypeInv'
  <2> DEFINE i == [Idle EXCEPT !.n = IF op = "halt" THEN 0 ELSE 1]
             u == Await(i, "cancel_list", "pending_orders", 0, 0)
  <2>1. i \in TaskState /\ i.todo = {} /\ i.ret = "idle"
    BY IdleType DEF TaskState
  <2>2. StartControl(op) /\ Goto(c, u)
    BY <1>3 DEF Halt
  <2> HIDE DEF i
  <2>3. u \in TaskState /\ TaskShape(c, u, mem, Len(deals), acked)
    BY <1>0, <2>1, ControlShape
  <2> QED
    BY <2>2, <2>3, StartStep
<1>4. ASSUME NEW o \in Orders, RequestCancel(o) PROVE TypeInv'
  <2> DEFINE i == [Idle EXCEPT !.o = o]
             u == Await(i, "cancel_request", "cancel", mem.ord[o].oid, 0)
  <2>1. StartControl("cancel") /\ Goto(c, u)
    BY <1>4 DEF RequestCancel
  <2>2. i \in TaskState /\ i.o = o /\ i.todo = {} /\ i.ret = "idle" /\ mem.ord[o].oid \in 0..2
    BY <1>2
  <2> HIDE DEF i
  <2>3. u \in TaskState /\ TaskShape(c, u, mem, Len(deals), acked)
    BY <1>0, <2>2, ControlShape
  <2> QED
    BY <2>1, <2>3, StartStep
<1>5. ASSUME NEW o \in Orders, RequestClose(o) PROVE TypeInv'
  <2> DEFINE i == [Idle EXCEPT !.o = o]
             u == Await(i, "close_request", "close", mem.ord[o].pos, 0)
  <2>1. StartControl("close") /\ Goto(c, u) /\ mem.ord[o].pos # 0
    BY <1>5 DEF RequestClose
  <2>2. /\ i \in TaskState /\ i.o = o /\ i.todo = {} /\ i.ret = "idle"
        /\ mem.ord[o].pos \in 0..2 /\ mem.ord[o].pos \in Attempts
    BY <1>2, <2>1
  <2> HIDE DEF i
  <2>3. u \in TaskState /\ TaskShape(c, u, mem, Len(deals), acked)
    BY <1>0, <2>2, ControlShape
  <2> QED
    BY <2>1, <2>3, StartStep
<1>6. ASSUME NEW o \in Orders, NEW sl \in 1..MaxSl, RequestTighten(o, sl) PROVE TypeInv'
  <2> DEFINE i == [Idle EXCEPT !.o = o]
             u == Await(i, "tighten", "modify", mem.ord[o].pos, sl)
  <2>1. StartControl("tighten") /\ Goto(c, u)
    BY <1>6 DEF RequestTighten
  <2>2. i \in TaskState /\ i.o = o /\ i.todo = {} /\ i.ret = "idle" /\ mem.ord[o].pos \in 0..2
    BY <1>2
  <2>3. sl \in 0..MaxSl
    BY <1>6
  <2> HIDE DEF i
  <2>4. u \in TaskState /\ TaskShape(c, u, mem, Len(deals), acked)
    BY <1>0, <2>2, <2>3, ControlShape
  <2> QED
    BY <2>1, <2>4, StartStep
<1>7. CASE Demote
  <2> DEFINE i == [Idle EXCEPT !.todo = {o \in Orders : mem.ord[o].st = "pending"}]
             u == Run(i, "demote_cancel")
  <2>1. i \in TaskState /\ i.todo \in SUBSET Orders /\ i.ret = "idle"
    BY IdleType DEF TaskState
  <2>2. StartControl("demote") /\ Goto(c, u)
    BY <1>7 DEF Demote
  <2>3. "demote_cancel" \in Internal /\ "demote_cancel" \notin HaltPoints
    BY DEF Internal, HaltPoints
  <2> HIDE DEF i
  <2>4. u \in TaskState /\ TaskShape(c, u, mem, Len(deals), acked)
    BY <1>0, <2>1, <2>3, RunShape
  <2> QED
    BY <2>2, <2>4, StartStep
<1>8. CASE ControlLost
  BY <1>0, <1>8, EndStep DEF ControlLost
<1>9. Save(mem) \/ UNCHANGED <<mem, journal>> => mem' = mem /\ journal' \in {mem, journal}
  BY DEF Save
<1>10. CASE GotList
  <2> DEFINE v == [t EXCEPT !.todo = Listed(t)]
  <2>1. t.ans.saw \in SUBSET (Tickets \X (0..MaxSl))
    BY <1>0 DEF TaskState
  <2>2. Listed(t) \in SUBSET Tickets
    BY <2>1 DEF Listed
  <2>3. t.ret = "idle"
    BY <1>1, <1>10 DEF GotList, At, ConfirmPoints
  <2>4. v \in TaskState /\ v.todo \in SUBSET Tickets /\ v.ret = "idle"
    BY <1>0, <2>2, <2>3 DEF TaskState
  <2>5. PICK pc \in {"cancel_next", "close_next"} : Goto(c, Run(v, pc))
    BY <1>10 DEF GotList
  <2> HIDE DEF v
  <2>6. Run(v, pc) \in TaskState /\ TaskShape(c, Run(v, pc), mem, Len(deals), acked)
    BY <1>0, <2>4, RunShape DEF Internal, HaltPoints
  <2> QED
    BY <1>0, <1>10, <2>5, <2>6, MoveStep DEF GotList
<1>11. ASSUME NEW i \in t.todo, t.pc \in {"cancel_next", "close_next"}
       PROVE  LET v == [t EXCEPT !.todo = @ \ {i}, !.o = i[1]]
              IN  /\ v \in TaskState /\ v.todo \in SUBSET Tickets /\ v.ret = "idle"
                  /\ v.o \in Orders /\ i[2] \in Attempts /\ i[2] \in 0..2
  <2>1. t.todo \in SUBSET Tickets /\ t.ret = "idle" /\ i \in Tickets
    BY <1>1, <1>11 DEF HaltPoints, ConfirmPoints
  <2>2. i[1] \in Orders /\ i[2] \in Attempts
    BY <2>1 DEF Tickets
  <2>3. [t EXCEPT !.todo = @ \ {i}, !.o = i[1]] \in TaskState
    BY <1>0, <2>1, <2>2 DEF TaskState
  <2> QED
    BY <1>0, <2>1, <2>2, <2>3 DEF Attempts, TaskState
<1>12. CASE CancelNext
  <2>1. t.pc = "cancel_next" /\ Quiet /\ UNCHANGED <<acked, fills, outbox>>
    BY <1>12 DEF CancelNext, At
  <2>2. ASSUME NEW i \in t.todo, UNCHANGED <<mem, journal>>,
               Goto(c, Await([t EXCEPT !.todo = @ \ {i}, !.o = i[1]], "cancel_one", "cancel", i[2], 0))
        PROVE  TypeInv'
    <3> DEFINE v == [t EXCEPT !.todo = @ \ {i}, !.o = i[1]]
               u == Await(v, "cancel_one", "cancel", i[2], 0)
    <3>1. /\ v \in TaskState /\ v.todo \in SUBSET Tickets /\ v.ret = "idle"
          /\ v.o \in Orders /\ i[2] \in 0..2
      BY <1>11, <2>1
    <3>2. Goto(c, u)
      BY <2>2
    <3> HIDE DEF v
    <3>3. u \in TaskState /\ TaskShape(c, u, mem, Len(deals), acked)
      BY <1>0, <3>1, ControlShape
    <3> QED
      BY <1>0, <2>1, <2>2, <3>2, <3>3, MoveStep
  <2>3. CASE Save(mem) /\ Done(c)
    BY <1>0, <1>9, <2>1, <2>3, EndStep
  <2>4. CASE Save(mem) /\ Goto(c, Await(t, "close_list", "open_positions", 0, 0))
    <3>1. t.todo \in SUBSET Tickets /\ t.ret = "idle"
      BY <1>1, <2>1 DEF HaltPoints, ConfirmPoints
    <3> DEFINE u == Await(t, "close_list", "open_positions", 0, 0)
    <3>2. u \in TaskState /\ TaskShape(c, u, mem, Len(deals), acked)
      BY <1>0, <3>1, ControlShape
    <3> QED
      BY <1>0, <2>1, <2>4, <3>2, WriteStep
  <2> QED
    BY <1>12, <2>2, <2>3, <2>4 DEF CancelNext
<1>13. ASSUME NEW pc \in Internal, t.pc \notin ConfirmPoints, t.o \in Orders,
              IF pc \in HaltPoints THEN t.todo \in SUBSET Tickets ELSE t.todo \in SUBSET Orders,
              pc # "apply_deal", pc = "demote_close" => \A o \in t.todo : mem.ord[o].pos # 0,
              NEW n \in Nat, Goto(c, Run([t EXCEPT !.o = NoOrder, !.n = n], pc)),
              NEW m, MemGood(m), Save(m) \/ Keep(m), Quiet, UNCHANGED <<acked, fills, outbox>>
       PROVE  TypeInv'
  <2> DEFINE v == [t EXCEPT !.o = NoOrder, !.n = n]
             u == Run(v, pc)
  <2>1. v \in TaskState /\ v.todo = t.todo /\ v.ret = "idle"
    BY <1>0, <1>1, <1>13 DEF TaskState
  <2>2. Goto(c, u)
    BY <1>13
  <2>3. \A o \in Orders : mem.ord[o].pos # 0 => m.ord[o].pos # 0
    BY <1>13 DEF MemGood
  <2>4. pc = "demote_close" => \A o \in v.todo : m.ord[o].pos # 0
    BY <1>13, <2>1, <2>3 DEF HaltPoints
  <2> HIDE DEF v
  <2>5. u \in TaskState /\ TaskShape(c, u, m, Len(deals), acked)
    BY <1>0, <1>13, <2>1, <2>4, RunShape
  <2> QED
    BY <1>0, <1>13, <2>2, <2>5, WriteStep
<1>14. /\ [t EXCEPT !.o = NoOrder] = [t EXCEPT !.o = NoOrder, !.n = t.n]
       /\ t.n \in Nat
       /\ Save(mem) \/ UNCHANGED <<mem, journal>> => Save(mem) \/ Keep(mem)
  BY <1>0 DEF TaskState, Keep
<1>15. CASE CancelledOne
  <2>1. /\ t.pc = "cancel_one" /\ Quiet /\ UNCHANGED <<acked, fills, outbox>>
        /\ Goto(c, Run([t EXCEPT !.o = NoOrder, !.n = t.n], "cancel_next"))
    BY <1>14, <1>15 DEF CancelledOne, At
  <2>2. t.o \in Orders /\ t.todo \in SUBSET Tickets /\ t.pc \notin ConfirmPoints
    BY <1>1, <2>1 DEF HaltPoints, OrderPoints, ConfirmPoints
  <2>3. "cancel_next" \in Internal /\ "cancel_next" \in HaltPoints
    BY DEF Internal, HaltPoints
  <2>4. ASSUME NEW m, MemGood(m), Save(m) \/ Keep(m) PROVE TypeInv'
    BY <1>13, <1>14, <2>1, <2>2, <2>3, <2>4
  <2>5. MemGood(Tracked(t.o, [mem.ord[t.o] EXCEPT !.st = "cancelled"]))
    BY <2>2, TrackedChanges DEF OrderStates
  <2> QED
    BY <1>0, <1>14, <1>15, <2>4, <2>5 DEF CancelledOne
<1>16. CASE CloseNext
  <2>1. t.pc = "close_next" /\ Quiet /\ UNCHANGED <<acked, fills, outbox>>
    BY <1>16 DEF CloseNext, At
  <2>2. ASSUME NEW i \in t.todo, UNCHANGED <<mem, journal>>,
               Goto(c, Await([t EXCEPT !.todo = @ \ {i}, !.o = i[1]], "close_one", "close", i[2], 0))
        PROVE  TypeInv'
    <3> DEFINE v == [t EXCEPT !.todo = @ \ {i}, !.o = i[1]]
               u == Await(v, "close_one", "close", i[2], 0)
    <3>1. /\ v \in TaskState /\ v.todo \in SUBSET Tickets /\ v.ret = "idle"
          /\ v.o \in Orders /\ i[2] \in 0..2 /\ i[2] \in Attempts
      BY <1>11, <2>1
    <3>2. Goto(c, u)
      BY <2>2
    <3> HIDE DEF v
    <3>3. u \in TaskState /\ TaskShape(c, u, mem, Len(deals), acked)
      BY <1>0, <3>1, ControlShape
    <3> QED
      BY <1>0, <2>1, <2>2, <3>2, <3>3, MoveStep
  <2>3. CASE Save(mem) /\ Done(c)
    BY <1>0, <1>9, <2>1, <2>3, EndStep
  <2> QED
    BY <1>16, <2>2, <2>3 DEF CloseNext
<1>17. CASE ClosedOne
  <2>1. /\ t.pc = "close_one" /\ Quiet /\ UNCHANGED <<mem, journal, acked, fills, outbox>>
        /\ Goto(c, Run([t EXCEPT !.o = NoOrder, !.n = t.n], "close_next"))
    BY <1>14, <1>17 DEF ClosedOne, At
  <2>2. t.o \in Orders /\ t.todo \in SUBSET Tickets /\ t.pc \notin ConfirmPoints
    BY <1>1, <2>1 DEF HaltPoints, OrderPoints, ConfirmPoints
  <2>3. "close_next" \in Internal /\ "close_next" \in HaltPoints
    BY DEF Internal, HaltPoints
  <2> QED
    BY <1>0, <1>13, <1>14, <2>1, <2>2, <2>3
<1>18. CASE RequestDone
  <2>1. /\ t.pc \in {"cancel_request", "close_request", "tighten"}
        /\ Quiet /\ UNCHANGED <<acked, fills, outbox>> /\ Done(c)
    BY <1>18 DEF RequestDone
  <2>2. t.o \in Orders /\ (t.pc = "tighten" => t.sl \in 1..MaxSl)
    BY <1>0, <1>1, <2>1 DEF OrderPoints, KeepPoints, TaskShape
  <2>3. ASSUME NEW m, MemGood(m), mem' = m, journal' \in {m, journal} PROVE TypeInv'
    BY <1>0, <2>1, <2>3, EndStep
  <2>4. ASSUME NEW m, MemGood(m), Save(m) PROVE TypeInv'
    BY <2>3, <2>4 DEF Save
  <2>5. /\ MemGood(Tracked(t.o, [mem.ord[t.o] EXCEPT !.st = "cancelled"]))
        /\ t.pc = "tighten" => MemGood(Tracked(t.o, [mem.ord[t.o] EXCEPT !.sl = t.sl]))
    BY <2>2, TrackedChanges DEF OrderStates
  <2> QED
    BY <1>0, <1>9, <1>18, <2>3, <2>4, <2>5 DEF RequestDone
<1>19. ASSUME NEW o \in t.todo, t.pc \in {"demote_cancel", "demote_close"}
       PROVE  LET v == [t EXCEPT !.todo = @ \ {o}, !.o = o]
              IN  /\ v \in TaskState /\ v.todo \in SUBSET Orders /\ v.ret = "idle" /\ v.o \in Orders
                  /\ o \in Orders /\ v.todo \subseteq t.todo
  <2>1. t.todo \in SUBSET Orders /\ t.ret = "idle" /\ o \in Orders
    BY <1>1, <1>19 DEF HaltPoints, ConfirmPoints
  <2> QED
    BY <1>0, <2>1 DEF TaskState
<1>20. CASE DemoteNext
  <2>1. t.pc \in {"demote_cancel", "demote_close"} /\ Quiet /\ UNCHANGED <<acked, fills, outbox>>
    BY <1>20 DEF DemoteNext, At
  <2>2. t.todo \in SUBSET Orders /\ t.ret = "idle"
    BY <1>1, <2>1 DEF HaltPoints, ConfirmPoints
  <2>3. ASSUME NEW o \in t.todo, UNCHANGED <<mem, journal>>,
               Goto(c, Await([t EXCEPT !.todo = @ \ {o}, !.o = o], "demote_cancel_one", "cancel",
                             mem.ord[o].oid, 0))
        PROVE  TypeInv'
    <3> DEFINE v == [t EXCEPT !.todo = @ \ {o}, !.o = o]
               u == Await(v, "demote_cancel_one", "cancel", mem.ord[o].oid, 0)
    <3>1. v \in TaskState /\ v.todo \in SUBSET Orders /\ v.ret = "idle" /\ v.o \in Orders /\ o \in Orders
      BY <1>19, <2>1
    <3>2. mem.ord[o].oid \in 0..2
      BY <1>2, <3>1
    <3>3. Goto(c, u)
      BY <2>3
    <3> HIDE DEF v
    <3>4. u \in TaskState /\ TaskShape(c, u, mem, Len(deals), acked)
      BY <1>0, <3>1, <3>2, ControlShape
    <3> QED
      BY <1>0, <2>1, <2>3, <3>3, <3>4, MoveStep
  <2>4. CASE (Save(mem) \/ UNCHANGED <<mem, journal>>) /\ Done(c)
    BY <1>0, <1>9, <2>1, <2>4, EndStep
  <2>5. CASE /\ Save(mem)
             /\ Goto(c, Run([t EXCEPT !.todo = {o \in Orders : mem.ord[o].st = "open"}], "demote_close"))
    <3> DEFINE v == [t EXCEPT !.todo = {o \in Orders : mem.ord[o].st = "open"}]
               u == Run(v, "demote_close")
    <3>1. /\ v \in TaskState /\ v.todo \in SUBSET Orders /\ v.ret = "idle"
          /\ \A o \in v.todo : mem.ord[o].pos # 0
      BY <1>0, <2>2 DEF TaskState, MemGood, OpenHasPosition
    <3>2. "demote_close" \in Internal /\ "demote_close" \notin HaltPoints
      BY DEF Internal, HaltPoints
    <3>3. Goto(c, u)
      BY <2>5
    <3> HIDE DEF v
    <3>4. u \in TaskState /\ TaskShape(c, u, mem, Len(deals), acked)
      BY <1>0, <3>1, <3>2, RunShape
    <3> QED
      BY <1>0, <2>1, <2>5, <3>3, <3>4, WriteStep
  <2>6. ASSUME NEW o \in t.todo, UNCHANGED <<mem, journal>>, t.pc = "demote_close",
               Goto(c, Await([t EXCEPT !.todo = @ \ {o}, !.o = o], "demote_close_one", "close",
                             mem.ord[o].pos, 0))
        PROVE  TypeInv'
    <3> DEFINE v == [t EXCEPT !.todo = @ \ {o}, !.o = o]
               u == Await(v, "demote_close_one", "close", mem.ord[o].pos, 0)
    <3>1. /\ v \in TaskState /\ v.todo \in SUBSET Orders /\ v.ret = "idle" /\ v.o \in Orders
          /\ o \in Orders /\ v.todo \subseteq t.todo
      BY <1>19, <2>1
    <3>2. mem.ord[o].pos # 0 /\ \A p \in v.todo : mem.ord[p].pos # 0
      BY <1>1, <2>6, <3>1
    <3>3. mem.ord[o].pos \in 0..2 /\ mem.ord[o].pos \in Attempts
      BY <1>2, <3>1, <3>2
    <3>4. Goto(c, u)
      BY <2>6
    <3> HIDE DEF v
    <3>5. u \in TaskState /\ TaskShape(c, u, mem, Len(deals), acked)
      BY <1>0, <3>1, <3>2, <3>3, ControlShape
    <3> QED
      BY <1>0, <2>1, <2>6, <3>4, <3>5, MoveStep
  <2> QED
    BY <1>20, <2>3, <2>4, <2>5, <2>6 DEF DemoteNext, At
<1>21. CASE DemotedOne
  <2>1. t.pc \in {"demote_cancel_one", "demote_close_one"} /\ Quiet /\ UNCHANGED <<acked, fills, outbox>>
    BY <1>21 DEF DemotedOne, At
  <2>2. t.o \in Orders /\ t.todo \in SUBSET Orders /\ t.pc \notin ConfirmPoints
    BY <1>1, <2>1 DEF HaltPoints, OrderPoints, ConfirmPoints, KeepPoints
  <2>3. "demote_cancel" \in Internal /\ "demote_cancel" \notin HaltPoints
        /\ "demote_close" \in Internal /\ "demote_close" \notin HaltPoints
    BY DEF Internal, HaltPoints
  <2>4. ASSUME NEW m, MemGood(m), Save(m) \/ Keep(m), NEW n \in Nat,
               Goto(c, Run([t EXCEPT !.o = NoOrder, !.n = n], "demote_cancel"))
        PROVE  TypeInv'
    BY <1>13, <2>1, <2>2, <2>3, <2>4
  <2>5. ASSUME t.pc = "demote_close_one", Save(mem) \/ UNCHANGED <<mem, journal>>,
               Goto(c, Run([t EXCEPT !.o = NoOrder, !.n = t.n], "demote_close"))
        PROVE  TypeInv'
    BY <1>0, <1>1, <1>13, <1>14, <2>1, <2>2, <2>3, <2>5
  <2>6. MemGood(Tracked(t.o, [mem.ord[t.o] EXCEPT !.st = "cancelled"]))
    BY <2>2, TrackedChanges DEF OrderStates
  <2> QED
    BY <1>0, <1>14, <1>21, <2>4, <2>5, <2>6 DEF DemotedOne, At
<1> QED
  BY <1>3, <1>4, <1>5, <1>6, <1>7, <1>8, <1>10, <1>12, <1>15, <1>16, <1>17, <1>18, <1>20, <1>21
  DEF ControlSteps

-----------------------------------------------------------------------------
(* The broker: what a fill and a close leave. *)
LEMMA DealTypes ==
    ASSUME BrokerTypeOK, NEW i \in Tickets, NEW sl \in 0..MaxSl,
           Fill(i, sl) \/ (CloseAt(i) /\ UNCHANGED refused)
    PROVE  /\ ticket' \in [Tickets -> [st : TicketStates, sl : 0..MaxSl]]
           /\ deals' \in Seq([tk : Tickets, entry : {"in", "out"}])
           /\ Len(deals) <= Len(deals')
           /\ refused' \in 0..MaxRefused
<1>0. /\ deals \in Seq([tk : Tickets, entry : {"in", "out"}])
      /\ ticket \in [Tickets -> [st : TicketStates, sl : 0..MaxSl]]
      /\ refused \in 0..MaxRefused /\ 0 \in 0..MaxSl
      /\ "position" \in TicketStates /\ "closed" \in TicketStates
  BY BrokerAssumption DEF BrokerTypeOK, BrokerAssumption, TicketStates
<1>1. ASSUME NEW e \in {"in", "out"}, deals' = Append(deals, [tk |-> i, entry |-> e])
      PROVE  deals' \in Seq([tk : Tickets, entry : {"in", "out"}]) /\ Len(deals) <= Len(deals')
  <2>1. [tk |-> i, entry |-> e] \in [tk : Tickets, entry : {"in", "out"}]
    OBVIOUS
  <2>2. deals' \in Seq([tk : Tickets, entry : {"in", "out"}]) /\ Len(deals') = Len(deals) + 1
    BY <1>0, <1>1, <2>1
  <2> QED
    BY <1>0, <2>2
<1>2. ASSUME NEW s \in TicketStates, NEW x \in 0..MaxSl, ticket' = [ticket EXCEPT ![i] = [st |-> s, sl |-> x]]
      PROVE  ticket' \in [Tickets -> [st : TicketStates, sl : 0..MaxSl]]
  BY <1>0, <1>2
<1>3. Refuse \/ UNCHANGED refused => refused' \in 0..MaxRefused
  BY <1>0, BrokerAssumption DEF Refuse, BrokerAssumption
<1> QED
  BY <1>0, <1>1, <1>2, <1>3 DEF Fill, OpenAs, CloseAt

(* What a call leaves, and what it answers. *)
LEMMA ApplyTypes ==
    ASSUME BrokerTypeOK, NEW op, NEW i, op \in {"place", "close"} => i \in Tickets,
           NEW sl \in 0..MaxSl, NEW a, Apply(op, i, sl, a)
    PROVE  /\ ticket' \in [Tickets -> [st : TicketStates, sl : 0..MaxSl]]
           /\ deals' \in Seq([tk : Tickets, entry : {"in", "out"}])
           /\ Len(deals) <= Len(deals')
           /\ refused' \in 0..MaxRefused
<1>0. /\ deals \in Seq([tk : Tickets, entry : {"in", "out"}]) /\ Len(deals) \in Nat
      /\ ticket \in [Tickets -> [st : TicketStates, sl : 0..MaxSl]]
      /\ refused \in 0..MaxRefused /\ 0 \in 0..MaxSl
      /\ "order" \in TicketStates /\ "gone" \in TicketStates
  BY BrokerAssumption DEF BrokerTypeOK, BrokerAssumption, TicketStates
<1>1. ASSUME ticket' \in [Tickets -> [st : TicketStates, sl : 0..MaxSl]], UNCHANGED deals,
             Refuse \/ UNCHANGED refused
      PROVE  /\ ticket' \in [Tickets -> [st : TicketStates, sl : 0..MaxSl]]
             /\ deals' \in Seq([tk : Tickets, entry : {"in", "out"}])
             /\ Len(deals) <= Len(deals')
             /\ refused' \in 0..MaxRefused
  <2>1. refused' \in 0..MaxRefused
    BY <1>0, <1>1, BrokerAssumption DEF Refuse, BrokerAssumption
  <2> QED
    BY <1>0, <1>1, <2>1
<1>2. UNCHANGED ticket => ticket' \in [Tickets -> [st : TicketStates, sl : 0..MaxSl]]
  BY <1>0
<1>3. ASSUME NEW s \in TicketStates, NEW x \in 0..MaxSl, ticket' = [ticket EXCEPT ![i] = [st |-> s, sl |-> x]]
      PROVE  ticket' \in [Tickets -> [st : TicketStates, sl : 0..MaxSl]]
  BY <1>0, <1>3
<1>4. CASE op = "place" /\ Place(i, sl, a)
  <2>1. i \in Tickets
    BY <1>4
  <2> QED
    BY <1>0, <1>1, <1>2, <1>3, <1>4, <2>1, DealTypes DEF Place
<1>5. CASE op = "modify" /\ Modify(i, sl, a)
  <2>1. [ticket EXCEPT ![i].sl = sl] \in [Tickets -> [st : TicketStates, sl : 0..MaxSl]]
    BY <1>0
  <2> QED
    BY <1>1, <1>2, <1>5, <2>1 DEF Modify
<1>6. CASE op = "cancel" /\ Cancel(i, a)
  BY <1>0, <1>1, <1>2, <1>3, <1>6 DEF Cancel
<1>7. CASE op = "close" /\ ClosePosition(i, a)
  <2>1. i \in Tickets
    BY <1>7
  <2> QED
    BY <1>0, <1>1, <1>2, <1>7, <2>1, DealTypes DEF ClosePosition
<1>8. CASE UNCHANGED <<ticket, deals, refused>>
  BY <1>1, <1>2, <1>8
<1> QED
  BY <1>4, <1>5, <1>6, <1>7, <1>8 DEF Apply

(* An answer is one a task can hold, and knows no deal that is not booked. *)
LEMMA AnswerTypes ==
    ASSUME BrokerTypeOK, NEW op, NEW a, a \in Answers(op) \/ a = Lost
    PROVE  /\ a \in [st : {"ok", "nack", "lost", "none"}, saw : SUBSET (Tickets \X (0..MaxSl)), n : Nat]
           /\ a.n <= Len(deals)
<1>0. Len(deals) \in Nat
  BY DEF BrokerTypeOK
<1>1. ASSUME NEW s PROVE Held(s) \in SUBSET (Tickets \X (0..MaxSl))
  BY DEF Held, BrokerTypeOK
<1>2. CASE a \in {Ack, Nack, Lost}
  BY <1>0, <1>2, AnswerType
<1>3. CASE \E s : a = Answer("ok", Held(s), 0)
  BY <1>0, <1>1, <1>3 DEF Answer
<1>4. CASE a = Answer("ok", {}, Len(deals))
  BY <1>0, <1>4 DEF Answer
<1>5. a \in {Ack, Nack, Lost} \/ (\E s : a = Answer("ok", Held(s), 0)) \/ a = Answer("ok", {}, Len(deals))
  BY DEF Answers
<1> QED
  BY <1>2, <1>3, <1>4, <1>5

(* The broker serves a task... *)
LEMMA TypeServe == ASSUME TypeInv, NEW c \in Tasks, Serve(c) PROVE TypeInv'
<1> DEFINE t == task[c]
<1>0. /\ t \in TaskState /\ TaskShape(c, t, mem, Len(deals), acked)
      /\ MemGood(mem) /\ Len(deals) \in Nat
      /\ t.sl \in 0..MaxSl /\ t.o \in Orders \union {NoOrder}
      /\ t.op # "none" /\ t.ans = NoAnswer
      /\ BrokerTypeOK
      /\ UNCHANGED <<due, mem, journal, acked, fills, outbox, trades, serial, controls, crashes>>
  BY Holds DEF TaskState, Serve, TypeInv, TypeOK
<1>1. t.op \in {"place", "close"} => <<t.o, t.k>> \in Tickets
  <2>1. t.op = "place" => t.pc = "place" /\ t.k = t.n /\ t.o \in Orders /\ t.n \in Attempts
    BY <1>0 DEF TaskShape, SendPoints, OrderPoints
  <2>2. t.op = "close" => t.o \in Orders /\ t.k \in Attempts
    BY <1>0 DEF TaskShape
  <2> QED
    BY <2>1, <2>2 DEF Tickets
<1>2. PICK a : /\ Goto(c, [t EXCEPT !.ans = a])
               /\ a \in Answers(t.op) \/ a = Lost
               /\ \/ UNCHANGED <<ticket, deals, refused>>
                  \/ \E b : Apply(t.op, <<t.o, t.k>>, t.sl, b)
               /\ lost' \in 0..MaxLost
  <2>1. UNCHANGED lost \/ (lost < MaxLost /\ lost' = lost + 1) => lost' \in 0..MaxLost
    BY <1>0, BrokerAssumption DEF BrokerTypeOK, BrokerAssumption
  <2> QED
    BY <2>1 DEF Serve
<1>3. /\ ticket' \in [Tickets -> [st : TicketStates, sl : 0..MaxSl]]
      /\ deals' \in Seq([tk : Tickets, entry : {"in", "out"}])
      /\ Len(deals) <= Len(deals')
      /\ refused' \in 0..MaxRefused
  <2>1. CASE UNCHANGED <<ticket, deals, refused>>
    BY <1>0, <2>1 DEF BrokerTypeOK
  <2>2. CASE \E b : Apply(t.op, <<t.o, t.k>>, t.sl, b)
    <3> DEFINE op == t.op
               i == <<t.o, t.k>>
               sl == t.sl
    <3>1. PICK b : Apply(op, i, sl, b)
      BY <2>2
    <3>2. sl \in 0..MaxSl /\ (op \in {"place", "close"} => i \in Tickets)
      BY <1>0, <1>1
    <3> HIDE DEF op, i, sl
    <3> QED
      BY <1>0, <3>1, <3>2, ApplyTypes
  <2> QED
    BY <1>2, <2>1, <2>2
<1>4. BrokerTypeOK' /\ Len(deals') \in Nat
  BY <1>0, <1>2, <1>3 DEF BrokerTypeOK
<1> DEFINE u == [t EXCEPT !.ans = a]
<1>5. /\ a \in [st : {"ok", "nack", "lost", "none"}, saw : SUBSET (Tickets \X (0..MaxSl)), n : Nat]
      /\ a.n <= Len(deals)
  BY <1>0, <1>2, AnswerTypes
<1>6. /\ u \in TaskState /\ u.ans = a
      /\ u.pc = t.pc /\ u.o = t.o /\ u.n = t.n /\ u.todo = t.todo /\ u.ret = t.ret
      /\ u.op = t.op /\ u.k = t.k /\ u.sl = t.sl
  BY <1>0, <1>5 DEF TaskState
<1>7. Goto(c, u)
  BY <1>2
<1> HIDE DEF u
<1>8. TaskShape(c, u, mem, Len(deals), acked)
  BY <1>0, <1>5, <1>6 DEF TaskShape
<1>9. TaskShape(c, u, mem, Len(deals'), acked')
  <2>1. \A o \in Orders : mem.ord[o].pos # 0 => mem.ord[o].pos # 0
    OBVIOUS
  <2> HIDE DEF t
  <2> QED
    BY <1>0, <1>3, <1>4, <1>6, <1>8, <2>1, ShapeGrows
<1>10. /\ acked' \in 0..Len(Decisions) /\ fills' \in [Orders -> 0..2] /\ outbox' \in SUBSET Orders
       /\ controls' \in 0..MaxControls /\ crashes' \in 0..MaxCrashes
  BY <1>0 DEF TypeInv, TypeOK
<1> QED
  BY <1>0, <1>3, <1>4, <1>6, <1>7, <1>9, <1>10, TaskStep

(* ...and moves by itself. *)
LEMMA TypeBroker ==
    ASSUME TypeInv, BrokerNext /\ UNCHANGED omVars
    PROVE  TypeInv'
<1>0. /\ BrokerTypeOK /\ Len(deals) \in Nat
      /\ ticket \in [Tickets -> [st : TicketStates, sl : 0..MaxSl]]
      /\ 0 \in 0..MaxSl /\ "gone" \in TicketStates
  BY BrokerAssumption DEF TypeInv, TypeOK, BrokerTypeOK, BrokerAssumption, TicketStates
<1>1. BrokerTypeOK' /\ Len(deals) <= Len(deals') /\ Len(deals') \in Nat
  <2>1. ASSUME NEW i \in Tickets, Trigger(i) \/ StopOut(i)
        PROVE  BrokerTypeOK' /\ Len(deals) <= Len(deals')
    <3>1. ticket[i].sl \in 0..MaxSl
      BY <1>0
    <3>2. Fill(i, ticket[i].sl) \/ (CloseAt(i) /\ UNCHANGED refused)
      BY <2>1 DEF Trigger, StopOut
    <3>3. UNCHANGED <<due, lost>>
      BY <2>1 DEF Trigger, StopOut
    <3> HIDE DEF Fill, CloseAt
    <3> QED
      BY <1>0, <3>1, <3>2, <3>3, DealTypes DEF BrokerTypeOK
  <2>2. ASSUME NEW i \in Tickets, Expire(i) PROVE BrokerTypeOK' /\ Len(deals) <= Len(deals')
    BY <1>0, <2>2 DEF Expire, BrokerTypeOK
  <2>3. ASSUME NEW o \in Orders, Elapse(o) PROVE BrokerTypeOK' /\ Len(deals) <= Len(deals')
    BY <1>0, <2>3 DEF Elapse, BrokerTypeOK
  <2>4. BrokerTypeOK' => Len(deals') \in Nat
    BY DEF BrokerTypeOK
  <2> QED
    BY <2>1, <2>2, <2>3, <2>4 DEF BrokerNext
<1>2. UNCHANGED omVars
  OBVIOUS
<1>3. ASSUME NEW c \in Tasks PROVE TaskShape(c, task'[c], mem', Len(deals'), acked')
  <2>1. task[c] \in TaskState /\ TaskShape(c, task[c], mem, Len(deals), acked)
    BY Holds
  <2>2. TaskShape(c, task[c], mem, Len(deals'), acked)
    BY <1>0, <1>1, <2>1, ShapeGrows
  <2> QED
    BY <1>2, <2>2 DEF omVars
<1>4. Shape'
  BY <1>2, <1>3 DEF Shape, omVars, TypeInv
<1>5. TypeOK'
  BY <1>1, <1>2 DEF TypeInv, TypeOK, omVars
<1> QED
  BY <1>4, <1>5 DEF TypeInv

(* A crash, in execute or anywhere: every task is lost, memory is the journal. *)
LEMMA TypeCrash ==
    ASSUME TypeInv, Crash \/ CrashInExecute
    PROVE  TypeInv'
<1>1. /\ crashes' \in 0..MaxCrashes /\ UNCHANGED <<brokerVars, acked, fills, trades, serial, controls>>
      /\ outbox' = {} /\ task' = [c \in Tasks |-> Idle] /\ mem' = journal'
  BY OrderManagerAssumption DEF Crash, CrashInExecute, OrderManagerAssumption, TypeInv, TypeOK
<1>2. journal' \in ExecState /\ OpenHasPosition(journal')
  <2>1. CASE Crash
    BY <2>1 DEF Crash, TypeInv, TypeOK, Shape
  <2>2. CASE CrashInExecute
    BY <2>2, NewDecision, NewOrder DEF CrashInExecute, MemGood, Admissible
  <2> QED
    BY <2>1, <2>2
<1>3. BrokerTypeOK' /\ Len(deals') \in Nat
  BY <1>1 DEF TypeInv, TypeOK, brokerVars, BrokerTypeOK
<1>4. TypeOK'
  BY <1>1, <1>2, <1>3, IdleType DEF TypeInv, TypeOK
<1>5. Shape'
  BY <1>1, <1>2, <1>3, IdleShape DEF Shape
<1> QED
  BY <1>4, <1>5 DEF TypeInv

(* Publishing the outbox, and doing nothing. *)
LEMMA TypeFlush ==
    ASSUME TypeInv, Flush \/ UNCHANGED vars
    PROVE  TypeInv'
<1>1. CASE Flush
  <2>1. trades' \in [Orders -> 0..2]
    <3>1. ASSUME NEW o \in Orders PROVE Count(trades, o)[o] \in 0..2
      BY DEF TypeInv, TypeOK, Count
    <3> QED
      BY <1>1, <3>1 DEF Flush, TypeInv, TypeOK
  <2>2. /\ UNCHANGED <<mem, journal, task, acked, fills, serial, controls, crashes, brokerVars>>
        /\ outbox' = {}
    BY <1>1 DEF Flush
  <2>3. BrokerTypeOK'
    BY <2>2 DEF TypeInv, TypeOK, brokerVars, BrokerTypeOK
  <2> QED
    BY <2>1, <2>2, <2>3 DEF TypeInv, TypeOK, Shape, brokerVars
<1>2. CASE UNCHANGED vars
  <2>1. BrokerTypeOK'
    BY <1>2 DEF TypeInv, TypeOK, vars, brokerVars, BrokerTypeOK
  <2> QED
    BY <1>2, <2>1 DEF TypeInv, TypeOK, Shape, vars, omVars, brokerVars
<1> QED
  BY <1>1, <1>2

(* Types and shapes hold at the start. *)
LEMMA TypeInit == Init => TypeInv
<1> SUFFICES ASSUME Init PROVE TypeInv
  OBVIOUS
<1>1. Untracked \in TrackedOrder /\ Untracked.st = "none" /\ Untracked.pos = 0
  <2>1. 1 \in 1..MaxSl /\ 0 \in 0..2 /\ "none" \in OrderStates
    BY BrokerAssumption DEF OrderStates, BrokerAssumption
  <2> QED
    BY <2>1 DEF Untracked, TrackedOrder
<1>2. BrokerTypeOK /\ Len(deals) = 0
  <2>1. "none" \in TicketStates /\ 0 \in 0..MaxSl /\ 0 \in 0..MaxLost /\ 0 \in 0..MaxRefused
    BY BrokerAssumption DEF TicketStates, BrokerAssumption
  <2> QED
    BY <2>1 DEF Init, BrokerInit, BrokerTypeOK
<1>3. mem \in ExecState /\ journal = mem /\ OpenHasPosition(mem)
  BY <1>1 DEF Init, ExecState, OpenHasPosition
<1>4. task = [c \in Tasks |-> Idle] /\ task \in [Tasks -> TaskState]
  BY IdleType DEF Init
<1>5. /\ acked \in 0..Len(Decisions) /\ controls \in 0..MaxControls /\ crashes \in 0..MaxCrashes
      /\ fills \in [Orders -> 0..2] /\ trades \in [Orders -> 0..2] /\ outbox \in SUBSET Orders
      /\ serial \in BOOLEAN
  BY OrderManagerAssumption DEF Init, OrderManagerAssumption
<1>6. TypeOK
  BY <1>2, <1>3, <1>4, <1>5 DEF TypeOK
<1>7. Shape
  BY <1>2, <1>3, <1>4, IdleShape DEF Shape
<1> QED
  BY <1>6, <1>7 DEF TypeInv

(* Types and shapes are inductive. *)
LEMMA TypeNext == TypeInv /\ [Next]_vars => TypeInv'
<1> SUFFICES ASSUME TypeInv, [Next]_vars PROVE TypeInv'
  OBVIOUS
<1> QED
  BY TypeServe, TypeDecisions, TypeConfirm, TypeCycle, TypeControl, TypeBroker, TypeCrash, TypeFlush
  DEF Next

(* Every variable has its type, whatever the tasks, the broker and crashes interleave: in
   particular no deal is read past the end of the broker's log, no ticket is named that no
   attempt made, and the bounds hold. *)
THEOREM OrderTypes == Spec => []TypeOK
<1>1. TypeInv => TypeOK
  BY DEF TypeInv
<1> QED
  BY <1>1, TypeInit, TypeNext, PTL DEF Spec

-----------------------------------------------------------------------------
(* What memory and journal have in common.  First the steps that leave the broker alone: a new
   order comes with its decision's number, and is saved at once. *)
Consumed(o, seq) == \E n \in 1..seq : n <= Len(Decisions) /\ Decisions[n] = o
Knows(m) == /\ \A o \in Orders : m.ord[o].st # "none" <=> mem.ord[o].st # "none"
            /\ m.seq = mem.seq

(* A step of one task, whatever it writes and however it saves it. *)
LEMMA RecordedStep ==
    ASSUME TypeInv, TypeInv', Recorded, NEW c \in Tasks, NEW u, Goto(c, u),
           \/ journal' = mem'
           \/ journal' = journal /\ Knows(mem'),
           mem'.seq >= mem.seq,
           \A o \in Orders : mem.ord[o].st # "none" => mem'.ord[o].st # "none",
           \A o \in Orders : mem'.ord[o].st # "none" => mem.ord[o].st # "none" \/ Consumed(o, mem'.seq),
           UNCHANGED ticket, HoldsKnown(u, mem')
    PROVE  Recorded'
<1>0. /\ mem.seq \in Nat /\ mem'.seq \in Nat
      /\ task \in [Tasks -> TaskState]
  BY DEF TypeInv, TypeOK, ExecState
<1>1. /\ \A o \in Orders : mem'.ord[o].st # "none" <=> journal'.ord[o].st # "none"
      /\ mem'.seq = journal'.seq
  BY DEF Recorded, Knows
<1>2. ASSUME NEW d \in Tasks PROVE HoldsKnown(task'[d], mem')
  <2>1. CASE d = c
    BY <1>0, <2>1 DEF Goto
  <2>2. CASE d # c
    <3>1. task'[d] = task[d]
      BY <1>0, <2>2 DEF Goto
    <3>2. TaskShape(d, task[d], mem, Len(deals), acked) /\ HoldsKnown(task[d], mem)
      BY Holds DEF Recorded
    <3>3. task[d].pc \in SendPoints \union KeepPoints => task[d].o \in Orders
      BY <3>2 DEF TaskShape, OrderPoints
    <3>4. task[d].pc \in {"demote_cancel", "demote_cancel_one"} => task[d].todo \in SUBSET Orders
      BY <3>2 DEF TaskShape, HaltPoints
    <3> QED
      BY <3>1, <3>2, <3>3, <3>4 DEF HoldsKnown
  <2> QED
    BY <2>1, <2>2
<1>3. WriteAhead'
  <2>1. ASSUME NEW i \in Tickets, ticket'[i].st # "none" PROVE journal'.ord[i[1]].st # "none"
    <3>1. i[1] \in Orders
      BY DEF Tickets
    <3>2. journal.ord[i[1]].st # "none"
      BY <2>1 DEF Recorded, WriteAhead
    <3> QED
      BY <1>1, <3>1, <3>2 DEF Recorded
  <2> QED
    BY <2>1 DEF WriteAhead
<1>4. ConsumedOnDisk'
  <2>1. ASSUME NEW o \in Orders, mem.ord[o].st # "none" PROVE Consumed(o, mem'.seq)
    <3>1. PICK n \in 1..mem.seq : n <= Len(Decisions) /\ Decisions[n] = o
      BY <2>1 DEF Recorded, ConsumedOnDisk
    <3>2. n \in 1..mem'.seq
      BY <1>0
    <3> QED
      BY <3>1, <3>2 DEF Consumed
  <2>2. ASSUME NEW o \in Orders, mem'.ord[o].st # "none" PROVE Consumed(o, journal'.seq)
    BY <1>1, <2>1, <2>2
  <2> QED
    BY <2>2 DEF ConsumedOnDisk, Consumed
<1> QED
  BY <1>1, <1>2, <1>3, <1>4 DEF Recorded

(* The same where no order is new: saved or not. *)
LEMMA KnownStep ==
    ASSUME TypeInv, TypeInv', Recorded, NEW c \in Tasks, NEW u, Goto(c, u),
           NEW m, Knows(m), mem' = m, journal' \in {m, journal},
           UNCHANGED ticket, HoldsKnown(u, m)
    PROVE  Recorded'
<1>1. mem.seq \in Nat
  BY DEF TypeInv, TypeOK, ExecState
<1> QED
  BY <1>1, RecordedStep DEF Knows

(* A known order in a new state, and deals seen, leave no order new. *)
LEMMA KnowsTracked ==
    ASSUME TypeInv
    PROVE  /\ Knows(mem)
           /\ Knows(Seen)
           /\ \A o \in Orders : \A r : (r.st # "none" <=> mem.ord[o].st # "none") =>
                /\ Knows(Tracked(o, r))
                /\ Knows([Seen EXCEPT !.ord[o] = r])
           /\ \A o \in Orders : mem.ord[o].st # "none" => Knows([Seen EXCEPT !.ord[o].st = "closed"])
<1>1. mem \in ExecState
  BY DEF TypeInv, TypeOK
<1>2. ASSUME NEW o \in Orders, NEW r, r.st # "none" <=> mem.ord[o].st # "none"
      PROVE  Knows(Tracked(o, r)) /\ Knows([Seen EXCEPT !.ord[o] = r])
  BY <1>1, <1>2 DEF Knows, Tracked, Seen, ExecState
<1>3. ASSUME NEW o \in Orders, mem.ord[o].st # "none" PROVE Knows([Seen EXCEPT !.ord[o].st = "closed"])
  BY <1>1, <1>3 DEF Knows, Seen, ExecState, TrackedOrder
<1>4. Knows(mem) /\ Knows(Seen)
  BY <1>1 DEF Knows, Seen, ExecState
<1> QED
  BY <1>2, <1>3, <1>4

(* What a task that moves holds then. *)
LEMMA MovesTo ==
    ASSUME NEW t \in TaskState
    PROVE  /\ \A pc, op, k, sl : LET u == Await(t, pc, op, k, sl)
                                 IN  u.pc = pc /\ u.o = t.o /\ u.todo = t.todo
           /\ \A pc : LET u == Run(t, pc) IN u.pc = pc /\ u.o = t.o /\ u.todo = t.todo
           /\ \A o, ret : ConfirmStop(t, o, ret).pc = "confirm"
           /\ Idle.pc = "idle"
  BY DEF Await, Run, ConfirmStop, TaskState, Idle

(* Most points hold nothing that must be known. *)
LEMMA PlainPoint ==
    ASSUME NEW u, NEW m,
           u.pc \notin SendPoints \union KeepPoints \union {"demote_cancel", "demote_cancel_one"}
    PROVE  HoldsKnown(u, m)
  BY DEF HoldsKnown

(* The reader of DECISIONS. *)
LEMMA RecordedDecisions == ASSUME TypeInv, TypeInv', Recorded, DecisionSteps PROVE Recorded'
<1> DEFINE c == "decisions"
           t == task[c]
<1>0. /\ c \in Tasks /\ t \in TaskState /\ HoldsKnown(t, mem)
      /\ TaskShape(c, t, mem, Len(deals), acked) /\ mem \in ExecState
      /\ Knows(mem)
  BY Holds, KnowsTracked DEF Tasks, Recorded, TypeInv, TypeOK
<1>1. UNCHANGED ticket
  BY DEF DecisionSteps, DropDecision, RefuseEntry, Execute, Retry, FoundPosition, FoundOrder, Placed,
         Quiet, brokerVars
<1>2. t.pc \in SendPoints => t.o \in Orders /\ mem.ord[t.o].st # "none"
  BY <1>0 DEF TaskShape, OrderPoints, HoldsKnown
<1>3. CASE DropDecision
  <2>1. Goto(c, t) /\ mem' = mem /\ journal' = journal
    BY <1>3, NewDecision DEF DropDecision
  <2> QED
    BY <1>0, <1>1, <2>1, KnownStep
<1>4. ASSUME DecisionWaits, Admissible(Decisions[NextDecision])
      PROVE  mem.seq \in Nat /\ NextDecision \in Nat /\ NextDecision > mem.seq
             /\ NextDecision <= Len(Decisions) /\ Decisions[NextDecision] \in Orders
             /\ Consumed(Decisions[NextDecision], NextDecision)
  <2>1. /\ mem.seq \in Nat /\ NextDecision \in Nat /\ NextDecision > mem.seq
        /\ acked < Len(Decisions) /\ acked \in Nat /\ Len(Decisions) \in Nat
        /\ Decisions[NextDecision] \in Orders
    BY <1>0, <1>4, NewDecision, OrderManagerAssumption
    DEF Admissible, ExecState, OrderManagerAssumption, TypeInv, TypeOK
  <2>2. NextDecision <= Len(Decisions) /\ NextDecision \in 1..NextDecision
    BY <2>1 DEF NextDecision
  <2> QED
    BY <2>1, <2>2 DEF Consumed
<1>5. CASE RefuseEntry
  <2> DEFINE n == NextDecision
  <2>1. /\ DecisionWaits /\ Admissible(Decisions[n]) /\ UNCHANGED task
        /\ mem' = [mem EXCEPT !.seq = n] /\ journal' = mem'
    BY <1>5 DEF RefuseEntry, Save
  <2>2. Goto(c, t) /\ mem.seq \in Nat /\ n \in Nat /\ n > mem.seq
    BY <1>4, <2>1, NewDecision
  <2> HIDE DEF n
  <2>3. mem'.seq = n /\ mem'.ord = mem.ord
    BY <1>0, <2>1 DEF ExecState
  <2>4. HoldsKnown(t, mem')
    BY <1>0, <2>3 DEF HoldsKnown
  <2>5. mem'.seq >= mem.seq
    BY <2>2, <2>3
  <2>6. \A o \in Orders : mem.ord[o].st # "none" <=> mem'.ord[o].st # "none"
    BY <2>3
  <2> QED
    BY <1>0, <1>1, <2>1, <2>2, <2>4, <2>5, <2>6, RecordedStep
<1>6. CASE Execute
  <2> DEFINE n == NextDecision
             p == Decisions[n]
             i == [Idle EXCEPT !.o = p, !.n = 1]
             u == Await(i, "find_position", "open_positions", 0, 0)
             r == [Untracked EXCEPT !.st = "sending"]
  <2>1. /\ DecisionWaits /\ Admissible(p) /\ Goto(c, u)
        /\ mem' = [mem EXCEPT !.seq = n, !.ord[p] = r] /\ journal' = mem'
    BY <1>6 DEF Execute, Save
  <2>2. mem.seq \in Nat /\ n \in Nat /\ n > mem.seq /\ p \in Orders /\ Consumed(p, n)
    BY <1>4, <2>1
  <2>3. r.st = "sending"
    BY DEF Untracked
  <2>4. i \in TaskState /\ i.o = p
    BY <2>2, IdleType DEF TaskState
  <2> HIDE DEF n, p, r
  <2>5. /\ mem'.seq = n /\ mem'.ord[p].st # "none"
        /\ \A o \in Orders \ {p} : mem'.ord[o] = mem.ord[o]
    BY <1>0, <2>1, <2>2, <2>3 DEF ExecState
  <2> HIDE DEF i
  <2>6. u.pc = "find_position" /\ u.o = p
    BY <2>4, MovesTo
  <2>7. HoldsKnown(u, mem')
    BY <2>5, <2>6 DEF HoldsKnown
  <2>8. mem'.seq >= mem.seq
    BY <2>2, <2>5
  <2>9. /\ \A o \in Orders : mem.ord[o].st # "none" => mem'.ord[o].st # "none"
        /\ \A o \in Orders : mem'.ord[o].st # "none" => mem.ord[o].st # "none" \/ Consumed(o, mem'.seq)
    BY <2>2, <2>5
  <2> HIDE DEF u
  <2> QED
    BY <1>0, <1>1, <2>1, <2>7, <2>8, <2>9, RecordedStep
<1>7. ASSUME NEW v \in TaskState, NEW pc, pc # "demote_cancel", pc # "demote_cancel_one",
             NEW op, NEW k, NEW sl,
             v.o = t.o, t.pc \in SendPoints, Goto(c, Await(v, pc, op, k, sl)),
             UNCHANGED <<mem, journal>>
      PROVE  Recorded'
  <2> DEFINE u == Await(v, pc, op, k, sl)
  <2>1. u.pc = pc /\ u.o = t.o
    BY <1>7, MovesTo
  <2>2. HoldsKnown(u, mem)
    BY <1>2, <1>7, <2>1 DEF HoldsKnown
  <2> QED
    BY <1>0, <1>1, <1>7, <2>2, KnownStep
<1>8. ASSUME NEW u, u.pc \in {"idle", "confirm"}, Goto(c, u), NEW m, Knows(m), mem' = m,
             journal' \in {m, journal}
      PROVE  Recorded'
  <2>1. HoldsKnown(u, m)
    BY <1>8, PlainPoint DEF SendPoints, KeepPoints
  <2> QED
    BY <1>0, <1>1, <1>8, <2>1, KnownStep
<1>9. Idle.pc = "idle" /\ ConfirmStop(t, t.o, "idle").pc = "confirm"
  BY <1>0, MovesTo
<1>10. CASE Retry
  <2>1. t.pc \in SendPoints /\ UNCHANGED <<mem, journal>>
    BY <1>10 DEF Retry, SendPoints
  <2>2. CASE Goto(c, Await([t EXCEPT !.n = 2], "find_position", "open_positions", 0, 0))
    <3>1. [t EXCEPT !.n = 2] \in TaskState /\ [t EXCEPT !.n = 2].o = t.o
      BY <1>0 DEF TaskState
    <3> QED
      BY <1>7, <2>1, <2>2, <3>1
  <2>3. CASE Done(c)
    BY <1>0, <1>8, <1>9, <2>1, <2>3 DEF Done
  <2> QED
    BY <1>10, <2>2, <2>3 DEF Retry
<1>11. ASSUME t.pc \in SendPoints, NEW r, r.st # "none", Save(Tracked(t.o, r)),
              Done(c) \/ Goto(c, ConfirmStop(t, t.o, "idle"))
       PROVE  Recorded'
  <2>1. Knows(Tracked(t.o, r))
    BY <1>2, <1>11, KnowsTracked
  <2> QED
    BY <1>8, <1>9, <1>11, <2>1 DEF Done, Save
<1>12. ASSUME t.pc \in SendPoints
       PROVE  /\ \A k : Opened(mem.ord[t.o], k).st # "none"
              /\ \A k : [mem.ord[t.o] EXCEPT !.st = "pending", !.oid = k].st # "none"
              /\ [mem.ord[t.o] EXCEPT !.st = "rejected"].st # "none"
  <2>1. mem.ord[t.o] \in TrackedOrder
    BY <1>0, <1>2, <1>12 DEF ExecState
  <2> QED
    BY <2>1 DEF TrackedOrder, Opened
<1>13. CASE FoundPosition
  <2>1. t.pc \in SendPoints
    BY <1>13 DEF FoundPosition, At, SendPoints
  <2>2. CASE Goto(c, Await(t, "find_order", "pending_orders", 0, 0)) /\ UNCHANGED <<mem, journal>>
    BY <1>0, <1>7, <2>1, <2>2
  <2> QED
    BY <1>11, <1>12, <1>13, <2>1, <2>2 DEF FoundPosition
<1>14. CASE FoundOrder
  <2>1. t.pc \in SendPoints
    BY <1>14 DEF FoundOrder, At, SendPoints
  <2>2. CASE Goto(c, Await(t, "place", "place", t.n, mem.ord[t.o].sl)) /\ UNCHANGED <<mem, journal>>
    BY <1>0, <1>7, <2>1, <2>2
  <2>3. ASSUME NEW k \in Attempts, Save(Tracked(t.o, [mem.ord[t.o] EXCEPT !.st = "pending", !.oid = k])), Done(c)
        PROVE  Recorded'
    <3> DEFINE r == [mem.ord[t.o] EXCEPT !.st = "pending", !.oid = k]
    <3>1. r.st # "none" /\ Save(Tracked(t.o, r))
      BY <1>12, <2>1, <2>3
    <3> HIDE DEF r
    <3> QED
      BY <1>11, <2>1, <2>3, <3>1
  <2> QED
    BY <1>14, <2>2, <2>3 DEF FoundOrder
<1>15. CASE Placed
  <2>1. t.pc \in SendPoints
    BY <1>15 DEF Placed, At, SendPoints
  <2> QED
    BY <1>11, <1>12, <1>15, <2>1 DEF Placed
<1> QED
  BY <1>3, <1>5, <1>6, <1>10, <1>13, <1>14, <1>15 DEF DecisionSteps

(* confirm_stop. *)
LEMMA RecordedConfirm ==
    ASSUME TypeInv, TypeInv', Recorded, NEW c \in {"decisions", "cycle"}, ConfirmSteps(c)
    PROVE  Recorded'
<1> DEFINE t == task[c]
           o == t.o
<1>0. /\ c \in Tasks /\ t \in TaskState /\ TaskShape(c, t, mem, Len(deals), acked)
      /\ mem \in ExecState /\ Knows(mem)
      /\ t.pc \in ConfirmPoints /\ UNCHANGED ticket
  BY Holds, KnowsTracked
  DEF Tasks, TypeInv, TypeOK, ConfirmSteps, StopSeen, StopAsked, StopChecked, StopClosed, At,
      ConfirmPoints, Quiet, brokerVars
<1>1. o \in Orders /\ t.ret \in {"idle", "apply_deal", "stops_next"}
  BY <1>0 DEF TaskShape, ConfirmPoints, OrderPoints
<1>2. Knows(Tracked(o, [mem.ord[o] EXCEPT !.conf = TRUE]))
  <2>1. mem.ord[o] \in TrackedOrder
    BY <1>0, <1>1 DEF ExecState
  <2>2. [mem.ord[o] EXCEPT !.conf = TRUE].st = mem.ord[o].st
    BY <2>1 DEF TrackedOrder
  <2> QED
    BY <1>1, <2>2, KnowsTracked
<1>3. ASSUME NEW u, Goto(c, u), u.pc \in {"idle", "apply_deal", "stops_next"} \union ConfirmPoints,
             NEW m, Knows(m), mem' = m, journal' \in {m, journal}
      PROVE  Recorded'
  <2>1. HoldsKnown(u, m)
    BY <1>3, PlainPoint DEF SendPoints, KeepPoints, ConfirmPoints
  <2> QED
    BY <1>0, <1>3, <2>1, KnownStep
<1>4. ASSUME Return(c), NEW m, Knows(m), mem' = m, journal' \in {m, journal} PROVE Recorded'
  <2>1. CASE t.ret = "idle"
    BY <1>0, <1>3, <1>4, <2>1, MovesTo DEF Return, Done
  <2>2. CASE t.ret # "idle"
    <3> DEFINE v == [t EXCEPT !.ret = "idle", !.o = NoOrder, !.tries = 0]
               u == Run(v, t.ret)
    <3>1. Goto(c, u)
      BY <1>4, <2>2 DEF Return
    <3>2. v \in TaskState
      <4>1. "idle" \in {"idle"} \union Internal /\ NoOrder \in Orders \union {NoOrder} /\ 0 \in 0..2
        OBVIOUS
      <4> QED
        BY <1>0, <4>1 DEF TaskState
    <3> HIDE DEF v
    <3>3. u.pc = t.ret
      BY <3>2, MovesTo
    <3> HIDE DEF u
    <3> QED
      BY <1>1, <1>3, <1>4, <3>1, <3>3
  <2> QED
    BY <2>1, <2>2
<1>5. ASSUME NEW v \in TaskState, NEW pc \in ConfirmPoints, NEW op, NEW k, NEW sl,
             Goto(c, Await(v, pc, op, k, sl)), UNCHANGED <<mem, journal>>
      PROVE  Recorded'
  <2> DEFINE u == Await(v, pc, op, k, sl)
  <2>1. u.pc = pc
    BY <1>5, MovesTo
  <2>2. Goto(c, u)
    BY <1>5
  <2> HIDE DEF u
  <2> QED
    BY <1>0, <1>3, <1>5, <2>1, <2>2
<1>6. ASSUME NEW v \in TaskState, AskStop(c, v), UNCHANGED <<mem, journal>> PROVE Recorded'
  BY <1>5, <1>6 DEF AskStop, ConfirmPoints
<1>7. CASE StopSeen(c)
  <2>1. [t EXCEPT !.tries = 1] \in TaskState
    BY <1>0 DEF TaskState
  <2> QED
    BY <1>0, <1>2, <1>4, <1>6, <1>7, <2>1 DEF StopSeen, Confirmed, Save
<1>8. CASE StopAsked(c)
  BY <1>0, <1>5, <1>8 DEF StopAsked, ConfirmPoints
<1>9. CASE StopChecked(c)
  <2>1. t.tries < 2 => t.tries + 1 \in 0..2
    BY <1>0 DEF TaskState
  <2>2. t.tries < 2 => [t EXCEPT !.tries = @ + 1] \in TaskState
    BY <1>0, <2>1 DEF TaskState
  <2>3. CASE t.tries < 2 /\ AskStop(c, [t EXCEPT !.tries = @ + 1]) /\ UNCHANGED <<mem, journal>>
    BY <1>6, <2>2, <2>3
  <2>4. CASE Goto(c, Await(t, "stop_close", "close", mem.ord[o].pos, 0)) /\ UNCHANGED <<mem, journal>>
    BY <1>0, <1>5, <2>4 DEF ConfirmPoints
  <2>5. CASE Return(c) /\ UNCHANGED <<mem, journal>>
    BY <1>0, <1>4, <2>5
  <2>6. CASE Return(c) /\ Confirmed(o)
    BY <1>2, <1>4, <2>6 DEF Confirmed, Save
  <2> QED
    BY <1>9, <2>3, <2>4, <2>5, <2>6 DEF StopChecked
<1>10. CASE StopClosed(c)
  BY <1>0, <1>4, <1>10 DEF StopClosed, Save
<1> QED
  BY <1>7, <1>8, <1>9, <1>10 DEF ConfirmSteps

(* The cycle. *)
LEMMA RecordedCycle == ASSUME TypeInv, TypeInv', Recorded, CycleSteps PROVE Recorded'
<1> DEFINE c == "cycle"
           t == task[c]
<1>0. /\ c \in Tasks /\ t \in TaskState /\ TaskShape(c, t, mem, Len(deals), acked)
      /\ mem \in ExecState /\ Knows(mem) /\ HoldsKnown(t, mem) /\ task \in [Tasks -> TaskState]
      /\ \A o \in Orders : mem.ord[o] \in TrackedOrder
      /\ UNCHANGED ticket
  BY Holds, KnowsTracked
  DEF Tasks, TypeInv, TypeOK, Recorded, CycleSteps, StartCycle, CycleLost, GotDeals, ApplyDeal,
      DealsApplied, ExpireNext, ExpireCancelled, ExpireChecked, ExpireDone, StopsNext, Quiet, brokerVars
<1>1. /\ (t.pc \notin HaltPoints => t.todo \in SUBSET Orders)
      /\ t.pc \in {"expire_cancel", "expire_check"} => t.o \in Orders /\ mem.ord[t.o].st # "none"
  BY <1>0 DEF TaskShape, HoldsKnown, OrderPoints, KeepPoints
<1>2. ASSUME NEW u, Goto(c, u), u.pc \in {"idle", "confirm", "deals", "apply_deal", "expire_next", "stops_next"},
             NEW m, Knows(m), mem' = m, journal' \in {m, journal}
      PROVE  Recorded'
  <2>1. HoldsKnown(u, m)
    BY <1>2, PlainPoint DEF SendPoints, KeepPoints
  <2> QED
    BY <1>0, <1>2, <2>1, KnownStep
<1>3. ASSUME NEW v \in TaskState, NEW pc \in {"apply_deal", "expire_next", "stops_next"}, Goto(c, Run(v, pc)),
             NEW m, Knows(m), mem' = m, journal' \in {m, journal}
      PROVE  Recorded'
  <2> DEFINE u == Run(v, pc)
  <2>1. u.pc = pc /\ Goto(c, u)
    BY <1>3, MovesTo
  <2> HIDE DEF u
  <2> QED
    BY <1>2, <1>3, <2>1
<1>4. ASSUME NEW v \in TaskState, NEW pc \in {"expire_cancel", "expire_check"}, NEW op, NEW k,
             v.o \in Orders, mem.ord[v.o].st # "none",
             Goto(c, Await(v, pc, op, k, 0)), UNCHANGED <<mem, journal>>
      PROVE  Recorded'
  <2> DEFINE u == Await(v, pc, op, k, 0)
  <2>1. u.pc = pc /\ u.o = v.o /\ Goto(c, u)
    BY <1>4, MovesTo
  <2> HIDE DEF u
  <2>2. HoldsKnown(u, mem)
    BY <1>4, <2>1 DEF HoldsKnown
  <2> QED
    BY <1>0, <1>4, <2>1, <2>2, KnownStep
<1>5. Idle.pc = "idle" /\ (Save(mem) \/ UNCHANGED <<mem, journal>> => mem' = mem /\ journal' \in {mem, journal})
  BY <1>0, MovesTo DEF Save
<1>6. CASE StartCycle
  <2> DEFINE u == Await(Idle, "deals", "deals", 0, 0)
  <2>1. u.pc = "deals" /\ Goto(c, u)
    BY <1>6, IdleType, MovesTo DEF StartCycle
  <2> HIDE DEF u
  <2> QED
    BY <1>0, <1>2, <1>6, <2>1 DEF StartCycle
<1>7. CASE CycleLost
  BY <1>0, <1>2, <1>5, <1>7 DEF CycleLost, Done
<1>8. CASE GotDeals
  <2>1. [t EXCEPT !.n = t.ans.n, !.m = mem.seen] \in TaskState
    BY <1>0 DEF TaskState, ExecState
  <2> QED
    BY <1>0, <1>3, <1>8, <2>1 DEF GotDeals
<1>9. CASE ApplyDeal
  <2> DEFINE d == deals[mem.seen + 1]
             o == d.tk[1]
             k == d.tk[2]
             r == mem.ord[o]
  <2>1. o \in Orders
    <3>1. mem.seen \in Nat /\ t.n \in Nat /\ t.pc = "apply_deal" /\ t.n <= Len(deals) /\ mem.seen < t.n
          /\ Len(deals) \in Nat
      BY <1>0, <1>9, Holds DEF ApplyDeal, At, TaskShape, ExecState, TaskState
    <3>2. mem.seen + 1 \in 1..Len(deals)
      BY <3>1
    <3>3. deals \in Seq([tk : Tickets, entry : {"in", "out"}])
      BY DEF TypeInv, TypeOK, BrokerTypeOK
    <3>4. d \in [tk : Tickets, entry : {"in", "out"}]
      BY <3>2, <3>3, ElementOfSeq
    <3>5. d.tk \in Tickets
      BY <3>4
    <3> QED
      BY <3>5 DEF Tickets
  <2>2. CASE /\ r.st \in Fillable
             /\ Save([Seen EXCEPT !.ord[o] = Opened(r, k)])
             /\ Goto(c, ConfirmStop(t, o, "apply_deal"))
    <3>1. Opened(r, k).st = "open" /\ r.st # "none"
      BY <1>0, <2>1, <2>2 DEF Opened, TrackedOrder, Fillable
    <3> DEFINE u == ConfirmStop(t, o, "apply_deal")
               m == [Seen EXCEPT !.ord[o] = Opened(r, k)]
    <3>2. u.pc = "confirm" /\ Knows(m)
      <4>1. u.pc = "confirm"
        BY <1>0, MovesTo
      <4>2. Opened(r, k).st # "none" <=> mem.ord[o].st # "none"
        BY <3>1
      <4> HIDE DEF u, o, k, r
      <4>3. Knows(m)
        BY <2>1, <4>2, KnowsTracked
      <4> QED
        BY <4>1, <4>3
    <3>3. Goto(c, u) /\ mem' = m /\ journal' = m
      BY <2>2 DEF Save
    <3> HIDE DEF u, m
    <3> QED
      BY <1>2, <3>2, <3>3
  <2>3. ASSUME NEW m, Knows(m), Keep(m), UNCHANGED task PROVE Recorded'
    <3>1. Goto(c, t) /\ HoldsKnown(t, m)
      <4>1. t.pc = "apply_deal"
        BY <1>9 DEF ApplyDeal, At
      <4> QED
        BY <1>0, <2>3, <4>1, PlainPoint DEF Goto, SendPoints, KeepPoints
    <3> QED
      BY <1>0, <2>3, <3>1, KnownStep DEF Keep
  <2>4. r.st = "open" => Knows([Seen EXCEPT !.ord[o].st = "closed"])
    BY <2>1, KnowsTracked
  <2> QED
    BY <1>9, <2>2, <2>3, <2>4, KnowsTracked DEF ApplyDeal
<1>10. CASE DealsApplied
  <2> DEFINE v == [t EXCEPT !.n = 0, !.m = 0, !.todo = {o \in due : mem.ord[o].st \in Active}]
  <2>1. {o \in due : mem.ord[o].st \in Active} \in SUBSET Orders
    BY BrokerAssumption DEF TypeInv, TypeOK, BrokerTypeOK, BrokerAssumption
  <2>2. v \in TaskState
    BY <1>0, <2>1 DEF TaskState
  <2>3. Goto(c, Run(v, "expire_next")) /\ mem' = mem /\ journal' \in {mem, journal}
    BY <1>5, <1>10 DEF DealsApplied
  <2> HIDE DEF v
  <2> QED
    BY <1>0, <1>3, <2>2, <2>3
<1>11. CASE ExpireNext
  <2>1. PICK o \in Expirable(t) : Goto(c, Await([t EXCEPT !.o = o, !.todo = @ \ {o}],
                                                "expire_cancel", "cancel", mem.ord[o].oid, 0))
    BY <1>11 DEF ExpireNext
  <2> DEFINE v == [t EXCEPT !.o = o, !.todo = @ \ {o}]
  <2>2. o \in Orders /\ mem.ord[o].st # "none" /\ t.todo \in SUBSET Orders
    BY <1>1, <1>11 DEF ExpireNext, At, Expirable, HaltPoints
  <2>3. v \in TaskState /\ v.o = o
    BY <1>0, <2>2 DEF TaskState
  <2>4. Goto(c, Await(v, "expire_cancel", "cancel", mem.ord[o].oid, 0))
    BY <2>1
  <2> HIDE DEF v
  <2> QED
    BY <1>4, <1>11, <2>2, <2>3, <2>4 DEF ExpireNext
<1>12. CASE t.pc \in {"expire_cancel", "expire_check"} /\ Expired(t)
  <2> DEFINE v == [t EXCEPT !.n = 1, !.o = NoOrder]
             r == [mem.ord[t.o] EXCEPT !.st = "expired"]
  <2>1. v \in TaskState
    BY <1>0 DEF TaskState
  <2>2. r.st = "expired"
    BY <1>0, <1>1, <1>12 DEF TrackedOrder
  <2>3. Knows(Tracked(t.o, r))
    BY <1>1, <1>12, <2>2, KnowsTracked
  <2>4. Goto(c, Run(v, "expire_next")) /\ mem' = Tracked(t.o, r) /\ journal' = journal
    BY <1>12 DEF Expired, Keep
  <2> HIDE DEF v, r
  <2> QED
    BY <1>3, <2>1, <2>3, <2>4
<1>13. CASE ExpireCancelled
  <2>1. t.pc = "expire_cancel"
    BY <1>13 DEF ExpireCancelled, At
  <2> QED
    BY <1>0, <1>1, <1>4, <1>12, <1>13, <2>1 DEF ExpireCancelled
<1>14. CASE ExpireChecked
  <2>1. t.pc = "expire_check"
    BY <1>14 DEF ExpireChecked, At
  <2>2. [t EXCEPT !.o = NoOrder] \in TaskState
    BY <1>0 DEF TaskState
  <2> QED
    BY <1>0, <1>3, <1>12, <1>14, <2>1, <2>2 DEF ExpireChecked
<1>15. CASE ExpireDone
  <2> DEFINE v == [t EXCEPT !.n = 0, !.todo = {o \in Orders : mem.ord[o].st \in Active}]
  <2>1. v \in TaskState
    BY <1>0 DEF TaskState
  <2>2. Goto(c, Run(v, "stops_next")) /\ mem' = mem /\ journal' \in {mem, journal}
    BY <1>5, <1>15 DEF ExpireDone
  <2> HIDE DEF v
  <2> QED
    BY <1>0, <1>3, <2>1, <2>2
<1>16. CASE StopsNext
  <2>1. CASE Done(c)
    BY <1>0, <1>2, <1>5, <1>16, <2>1 DEF StopsNext, Done
  <2>2. ASSUME NEW o, Goto(c, ConfirmStop([t EXCEPT !.todo = @ \ {o}], o, "stops_next"))
        PROVE  Recorded'
    <3> DEFINE v == [t EXCEPT !.todo = @ \ {o}]
               u == ConfirmStop(v, o, "stops_next")
    <3>1. v \in TaskState
      BY <1>0 DEF TaskState
    <3>2. Goto(c, u)
      BY <2>2
    <3> HIDE DEF v
    <3>3. u.pc = "confirm"
      BY <3>1, MovesTo
    <3> HIDE DEF u
    <3> QED
      BY <1>0, <1>2, <1>16, <3>2, <3>3 DEF StopsNext
  <2> QED
    BY <1>16, <2>1, <2>2 DEF StopsNext
<1> QED
  BY <1>6, <1>7, <1>8, <1>9, <1>10, <1>11, <1>13, <1>14, <1>15, <1>16 DEF CycleSteps

(* Halts, requests and demotions. *)
LEMMA RecordedControl == ASSUME TypeInv, TypeInv', Recorded, ControlSteps PROVE Recorded'
<1> DEFINE c == "control"
           t == task[c]
           Lists == {"demote_cancel", "demote_cancel_one"}
<1>0. /\ c \in Tasks /\ t \in TaskState /\ TaskShape(c, t, mem, Len(deals), acked)
      /\ mem \in ExecState /\ Knows(mem) /\ HoldsKnown(t, mem) /\ task \in [Tasks -> TaskState]
      /\ \A o \in Orders : mem.ord[o] \in TrackedOrder
  BY Holds, KnowsTracked DEF Tasks, TypeInv, TypeOK, Recorded
<1>1. UNCHANGED ticket
  BY DEF ControlSteps, Halt, RequestCancel, RequestClose, RequestTighten, Demote, StartControl,
         ControlLost, GotList, CancelNext, CancelledOne, CloseNext, ClosedOne, RequestDone,
         DemoteNext, DemotedOne, Quiet, brokerVars
<1>2. /\ t.pc \in OrderPoints => t.o \in Orders
      /\ t.pc \notin HaltPoints => t.todo \in SUBSET Orders
      /\ t.pc \in {"cancel_request", "demote_cancel_one"} => mem.ord[t.o].st # "none"
      /\ t.pc \in Lists => \A o \in t.todo : mem.ord[o].st # "none"
  BY <1>0 DEF TaskShape, HoldsKnown, KeepPoints
<1> DEFINE Others == {"idle", "cancel_list", "cancel_next", "cancel_one", "close_list", "close_next",
                      "close_one", "close_request", "tighten", "demote_close", "demote_close_one"}
<1>3. ASSUME NEW u, Goto(c, u), u.pc \in Others, NEW m, Knows(m), mem' = m, journal' \in {m, journal}
      PROVE  Recorded'
  <2>1. HoldsKnown(u, m)
    BY <1>3, PlainPoint DEF SendPoints, KeepPoints
  <2> QED
    BY <1>0, <1>1, <1>3, <2>1, KnownStep
<1>4. ASSUME NEW v \in TaskState, NEW pc \in Others, NEW op, NEW k, NEW sl,
             Goto(c, Await(v, pc, op, k, sl)) \/ Goto(c, Run(v, pc)),
             NEW m, Knows(m), mem' = m, journal' \in {m, journal}
      PROVE  Recorded'
  <2> DEFINE x == Await(v, pc, op, k, sl)
             y == Run(v, pc)
  <2>1. x.pc = pc /\ y.pc = pc /\ (Goto(c, x) \/ Goto(c, y))
    BY <1>4, MovesTo
  <2> HIDE DEF x, y
  <2> QED
    BY <1>3, <1>4, <2>1
<1>5. ASSUME Done(c), NEW m, Knows(m), mem' = m, journal' \in {m, journal} PROVE Recorded'
  BY <1>0, <1>3, <1>5, MovesTo DEF Done
<1>6. ASSUME NEW v \in TaskState, NEW pc \in Lists, NEW op, NEW k, NEW sl,
             Goto(c, Await(v, pc, op, k, sl)) \/ Goto(c, Run(v, pc)),
             pc = "demote_cancel_one" => mem.ord[v.o].st # "none" /\ v.o \in Orders,
             \A o \in v.todo : o \in Orders /\ mem.ord[o].st # "none",
             NEW m, Knows(m), mem' = m, journal' \in {m, journal}
      PROVE  Recorded'
  <2> DEFINE x == Await(v, pc, op, k, sl)
             y == Run(v, pc)
  <2>1. /\ x.pc = pc /\ x.o = v.o /\ x.todo = v.todo
        /\ y.pc = pc /\ y.o = v.o /\ y.todo = v.todo
        /\ Goto(c, x) \/ Goto(c, y)
    BY <1>6, MovesTo
  <2> HIDE DEF x, y
  <2>2. HoldsKnown(x, m) /\ HoldsKnown(y, m)
    BY <1>6, <2>1 DEF HoldsKnown, Knows, SendPoints, KeepPoints
  <2> QED
    BY <1>0, <1>1, <1>6, <2>1, <2>2, KnownStep
<1>7. \A op : StartControl(op) => UNCHANGED <<mem, journal>>
  BY DEF StartControl
<1>8. ASSUME NEW o \in Orders PROVE [Idle EXCEPT !.o = o] \in TaskState
  BY IdleType DEF TaskState
<1>9. ASSUME NEW op, Halt(op) PROVE Recorded'
  <2>1. [Idle EXCEPT !.n = IF op = "halt" THEN 0 ELSE 1] \in TaskState
    BY IdleType DEF TaskState
  <2> QED
    BY <1>0, <1>4, <1>7, <1>9, <2>1 DEF Halt
<1>10. ASSUME NEW o \in Orders, RequestCancel(o) PROVE Recorded'
  <2> DEFINE i == [Idle EXCEPT !.o = o]
             u == Await(i, "cancel_request", "cancel", mem.ord[o].oid, 0)
  <2>1. i \in TaskState /\ i.o = o
    BY IdleType DEF TaskState
  <2>2. Goto(c, u) /\ mem.ord[o].st = "pending" /\ mem' = mem /\ journal' = journal
    BY <1>7, <1>10 DEF RequestCancel
  <2> HIDE DEF i
  <2>3. u.pc = "cancel_request" /\ u.o = o
    BY <2>1, MovesTo
  <2> HIDE DEF u
  <2>4. HoldsKnown(u, mem)
    BY <2>2, <2>3 DEF HoldsKnown
  <2> QED
    BY <1>0, <1>1, <2>2, <2>4, KnownStep
<1>11. ASSUME NEW o \in Orders, RequestClose(o) PROVE Recorded'
  BY <1>0, <1>4, <1>7, <1>8, <1>11 DEF RequestClose
<1>12. ASSUME NEW o \in Orders, NEW sl \in 1..MaxSl, RequestTighten(o, sl) PROVE Recorded'
  BY <1>0, <1>4, <1>7, <1>8, <1>12 DEF RequestTighten
<1>13. CASE Demote
  <2> DEFINE v == [Idle EXCEPT !.todo = {o \in Orders : mem.ord[o].st = "pending"}]
  <2>1. v \in TaskState /\ \A o \in v.todo : o \in Orders /\ mem.ord[o].st # "none"
    BY IdleType DEF TaskState
  <2>2. Goto(c, Run(v, "demote_cancel")) /\ UNCHANGED <<mem, journal>>
    BY <1>7, <1>13 DEF Demote
  <2> HIDE DEF v
  <2> QED
    BY <1>0, <1>6, <2>1, <2>2
<1>14. CASE ControlLost
  BY <1>0, <1>5, <1>14 DEF ControlLost
<1>15. Save(mem) \/ UNCHANGED <<mem, journal>> => mem' = mem /\ journal' \in {mem, journal}
  BY DEF Save
<1>16. CASE GotList
  <2>1. t.ans.saw \in SUBSET (Tickets \X (0..MaxSl))
    BY <1>0 DEF TaskState
  <2>2. [t EXCEPT !.todo = Listed(t)] \in TaskState
    <3>1. Listed(t) \in SUBSET (Orders \union Tickets)
      BY <2>1 DEF Listed
    <3> QED
      BY <1>0, <3>1 DEF TaskState
  <2> QED
    BY <1>0, <1>4, <1>16, <2>2 DEF GotList
<1>17. ASSUME NEW i \in t.todo, t.pc \in {"cancel_next", "close_next"}
       PROVE  [t EXCEPT !.todo = @ \ {i}, !.o = i[1]] \in TaskState
  <2>1. t.todo \in SUBSET Tickets
    BY <1>0, <1>17 DEF TaskShape, HaltPoints
  <2>2. i[1] \in Orders
    BY <1>17, <2>1 DEF Tickets
  <2> QED
    BY <1>0, <2>1, <2>2 DEF TaskState
<1>18. CASE CancelNext
  <2>1. t.pc = "cancel_next"
    BY <1>18 DEF CancelNext, At
  <2> QED
    BY <1>0, <1>4, <1>5, <1>15, <1>17, <1>18, <2>1 DEF CancelNext
<1>19. /\ [t EXCEPT !.o = NoOrder] \in TaskState
       /\ [t EXCEPT !.o = NoOrder, !.n = 1] \in TaskState
       /\ [t EXCEPT !.o = NoOrder].todo = t.todo
       /\ [t EXCEPT !.o = NoOrder, !.n = 1].todo = t.todo
  BY <1>0 DEF TaskState
<1>20. ASSUME t.o \in Orders, mem.ord[t.o].st # "none"
       PROVE  /\ Knows(Tracked(t.o, [mem.ord[t.o] EXCEPT !.st = "cancelled"]))
              /\ Knows(Tracked(t.o, [mem.ord[t.o] EXCEPT !.sl = t.sl]))
  <2>1. /\ [mem.ord[t.o] EXCEPT !.st = "cancelled"].st = "cancelled"
        /\ [mem.ord[t.o] EXCEPT !.sl = t.sl].st = mem.ord[t.o].st
    BY <1>0, <1>20 DEF TrackedOrder
  <2> QED
    BY <1>20, <2>1, KnowsTracked
<1>21. CASE CancelledOne
  <2>1. t.o \in Orders
    BY <1>2, <1>21 DEF CancelledOne, At, OrderPoints
  <2>2. PICK m : Knows(m) /\ mem' = m /\ journal' \in {m, journal}
    BY <1>0, <1>20, <1>21, <2>1 DEF CancelledOne, Keep
  <2> QED
    BY <1>4, <1>19, <1>21, <2>2 DEF CancelledOne
<1>22. CASE CloseNext
  <2>1. t.pc = "close_next"
    BY <1>22 DEF CloseNext, At
  <2> QED
    BY <1>0, <1>4, <1>5, <1>15, <1>17, <1>22, <2>1 DEF CloseNext
<1>23. CASE ClosedOne
  BY <1>0, <1>4, <1>19, <1>23 DEF ClosedOne
<1>24. CASE RequestDone
  <2>1. t.pc \in {"cancel_request", "close_request", "tighten"} /\ t.o \in Orders
    BY <1>2, <1>24 DEF RequestDone, OrderPoints, KeepPoints
  <2>2. Knows(Tracked(t.o, [mem.ord[t.o] EXCEPT !.sl = t.sl]))
    <3>1. [mem.ord[t.o] EXCEPT !.sl = t.sl].st = mem.ord[t.o].st
      BY <1>0, <2>1 DEF TrackedOrder
    <3> QED
      BY <2>1, <3>1, KnowsTracked
  <2>3. PICK m : Knows(m) /\ mem' = m /\ journal' \in {m, journal}
    BY <1>0, <1>2, <1>15, <1>20, <1>24, <2>1, <2>2 DEF RequestDone, Save
  <2> QED
    BY <1>5, <1>24, <2>3 DEF RequestDone
<1>25. ASSUME NEW o \in t.todo, t.pc \in {"demote_cancel", "demote_close"}
       PROVE  LET v == [t EXCEPT !.todo = @ \ {o}, !.o = o]
              IN  v \in TaskState /\ v.o = o /\ v.todo = t.todo \ {o} /\ t.todo \in SUBSET Orders
  <2>1. t.todo \in SUBSET Orders /\ o \in Orders
    BY <1>2, <1>25 DEF HaltPoints
  <2> QED
    BY <1>0, <2>1 DEF TaskState
<1>26. CASE DemoteNext
  <2>1. t.pc \in {"demote_cancel", "demote_close"}
    BY <1>26 DEF DemoteNext, At
  <2>2. ASSUME NEW o \in t.todo, t.pc = "demote_cancel", UNCHANGED <<mem, journal>>,
               Goto(c, Await([t EXCEPT !.todo = @ \ {o}, !.o = o], "demote_cancel_one", "cancel",
                             mem.ord[o].oid, 0))
        PROVE  Recorded'
    <3> DEFINE v == [t EXCEPT !.todo = @ \ {o}, !.o = o]
    <3>1. v \in TaskState /\ v.o = o /\ v.todo = t.todo \ {o} /\ t.todo \in SUBSET Orders
      BY <1>25, <2>2
    <3>2. Goto(c, Await(v, "demote_cancel_one", "cancel", mem.ord[o].oid, 0))
      BY <2>2
    <3> HIDE DEF v
    <3>3. /\ mem.ord[v.o].st # "none" /\ v.o \in Orders
          /\ \A p \in v.todo : p \in Orders /\ mem.ord[p].st # "none"
      BY <1>2, <2>2, <3>1
    <3> QED
      BY <1>0, <1>6, <2>2, <3>1, <3>2, <3>3
  <2>3. ASSUME NEW o \in t.todo, t.pc = "demote_close", UNCHANGED <<mem, journal>>,
               Goto(c, Await([t EXCEPT !.todo = @ \ {o}, !.o = o], "demote_close_one", "close",
                             mem.ord[o].pos, 0))
        PROVE  Recorded'
    BY <1>0, <1>4, <1>25, <2>3
  <2>4. [t EXCEPT !.todo = {o \in Orders : mem.ord[o].st = "open"}] \in TaskState
    BY <1>0 DEF TaskState
  <2> QED
    BY <1>0, <1>4, <1>5, <1>15, <1>26, <2>2, <2>3, <2>4 DEF DemoteNext, At
<1>27. CASE DemotedOne
  <2>1. t.pc \in {"demote_cancel_one", "demote_close_one"}
    BY <1>27 DEF DemotedOne, At
  <2>2. CASE t.pc = "demote_cancel_one"
    <3>1. /\ t.o \in Orders /\ mem.ord[t.o].st # "none"
          /\ \A o \in t.todo : o \in Orders /\ mem.ord[o].st # "none"
      BY <1>2, <2>2 DEF OrderPoints, KeepPoints, HaltPoints
    <3>2. PICK m : Knows(m) /\ mem' = m /\ journal' \in {m, journal}
      BY <1>0, <1>20, <1>27, <2>2, <3>1 DEF DemotedOne, Keep, At
    <3>3. PICK v \in TaskState : v.todo = t.todo /\ Goto(c, Run(v, "demote_cancel"))
      BY <1>19, <1>27, <2>2 DEF DemotedOne, At
    <3> QED
      BY <1>6, <3>1, <3>2, <3>3
  <2>3. CASE t.pc = "demote_close_one"
    BY <1>0, <1>4, <1>15, <1>19, <1>27, <2>3 DEF DemotedOne, At
  <2> QED
    BY <2>1, <2>2, <2>3
<1> QED
  BY <1>9, <1>10, <1>11, <1>12, <1>13, <1>14, <1>16, <1>18, <1>21, <1>22, <1>23, <1>24, <1>26, <1>27
  DEF ControlSteps

-----------------------------------------------------------------------------
(* How a ticket's state may change: it is made by a placement only, an order of the market does
   not rest, and a position was an order or was placed. *)
Moves(placed, i) ==
    /\ ticket'[i].st # "none" => ticket[i].st # "none" \/ placed
    /\ ticket'[i].st = "order" => ticket[i].st = "order" \/ (placed /\ i[1] \in Resting)
    /\ ticket'[i].st = "position" => ticket[i].st \in Live \/ placed

(* By a call... *)
LEMMA ServeMoves ==
    ASSUME TypeInv, NEW c \in Tasks, Serve(c), NEW j \in Tickets
    PROVE  Moves(task[c].op = "place" /\ j = <<task[c].o, task[c].k>>, j)
<1> DEFINE op == task[c].op
           i == <<task[c].o, task[c].k>>
           sl == task[c].sl
<1>0. ticket \in [Tickets -> [st : TicketStates, sl : 0..MaxSl]]
  BY DEF TypeInv, TypeOK, BrokerTypeOK
<1>1. CASE UNCHANGED ticket
  BY <1>1 DEF Moves, Live
<1>2. ASSUME NEW a, Apply(op, i, sl, a) PROVE Moves(op = "place" /\ j = i, j)
  <2> HIDE DEF op, i, sl
  <2>1. CASE op = "place" /\ Place(i, sl, a)
    BY <1>0, <2>1 DEF Place, Fill, OpenAs, Moves, Live
  <2>2. CASE op = "modify" /\ Modify(i, sl, a)
    <3>1. ASSUME ticket' = [ticket EXCEPT ![i].sl = sl] PROVE ticket'[j].st = ticket[j].st
      BY <1>0, <3>1
    <3> QED
      BY <2>2, <3>1 DEF Modify, Moves, Live
  <2>3. CASE op = "cancel" /\ Cancel(i, a)
    BY <1>0, <2>3 DEF Cancel, Moves, Live
  <2>4. CASE op = "close" /\ ClosePosition(i, a)
    BY <1>0, <2>4 DEF ClosePosition, CloseAt, Moves, Live
  <2>5. CASE UNCHANGED ticket
    BY <2>5 DEF Moves, Live
  <2> QED
    BY <1>2, <2>1, <2>2, <2>3, <2>4, <2>5 DEF Apply
<1> QED
  BY <1>1, <1>2 DEF Serve

(* ...and by the broker itself. *)
LEMMA BrokerMoves ==
    ASSUME TypeInv, BrokerNext, NEW j \in Tickets
    PROVE  Moves(FALSE, j)
<1>0. ticket \in [Tickets -> [st : TicketStates, sl : 0..MaxSl]]
  BY DEF TypeInv, TypeOK, BrokerTypeOK
<1>1. ASSUME NEW i \in Tickets, Trigger(i) PROVE Moves(FALSE, j)
  BY <1>0, <1>1 DEF Trigger, Fill, OpenAs, Moves, Live
<1>2. ASSUME NEW i \in Tickets, StopOut(i) PROVE Moves(FALSE, j)
  BY <1>0, <1>2 DEF StopOut, CloseAt, Moves, Live
<1>3. ASSUME NEW i \in Tickets, Expire(i) PROVE Moves(FALSE, j)
  BY <1>0, <1>3 DEF Expire, Moves, Live
<1>4. ASSUME NEW o \in Orders, Elapse(o) PROVE Moves(FALSE, j)
  BY <1>4 DEF Elapse, Moves, Live
<1> QED
  BY <1>1, <1>2, <1>3, <1>4 DEF BrokerNext

(* A served call is one of a task that goes on as it was, with its answer. *)
LEMMA ServeKeeps ==
    ASSUME TypeInv, NEW c \in Tasks, Serve(c)
    PROVE  \E a : LET u == [task[c] EXCEPT !.ans = a] IN
           /\ Goto(c, u) /\ task'[c] = u /\ u.ans = a
           /\ a \in Answers(task[c].op) \/ a = Lost
           /\ u.pc = task[c].pc /\ u.o = task[c].o /\ u.n = task[c].n /\ u.todo = task[c].todo
<1>1. task \in [Tasks -> TaskState] /\ task[c] \in TaskState
  BY Holds DEF TypeInv, TypeOK
<1>2. PICK a : Goto(c, [task[c] EXCEPT !.ans = a]) /\ (a \in Answers(task[c].op) \/ a = Lost)
  BY DEF Serve
<1> DEFINE u == [task[c] EXCEPT !.ans = a]
<1>3. u.ans = a /\ u.pc = task[c].pc /\ u.o = task[c].o /\ u.n = task[c].n /\ u.todo = task[c].todo
  BY <1>1 DEF TaskState
<1>4. task'[c] = u
  BY <1>1, <1>2 DEF Goto
<1> QED
  BY <1>2, <1>3, <1>4

(* A ticket that is new at the broker is one whose order is saved. *)
LEMMA RecordedServe ==
    ASSUME TypeInv, Recorded, NEW c \in Tasks, Serve(c)
    PROVE  Recorded'
<1> DEFINE t == task[c]
<1>0. /\ t \in TaskState /\ TaskShape(c, t, mem, Len(deals), acked) /\ HoldsKnown(t, mem)
      /\ task \in [Tasks -> TaskState] /\ UNCHANGED <<mem, journal>>
  BY Holds DEF Recorded, TypeInv, TypeOK, Serve
<1>1. PICK a : LET u == [t EXCEPT !.ans = a]
               IN  Goto(c, u) /\ task'[c] = u /\ u.pc = t.pc /\ u.o = t.o /\ u.todo = t.todo
  BY ServeKeeps
<1>2. ASSUME NEW d \in Tasks PROVE HoldsKnown(task'[d], mem')
  <2>1. CASE d = c
    BY <1>0, <1>1, <2>1 DEF HoldsKnown
  <2>2. CASE d # c
    BY <1>0, <1>1, <2>2 DEF Goto, Recorded
  <2> QED
    BY <2>1, <2>2
<1>3. ASSUME NEW i \in Tickets, ticket'[i].st # "none" PROVE journal'.ord[i[1]].st # "none"
  <2>1. ticket[i].st # "none" \/ (t.op = "place" /\ i = <<t.o, t.k>>)
    BY <1>3, ServeMoves DEF Moves
  <2>2. CASE ticket[i].st # "none"
    BY <1>0, <2>2 DEF Recorded, WriteAhead
  <2>3. CASE t.op = "place" /\ i[1] = t.o
    <3>1. t.o \in Orders /\ mem.ord[t.o].st # "none"
      BY <1>0, <2>3 DEF TaskShape, HoldsKnown, SendPoints, OrderPoints
    <3> QED
      BY <1>0, <2>3, <3>1 DEF Recorded
  <2> QED
    BY <2>1, <2>2, <2>3
<1> QED
  BY <1>0, <1>2, <1>3 DEF Recorded, WriteAhead, ConsumedOnDisk

(* The rest: the broker by itself, a crash, publishing. *)
LEMMA RecordedRest ==
    ASSUME TypeInv, Recorded,
           \/ BrokerNext /\ UNCHANGED omVars
           \/ Flush
           \/ Crash
           \/ CrashInExecute
           \/ UNCHANGED vars
    PROVE  Recorded'
<1>0. mem \in ExecState /\ mem.seq \in Nat
  BY DEF TypeInv, TypeOK, ExecState
<1>1. CASE BrokerNext /\ UNCHANGED omVars
  <2>1. WriteAhead'
    BY <1>1, BrokerMoves DEF Moves, Recorded, WriteAhead, omVars
  <2> QED
    BY <1>1, <2>1 DEF Recorded, ConsumedOnDisk, HoldsKnown, omVars
<1>2. CASE Flush \/ UNCHANGED vars
  BY <1>2 DEF Flush, Recorded, WriteAhead, ConsumedOnDisk, vars, omVars, brokerVars
<1>3. ASSUME task' = [c \in Tasks |-> Idle] PROVE \A c \in Tasks : HoldsKnown(task'[c], mem')
  BY <1>3, IdleType, PlainPoint DEF SendPoints, KeepPoints
<1>4. CASE Crash
  <2>1. mem' = journal /\ journal' = journal /\ ticket' = ticket
    BY <1>4 DEF Crash, brokerVars
  <2>2. ConsumedOnDisk'
    BY <2>1 DEF Recorded, ConsumedOnDisk
  <2> QED
    BY <1>3, <1>4, <2>1, <2>2 DEF Recorded, WriteAhead, Crash
<1>5. CASE CrashInExecute
  <2> DEFINE n == NextDecision
  <2>1. journal' = [mem EXCEPT !.seq = n] /\ mem' = journal' /\ ticket' = ticket
        /\ n \in Nat /\ n > mem.seq
    BY <1>5, NewDecision DEF CrashInExecute, brokerVars, Admissible
  <2> HIDE DEF n
  <2>2. journal'.seq = n /\ journal'.ord = mem.ord
    BY <1>0, <2>1 DEF ExecState
  <2>3. ConsumedOnDisk'
    <3>1. ASSUME NEW o \in Orders, mem'.ord[o].st # "none"
          PROVE  \E k \in 1..journal'.seq : k <= Len(Decisions) /\ Decisions[k] = o
      <4>1. PICK k \in 1..mem.seq : k <= Len(Decisions) /\ Decisions[k] = o
        BY <2>1, <2>2, <3>1 DEF Recorded, ConsumedOnDisk
      <4>2. k \in 1..journal'.seq
        BY <1>0, <2>1, <2>2
      <4> QED
        BY <4>1, <4>2
    <3> QED
      BY <3>1 DEF ConsumedOnDisk
  <2>4. WriteAhead'
    <3>1. ASSUME NEW i \in Tickets, ticket'[i].st # "none" PROVE journal'.ord[i[1]].st # "none"
      <4>1. i[1] \in Orders
        BY DEF Tickets
      <4> QED
        BY <2>1, <2>2, <3>1, <4>1 DEF Recorded, WriteAhead
    <3> QED
      BY <3>1 DEF WriteAhead
  <2> QED
    BY <1>3, <1>5, <2>1, <2>3, <2>4 DEF Recorded, CrashInExecute
<1> QED
  BY <1>1, <1>2, <1>4, <1>5

(* Nothing is known at the start, in memory or at the broker. *)
LEMMA RecordedInit == Init => Recorded
<1> SUFFICES ASSUME Init PROVE Recorded
  OBVIOUS
<1>1. /\ mem.ord = [o \in Orders |-> Untracked] /\ journal = mem /\ Untracked.st = "none"
      /\ \A i \in Tickets : ticket[i].st = "none"
      /\ \A c \in Tasks : task[c] = Idle
  BY DEF Init, BrokerInit, Untracked
<1>2. \A c \in Tasks : HoldsKnown(task[c], mem)
  BY <1>1, IdleType, PlainPoint DEF SendPoints, KeepPoints
<1> QED
  BY <1>1, <1>2 DEF Recorded, WriteAhead, ConsumedOnDisk

(* With the types, what memory and journal have in common is inductive. *)
LEMMA RecordedNext == TypeInv /\ Recorded /\ [Next]_vars => Recorded'
<1> SUFFICES ASSUME TypeInv, Recorded, [Next]_vars PROVE Recorded'
  OBVIOUS
<1>1. TypeInv'
  BY TypeNext
<1> QED
  BY <1>1, RecordedServe, RecordedDecisions, RecordedConfirm, RecordedCycle, RecordedControl, RecordedRest
  DEF Next

(* Whatever the broker holds, the saved journal has an order for it: no crash at any point of
   execute, _send or confirm_stop leaves a ticket that a restart does not know. *)
THEOREM JournalledFirst == Spec => []WriteAhead
<1>1. TypeInv /\ Recorded => WriteAhead
  BY DEF Recorded
<1> QED
  BY <1>1, TypeInit, TypeNext, RecordedInit, RecordedNext, PTL DEF Spec

(* A decision that made an order is consumed on disk: its redelivery is refused as a replay. *)
THEOREM NeverReplayed == Spec => []ConsumedOnDisk
<1>1. TypeInv /\ Recorded => ConsumedOnDisk
  BY DEF Recorded
<1> QED
  BY <1>1, TypeInit, TypeNext, RecordedInit, RecordedNext, PTL DEF Spec

-----------------------------------------------------------------------------
(* No double exposure.  A market order is a position by a placement only, so what the search
   saw holds until the placement. *)
LEMMA OneLiveStays ==
    ASSUME TypeInv, OneLive, \A i \in Tickets : Moves(FALSE, i)
    PROVE  /\ OneLive'
           /\ \A o \in Orders \ Resting : \A k \in Attempts :
                 ticket'[<<o, k>>].st = "position" => ticket[<<o, k>>].st = "position"
<1>1. ASSUME NEW o \in Orders \ Resting, NEW k \in Attempts
      PROVE  /\ ticket'[<<o, k>>].st # "order"
             /\ ticket'[<<o, k>>].st = "position" => ticket[<<o, k>>].st = "position"
  <2>0. <<o, k>> \in Tickets
    BY DEF Tickets
  <2>1. Moves(FALSE, <<o, k>>)
    BY <2>0, Zenon
  <2>2. ticket[<<o, k>>].st # "order"
    BY DEF OneLive
  <2> QED
    BY <2>1, <2>2 DEF Moves, Live
<1>2. 1 \in Attempts /\ 2 \in Attempts
  BY DEF Attempts
<1>3. OneLive'
  BY <1>1, <1>2 DEF OneLive
<1> QED
  BY <1>1, <1>3

(* Other tasks and the broker do not undo what the search has ruled out. *)
LEMMA SearchedStays ==
    ASSUME TypeInv, OneLive, Searched, \A i \in Tickets : Moves(FALSE, i),
           task'["decisions"] = task["decisions"]
    PROVE  Searched' /\ OneLive'
<1> DEFINE t == task["decisions"]
<1>1. \A s : Saw("decisions", t.o, s) <=> Saw("decisions", t.o, s)'
  BY DEF Saw
<1>2. t.pc \in SendPoints => t.o \in Orders
  <2>1. "decisions" \in Tasks
    BY DEF Tasks
  <2> QED
    BY <2>1, Holds DEF TaskShape, OrderPoints
<1>3. t.o \in Orders => Moves(FALSE, <<t.o, 1>>) /\ Moves(FALSE, <<t.o, 2>>)
  <2>1. t.o \in Orders => <<t.o, 1>> \in Tickets /\ <<t.o, 2>> \in Tickets
    BY DEF Tickets, Attempts
  <2> QED
    BY <2>1, Zenon
<1>4. Searched'
  <2>1. ASSUME t.pc \in SendPoints, t.n = 1 PROVE ticket'[<<t.o, 2>>].st = "none"
    BY <1>2, <1>3, <2>1 DEF Searched, Moves
  <2>2. ASSUME t.pc \in SendPoints, t.o \notin Resting, ticket[<<t.o, 1>>].st # "position"
        PROVE  ticket'[<<t.o, 1>>].st # "position"
    <3>1. t.o \in Orders \ Resting /\ 1 \in Attempts
      BY <1>2, <2>2 DEF Attempts
    <3> QED
      BY <2>2, <3>1, OneLiveStays
  <2> QED
    BY <1>1, <2>1, <2>2 DEF Searched
<1> QED
  BY <1>4, OneLiveStays

(* Where no ticket moves. *)
LEMMA NothingMoves == UNCHANGED ticket => \A i \in Tickets : Moves(FALSE, i)
  BY DEF Moves, Live

(* The broker serves a call: only a placement of the decisions reader makes a market position. *)
LEMMA SearchedServe ==
    ASSUME TypeInv, OneLive, Searched, NEW c \in Tasks, Serve(c)
    PROVE  Searched' /\ OneLive'
<1> DEFINE t == task[c]
<1>0. /\ t \in TaskState /\ TaskShape(c, t, mem, Len(deals), acked)
      /\ task \in [Tasks -> TaskState] /\ t.ans = NoAnswer
      /\ ticket \in [Tickets -> [st : TicketStates, sl : 0..MaxSl]]
  BY Holds DEF TypeInv, TypeOK, BrokerTypeOK, Serve
<1>1. t.op = "place" => c = "decisions" /\ t.pc = "place" /\ t.k = t.n /\ t.n \in Attempts /\ t.o \in Orders
  BY <1>0 DEF TaskShape, SendPoints, OrderPoints
<1>2. PICK a : LET u == [t EXCEPT !.ans = a]
               IN  /\ Goto(c, u) /\ task'[c] = u /\ u.ans = a
                   /\ a \in Answers(t.op) \/ a = Lost
                   /\ u.pc = t.pc /\ u.o = t.o /\ u.n = t.n
  BY ServeKeeps
<1>3. CASE c # "decisions"
  <2>1. task'["decisions"] = task["decisions"]
    BY <1>0, <1>2, <1>3 DEF Goto, Tasks
  <2>2. \A i \in Tickets : Moves(FALSE, i)
    BY <1>1, <1>3, ServeMoves
  <2> QED
    BY <2>1, <2>2, SearchedStays
<1>4. CASE c = "decisions" /\ t.op # "place"
  <2>1. \A i \in Tickets : Moves(FALSE, i)
    BY <1>4, ServeMoves
  <2>2. t.pc \in SendPoints => t.o \in Orders /\ <<t.o, 1>> \in Tickets /\ <<t.o, 2>> \in Tickets
    BY <1>0 DEF TaskShape, OrderPoints, Tickets, Attempts
  <2>3. ASSUME t.pc = "find_position", a # Lost, ticket[<<t.o, 1>>].st = "position", t.o \in Orders
        PROVE  Saw("decisions", t.o, 1)'
    <3>1. t.op = "open_positions"
      BY <1>0, <2>3 DEF TaskShape
    <3>2. a.saw = Held("position")
      BY <1>2, <2>3, <3>1 DEF Answers, Answer
    <3>3. <<<<t.o, 1>>, ticket[<<t.o, 1>>].sl>> \in a.saw /\ ticket[<<t.o, 1>>].sl \in 0..MaxSl
      BY <1>0, <2>2, <2>3, <3>2 DEF Held, SendPoints
    <3>4. task'["decisions"].ans.saw = a.saw /\ task'["decisions"].o = t.o
      BY <1>2, <1>4
    <3>5. \E s \in 0..MaxSl : <<<<t.o, 1>>, s>> \in task'["decisions"].ans.saw
      BY <3>3, <3>4
    <3> QED
      BY <1>4, <3>4, <3>5 DEF Saw
  <2>4. ASSUME t.pc \in SendPoints, t.n = 1 PROVE ticket'[<<t.o, 2>>].st = "none"
    BY <1>4, <2>1, <2>2, <2>4 DEF Searched, Moves
  <2>5. ASSUME t.pc \in SendPoints, t.o \notin Resting, ticket'[<<t.o, 1>>].st = "position"
        PROVE  ticket[<<t.o, 1>>].st = "position"
    <3>1. t.o \in Orders \ Resting /\ 1 \in Attempts
      BY <2>2, <2>5 DEF Attempts
    <3> QED
      BY <2>1, <2>5, <3>1, OneLiveStays
  <2>6. a # NoAnswer
    BY <1>2 DEF Answers, Answer, Ack, Nack, Lost, NoAnswer
  <2>7. Searched'
    <3> DEFINE u == task'["decisions"]
    <3>1. u.pc = t.pc /\ u.o = t.o /\ u.n = t.n /\ u.ans = a
      BY <1>2, <1>4
    <3>2. ASSUME t.pc \in SendPoints, t.n = 2, t.o \notin Resting, ticket'[<<t.o, 1>>].st = "position"
          PROVE  t.pc = "place" \/ (t.pc = "find_position" /\ (a = Lost \/ Saw("decisions", task["decisions"].o, 1)'))
      <4>1. ticket[<<t.o, 1>>].st = "position" /\ t.o \in Orders
        BY <2>2, <2>5, <3>2
      <4>2. t.pc \in {"place", "find_position"}
        BY <1>4, <3>2, <4>1 DEF Searched
      <4>3. ASSUME t.pc = "find_position", a # Lost PROVE Saw("decisions", task["decisions"].o, 1)'
        <5>1. Saw("decisions", t.o, 1)'
          BY <2>3, <4>1, <4>3
        <5> QED
          BY <1>4, <5>1
      <4> QED
        BY <4>2, <4>3
    <3> HIDE DEF u
    <3> QED
      BY <1>4, <2>4, <2>6, <3>1, <3>2 DEF Searched, u
  <2> QED
    BY <2>1, <2>7, OneLiveStays
<1>5. CASE t.op = "place"
  <2>1. /\ c = "decisions" /\ t.pc = "place" /\ t.k = t.n /\ t.n \in Attempts /\ t.o \in Orders
        /\ t.pc \in SendPoints
    BY <1>1, <1>5 DEF SendPoints
  <2>2. \A i \in Tickets : Moves(i = <<t.o, t.n>>, i)
    BY <1>5, <2>1, ServeMoves
  <2>3. a # NoAnswer
    BY <1>2 DEF Answers, Answer, Ack, Nack, Lost, NoAnswer
  <2>4. t.n = 1 => ticket[<<t.o, 2>>].st = "none" /\ ticket'[<<t.o, 2>>].st = "none"
    <3>1. <<t.o, 2>> \in Tickets
      BY <2>1 DEF Tickets, Attempts
    <3>2. Moves(<<t.o, 2>> = <<t.o, t.n>>, <<t.o, 2>>)
      BY <2>2, <3>1, Zenon
    <3>3. t.n = 1 => <<t.o, 2>> # <<t.o, t.n>>
      OBVIOUS
    <3> QED
      BY <2>1, <3>2, <3>3 DEF Searched, Moves
  <2>5. t.n = 2 /\ t.o \notin Resting => ticket[<<t.o, 1>>].st # "position"
    BY <1>0, <2>1 DEF Searched
  <2>6. Searched'
    BY <1>2, <2>1, <2>3, <2>4 DEF Searched
  <2>7. ASSUME NEW o \in Orders \ Resting
        PROVE  /\ \A k \in Attempts : ticket'[<<o, k>>].st # "order"
               /\ ~(ticket'[<<o, 1>>].st = "position" /\ ticket'[<<o, 2>>].st = "position")
    <3>1. ASSUME NEW k \in Attempts
          PROVE  /\ ticket[<<o, k>>].st # "order" /\ ticket'[<<o, k>>].st # "order"
                 /\ ticket'[<<o, k>>].st = "position" =>
                      ticket[<<o, k>>].st = "position" \/ (o = t.o /\ k = t.n)
      <4>0. <<o, k>> \in Tickets
        BY DEF Tickets
      <4>1. Moves(<<o, k>> = <<t.o, t.n>>, <<o, k>>)
        BY <2>2, <4>0, Zenon
      <4>2. ticket[<<o, k>>].st # "order"
        BY DEF OneLive
      <4> QED
        BY <4>1, <4>2 DEF Moves, Live
    <3>2. 1 \in Attempts /\ 2 \in Attempts /\ t.n \in {1, 2}
      BY <2>1 DEF Attempts
    <3>3. ~(ticket[<<o, 1>>].st = "position" /\ ticket[<<o, 2>>].st = "position")
      BY DEF OneLive
    <3> QED
      BY <2>4, <2>5, <3>1, <3>2, <3>3
  <2>8. OneLive'
    BY <2>7 DEF OneLive
  <2> QED
    BY <2>6, <2>8
<1> QED
  BY <1>3, <1>4, <1>5

(* The reader of DECISIONS places only when neither search found the order. *)
LEMMA SearchedDecisions ==
    ASSUME TypeInv, Recorded, OneLive, Searched, DecisionSteps
    PROVE  Searched' /\ OneLive'
<1> DEFINE c == "decisions"
           t == task[c]
<1>0. /\ c \in Tasks /\ t \in TaskState /\ TaskShape(c, t, mem, Len(deals), acked)
      /\ task \in [Tasks -> TaskState]
  BY Holds DEF Tasks, TypeInv, TypeOK
<1>1. UNCHANGED ticket
  BY DEF DecisionSteps, DropDecision, RefuseEntry, Execute, Retry, FoundPosition, FoundOrder, Placed,
         Quiet, brokerVars
<1>2. /\ OneLive'
      /\ UNCHANGED task => Searched'
  <2>1. \A i \in Tickets : Moves(FALSE, i)
    BY <1>1, NothingMoves
  <2> QED
    BY <2>1, OneLiveStays, SearchedStays
<1>3. \A u : Goto(c, u) => task'[c] = u
  BY <1>0 DEF Goto
<1>4. ASSUME NEW u, Goto(c, u), u.pc \in {"idle", "confirm"} PROVE Searched'
  BY <1>3, <1>4 DEF Searched, SendPoints
<1>5. Idle.pc = "idle" /\ \A o : ConfirmStop(t, o, "idle").pc = "confirm"
  BY <1>0, MovesTo
<1>6. CASE Execute
  <2> DEFINE o == Decisions[NextDecision]
             i == [Idle EXCEPT !.o = o, !.n = 1]
             u == Await(i, "find_position", "open_positions", 0, 0)
  <2>1. DecisionWaits /\ mem.ord[o].st = "none" /\ Goto(c, u)
    BY <1>6 DEF Execute, Admissible
  <2>2. o \in Orders
    BY <2>1, NewDecision
  <2>3. i \in TaskState /\ i.o = o /\ i.n = 1
    BY <2>2, IdleType DEF TaskState
  <2>4. <<o, 2>> \in Tickets /\ <<o, 2>>[1] = o
    BY <2>2 DEF Tickets, Attempts
  <2>5. ticket[<<o, 2>>].st = "none"
    BY <2>1, <2>2, <2>4 DEF Recorded, WriteAhead
  <2> HIDE DEF i, o
  <2>6. u.pc = "find_position" /\ u.o = o /\ u.n = 1
    BY <2>3, MovesTo DEF Await, TaskState
  <2>7. task'[c] = u
    BY <1>3, <2>1
  <2> HIDE DEF u
  <2> QED
    BY <1>1, <1>2, <2>5, <2>6, <2>7 DEF Searched
<1>7. CASE Retry
  <2>1. CASE Goto(c, Await([t EXCEPT !.n = 2], "find_position", "open_positions", 0, 0))
    <3> DEFINE i == [t EXCEPT !.n = 2]
               u == Await(i, "find_position", "open_positions", 0, 0)
    <3>1. i \in TaskState /\ i.n = 2
      BY <1>0 DEF TaskState
    <3>2. task'[c] = u
      BY <1>3, <2>1
    <3> HIDE DEF i
    <3>3. u.pc = "find_position" /\ u.n = 2 /\ u.ans = NoAnswer
      BY <3>1 DEF Await, TaskState
    <3> HIDE DEF u
    <3> QED
      BY <1>2, <3>2, <3>3 DEF Searched
  <2>2. CASE Done(c)
    BY <1>2, <1>4, <1>5, <2>2 DEF Done
  <2> QED
    BY <1>7, <2>1, <2>2 DEF Retry
<1>8. ASSUME NEW pc \in {"find_order", "place"}, NEW op, NEW k, NEW sl, Goto(c, Await(t, pc, op, k, sl)),
             t.pc \in SendPoints,
             t.n = 2 /\ t.o \notin Resting => ticket[<<t.o, 1>>].st # "position"
      PROVE  Searched'
  <2> DEFINE u == Await(t, pc, op, k, sl)
  <2>1. u.pc = pc /\ u.o = t.o /\ u.n = t.n
    BY <1>0 DEF Await, TaskState
  <2>2. task'[c] = u
    BY <1>3, <1>8
  <2> HIDE DEF u
  <2> QED
    BY <1>1, <1>8, <2>1, <2>2 DEF Searched
<1>9. CASE FoundPosition
  <2>1. t.pc = "find_position" /\ t.ans # Lost /\ t.ans # NoAnswer
    BY <1>9 DEF FoundPosition, At, Internal
  <2>2. CASE /\ \A k \in Attempts : ~Saw(c, t.o, k)
             /\ Goto(c, Await(t, "find_order", "pending_orders", 0, 0))
    <3>1. ~Saw(c, t.o, 1)
      BY <2>2 DEF Attempts
    <3>2. t.n = 2 /\ t.o \notin Resting => ticket[<<t.o, 1>>].st # "position"
      BY <2>1, <3>1 DEF Searched, SendPoints
    <3> QED
      BY <1>2, <1>8, <2>1, <2>2, <3>2 DEF SendPoints
  <2>3. CASE Goto(c, ConfirmStop(t, t.o, "idle"))
    BY <1>2, <1>4, <1>5, <2>3
  <2> QED
    BY <1>2, <1>9, <2>2, <2>3 DEF FoundPosition
<1>10. CASE FoundOrder
  <2>1. t.pc = "find_order"
    BY <1>10 DEF FoundOrder, At
  <2>2. CASE Goto(c, Await(t, "place", "place", t.n, mem.ord[t.o].sl))
    <3>1. t.n = 2 /\ t.o \notin Resting => ticket[<<t.o, 1>>].st # "position"
      BY <2>1 DEF Searched, SendPoints
    <3> QED
      BY <1>2, <1>8, <2>1, <2>2, <3>1 DEF SendPoints
  <2>3. CASE Done(c)
    BY <1>2, <1>4, <1>5, <2>3 DEF Done
  <2> QED
    BY <1>2, <1>10, <2>2, <2>3 DEF FoundOrder
<1>11. CASE Placed
  BY <1>2, <1>4, <1>5, <1>11 DEF Placed, Done
<1>12. CASE DropDecision \/ RefuseEntry
  BY <1>2, <1>12 DEF DropDecision, RefuseEntry
<1> QED
  BY <1>2, <1>6, <1>7, <1>9, <1>10, <1>11, <1>12 DEF DecisionSteps

(* The other tasks neither place nor search. *)
LEMMA SearchedOthers ==
    ASSUME TypeInv, OneLive, Searched, CycleSteps \/ ControlSteps \/ ConfirmSteps("cycle")
    PROVE  Searched' /\ OneLive'
<1>0. task \in [Tasks -> TaskState] /\ \A c \in {"cycle", "control"} : c \in Tasks
  BY DEF TypeInv, TypeOK, Tasks
<1>1. \A c \in {"cycle", "control"} : \A u : Goto(c, u) => task'["decisions"] = task["decisions"]
  BY <1>0 DEF Goto, Tasks
<1>2. UNCHANGED ticket
  BY DEF ControlSteps, Halt, RequestCancel, RequestClose, RequestTighten, Demote, StartControl,
         ControlLost, GotList, CancelNext, CancelledOne, CloseNext, ClosedOne, RequestDone,
         DemoteNext, DemotedOne, CycleSteps, StartCycle, CycleLost, GotDeals, ApplyDeal,
         DealsApplied, ExpireNext, ExpireCancelled, ExpireChecked, ExpireDone, StopsNext,
         ConfirmSteps, StopSeen, StopAsked, StopChecked, StopClosed, Quiet, brokerVars
<1>3. ASSUME CycleSteps PROVE task'["decisions"] = task["decisions"]
  BY <1>1, <1>3 DEF CycleSteps, StartCycle, CycleLost, GotDeals, ApplyDeal, DealsApplied, ExpireNext,
     ExpireCancelled, ExpireChecked, ExpireDone, StopsNext, Expired, Done
<1>4. ASSUME ConfirmSteps("cycle") PROVE task'["decisions"] = task["decisions"]
  BY <1>1, <1>4 DEF ConfirmSteps, StopSeen, StopAsked, StopChecked, StopClosed, Return, Done, AskStop
<1>5. ASSUME ControlSteps PROVE task'["decisions"] = task["decisions"]
  BY <1>1, <1>5 DEF ControlSteps, Halt, RequestCancel, RequestClose, RequestTighten, Demote,
     ControlLost, GotList, CancelNext, CancelledOne, CloseNext, ClosedOne, RequestDone,
     DemoteNext, DemotedOne, Done
<1> QED
  BY <1>2, <1>3, <1>4, <1>5, NothingMoves, SearchedStays

(* confirm_stop in the decisions reader does not go back to _send. *)
LEMMA SearchedConfirm ==
    ASSUME TypeInv, OneLive, Searched, ConfirmSteps("decisions")
    PROVE  Searched' /\ OneLive'
<1> DEFINE c == "decisions"
           t == task[c]
<1>0. /\ c \in Tasks /\ t \in TaskState /\ TaskShape(c, t, mem, Len(deals), acked)
      /\ task \in [Tasks -> TaskState]
  BY Holds DEF Tasks, TypeInv, TypeOK
<1>1. UNCHANGED ticket
  BY DEF ConfirmSteps, StopSeen, StopAsked, StopChecked, StopClosed, Quiet, brokerVars
<1>2. OneLive'
  BY <1>1, NothingMoves, OneLiveStays
<1>3. ASSUME NEW u, Goto(c, u), u.pc \notin SendPoints PROVE Searched'
  BY <1>0, <1>3 DEF Searched, Goto
<1>4. ASSUME Return(c) PROVE Searched'
  <2>1. CASE t.ret = "idle"
    BY <1>3, <1>4, <2>1, IdleType DEF Return, Done, SendPoints
  <2>2. CASE t.ret # "idle"
    <3> DEFINE v == [t EXCEPT !.ret = "idle", !.o = NoOrder, !.tries = 0]
               u == Run(v, t.ret)
    <3>1. Goto(c, u)
      BY <1>4, <2>2 DEF Return
    <3>2. "idle" \in {"idle"} \union Internal /\ NoOrder \in Orders \union {NoOrder} /\ 0 \in 0..2
      OBVIOUS
    <3>3. v \in TaskState
      BY <1>0, <3>2 DEF TaskState
    <3> HIDE DEF v
    <3>4. u.pc = t.ret /\ t.ret \in {"apply_deal", "stops_next"}
      BY <1>0, <2>2, <3>3, MovesTo DEF TaskShape
    <3> HIDE DEF u
    <3> QED
      BY <1>3, <3>1, <3>4 DEF SendPoints
  <2> QED
    BY <2>1, <2>2
<1>5. ASSUME NEW v \in TaskState, NEW pc \in ConfirmPoints, NEW op, NEW k, NEW sl,
             Goto(c, Await(v, pc, op, k, sl))
      PROVE  Searched'
  <2> DEFINE u == Await(v, pc, op, k, sl)
  <2>1. u.pc = pc /\ Goto(c, u)
    BY <1>5, MovesTo
  <2> HIDE DEF u
  <2> QED
    BY <1>3, <2>1 DEF ConfirmPoints, SendPoints
<1>6. ASSUME NEW v \in TaskState, AskStop(c, v) PROVE Searched'
  BY <1>5, <1>6 DEF AskStop, ConfirmPoints
<1>7. CASE StopSeen(c)
  <2>1. 1 \in 0..2
    OBVIOUS
  <2>2. [t EXCEPT !.tries = 1] \in TaskState
    BY <1>0, <2>1 DEF TaskState
  <2> QED
    BY <1>2, <1>4, <1>6, <1>7, <2>2 DEF StopSeen
<1>8. CASE StopAsked(c)
  BY <1>0, <1>2, <1>5, <1>8 DEF StopAsked, ConfirmPoints
<1>9. CASE StopChecked(c)
  <2>1. t.tries < 2 => t.tries + 1 \in 0..2
    BY <1>0 DEF TaskState
  <2>2. t.tries < 2 => [t EXCEPT !.tries = @ + 1] \in TaskState
    BY <1>0, <2>1 DEF TaskState
  <2> QED
    BY <1>0, <1>2, <1>4, <1>5, <1>6, <1>9, <2>2 DEF StopChecked, ConfirmPoints
<1>10. CASE StopClosed(c)
  BY <1>2, <1>4, <1>10 DEF StopClosed
<1> QED
  BY <1>7, <1>8, <1>9, <1>10 DEF ConfirmSteps

(* The broker by itself, a crash, publishing. *)
LEMMA SearchedRest ==
    ASSUME TypeInv, OneLive, Searched,
           \/ BrokerNext /\ UNCHANGED omVars
           \/ Flush
           \/ Crash
           \/ CrashInExecute
           \/ UNCHANGED vars
    PROVE  Searched' /\ OneLive'
<1>1. CASE BrokerNext /\ UNCHANGED omVars
  BY <1>1, BrokerMoves, SearchedStays DEF omVars
<1>2. CASE Flush \/ UNCHANGED vars
  BY <1>2, NothingMoves, SearchedStays DEF Flush, vars, omVars, brokerVars
<1>3. CASE Crash \/ CrashInExecute
  <2>1. UNCHANGED ticket /\ task' = [c \in Tasks |-> Idle]
    BY <1>3 DEF Crash, CrashInExecute, brokerVars
  <2>2. task'["decisions"].pc = "idle"
    BY <2>1, IdleType DEF Tasks
  <2> QED
    BY <2>1, <2>2, NothingMoves, OneLiveStays DEF Searched, SendPoints
<1> QED
  BY <1>1, <1>2, <1>3

(* Nothing is placed at the start. *)
LEMMA SearchedInit == Init => Searched /\ OneLive
<1> SUFFICES ASSUME Init PROVE Searched /\ OneLive
  OBVIOUS
<1>1. task["decisions"].pc = "idle"
  BY IdleType DEF Init, Tasks
<1>2. \A o \in Orders : \A k \in Attempts : ticket[<<o, k>>].st = "none"
  BY DEF Init, BrokerInit, Tickets
<1>3. 1 \in Attempts
  BY DEF Attempts
<1> QED
  BY <1>1, <1>2, <1>3 DEF Searched, OneLive, SendPoints

(* With the types and the journal, what the search has ruled out is inductive. *)
LEMMA SearchedNext ==
    (TypeInv /\ Recorded /\ Searched /\ OneLive) /\ [Next]_vars => (Searched /\ OneLive)'
<1> SUFFICES ASSUME TypeInv, Recorded, Searched, OneLive, [Next]_vars PROVE Searched' /\ OneLive'
  OBVIOUS
<1> QED
  BY SearchedServe, SearchedDecisions, SearchedConfirm, SearchedOthers, SearchedRest DEF Next

(* The invariant of all the proofs. *)
LEMMA Inductive == /\ Init => IInv
                   /\ IInv /\ [Next]_vars => IInv'
<1>1. Init => IInv
  BY TypeInit, RecordedInit, SearchedInit DEF IInv
<1>2. IInv /\ [Next]_vars => IInv'
  BY TypeNext, RecordedNext, SearchedNext DEF IInv
<1> QED
  BY <1>1, <1>2

(* One intent never has two market positions open at once, whatever is lost, retried, redelivered
   or restarted, and with the tasks interleaved at every await. *)
THEOREM NeverOpenTwice == Spec => []NoDoubleExposure
<1>1. IInv => NoDoubleExposure
  <2> SUFFICES ASSUME OneLive, NEW o \in Orders \ Resting
               PROVE  Cardinality({k \in Attempts : ticket[<<o, k>>].st \in Live}) <= 1
    BY DEF IInv, NoDoubleExposure
  <2> DEFINE S == {k \in Attempts : ticket[<<o, k>>].st \in Live}
  <2>1. PICK k \in Attempts : S \subseteq {k}
    BY DEF OneLive, Attempts, Live
  <2>2. IsFiniteSet({k}) /\ Cardinality({k}) = 1
    BY FS_Singleton
  <2>3. Cardinality(S) <= Cardinality({k})
    BY <2>1, <2>2, FS_Subset
  <2> QED
    BY <2>2, <2>3
<1> QED
  BY <1>1, Inductive, PTL DEF Spec

-----------------------------------------------------------------------------
(* The ticket a decision's task is about to place does not exist. *)
Fresh ==
    LET t == task["decisions"] IN
    t.pc \in {"find_position", "find_order"} \/ (t.pc = "place" /\ t.ans = NoAnswer) =>
        ticket[<<t.o, t.n>>].st = "none"

(* A closing deal is of a closed ticket and the only one of it. *)
Closing(i) == i \in 1..Len(deals) /\ deals[i].entry = "out"
DealsOnce ==
    /\ \A i \in 1..Len(deals) : Closing(i) => ticket[deals[i].tk].st = "closed"
    /\ \A i, j \in 1..Len(deals) : Closing(i) /\ Closing(j) /\ deals[i].tk = deals[j].tk => i = j

(* Memory and journal have counted the same deals, but for those of the sync under way, which is then to save. *)
Syncing(t) == t.pc = "apply_deal" \/ t.ret = "apply_deal"
CountedAlike ==
    LET t == task["cycle"] IN
    /\ journal.seen <= mem.seen /\ mem.seen <= Len(deals)
    /\ Syncing(t) => t.m <= mem.seen
    /\ journal.seen # mem.seen => t.pc = "apply_deal" /\ mem.seen > t.m

(* A trade that was published is of a deal the journal has counted, one that waits of a deal memory has. *)
Traded(o, n) == \E i \in 1..n : Closing(i) /\ deals[i].tk[1] = o
FromDeals ==
    \A o \in Orders :
        /\ trades[o] # 0 => Traded(o, journal.seen)
        /\ o \in outbox => Traded(o, mem.seen)
        /\ Once(o) => trades[o] <= 1 /\ (o \in outbox => trades[o] = 0)

TInv == IInv /\ Fresh /\ DealsOnce /\ CountedAlike /\ FromDeals

-----------------------------------------------------------------------------
LEMMA Known ==
    ASSUME TypeInv
    PROVE  /\ ticket \in [Tickets -> [st : TicketStates, sl : 0..MaxSl]]
           /\ deals \in Seq([tk : Tickets, entry : {"in", "out"}]) /\ Len(deals) \in Nat
           /\ mem \in ExecState /\ journal \in ExecState /\ mem.seen \in Nat /\ journal.seen \in Nat
           /\ task \in [Tasks -> TaskState]
           /\ trades \in [Orders -> 0..2] /\ outbox \in SUBSET Orders
           /\ "decisions" \in Tasks /\ "cycle" \in Tasks /\ "control" \in Tasks
  BY DEF TypeInv, TypeOK, BrokerTypeOK, ExecState, Tasks

LEMMA DealTickets ==
    ASSUME TypeInv, NEW i \in 1..Len(deals)
    PROVE  deals[i].tk \in Tickets /\ deals[i].entry \in {"in", "out"}
<1>1. deals[i] \in [tk : Tickets, entry : {"in", "out"}]
  BY Known, ElementOfSeq
<1> QED
  BY <1>1

(* The log grows at its end, by at most a deal; a closing one closes its ticket. *)
Logged ==
    \/ deals' = deals
    \/ \E d \in [tk : Tickets, entry : {"in", "out"}] :
           /\ deals' = Append(deals, d)
           /\ d.entry = "out" => ticket[d.tk].st = "position" /\ ticket'[d.tk].st = "closed"

(* What does not exist stays so but for a placement, and what is closed stays closed. *)
Stays(placed, i) ==
    /\ ticket[i].st = "none" /\ ~placed => ticket'[i].st = "none"
    /\ ticket[i].st # "none" => ticket'[i].st # "none"
    /\ ticket[i].st = "closed" => ticket'[i].st = "closed"

LEMMA ClosingDeals ==
    ASSUME TypeInv, NEW i \in Tickets
    PROVE  /\ CloseAt(i) /\ ticket[i].st = "position" =>
                  Logged /\ \A j \in Tickets : Stays(FALSE, j)
           /\ \A sl : OpenAs(i, sl) /\ ticket[i].st # "closed" => Logged /\ \A j \in Tickets : Stays(j = i, j)
           /\ \A sl : OpenAs(i, sl) /\ ticket[i].st = "order" => Logged /\ \A j \in Tickets : Stays(FALSE, j)
<1>0. ticket \in [Tickets -> [st : TicketStates, sl : 0..MaxSl]]
  BY Known
<1>1. ASSUME CloseAt(i), ticket[i].st = "position"
      PROVE  Logged /\ \A j \in Tickets : Stays(FALSE, j)
  <2>1. [tk |-> i, entry |-> "out"] \in [tk : Tickets, entry : {"in", "out"}]
    OBVIOUS
  <2>2. ticket'[i].st = "closed" /\ \A j \in Tickets : j # i => ticket'[j] = ticket[j]
    BY <1>0, <1>1 DEF CloseAt
  <2>3. Logged
    BY <1>1, <2>1, <2>2 DEF CloseAt, Logged
  <2> QED
    BY <1>1, <2>2, <2>3 DEF Stays
<1>2. ASSUME NEW sl, OpenAs(i, sl), ticket[i].st # "closed"
      PROVE  /\ Logged /\ \A j \in Tickets : Stays(j = i, j)
             /\ ticket[i].st = "order" => \A j \in Tickets : Stays(FALSE, j)
  <2>1. [tk |-> i, entry |-> "in"] \in [tk : Tickets, entry : {"in", "out"}]
    OBVIOUS
  <2>2. ticket'[i].st = "position" /\ \A j \in Tickets : j # i => ticket'[j] = ticket[j]
    BY <1>0, <1>2 DEF OpenAs
  <2>3. Logged
    BY <1>2, <2>1 DEF OpenAs, Logged
  <2> QED
    BY <1>2, <2>2, <2>3 DEF Stays
<1> QED
  BY <1>1, <1>2

LEMMA ServeLogs ==
    ASSUME TypeInv, Fresh, NEW c \in Tasks, Serve(c)
    PROVE  Logged /\ \A j \in Tickets : Stays(task[c].op = "place" /\ j = <<task[c].o, task[c].k>>, j)
<1> DEFINE op == task[c].op
           i == <<task[c].o, task[c].k>>
           sl == task[c].sl
<1>0. /\ ticket \in [Tickets -> [st : TicketStates, sl : 0..MaxSl]]
      /\ task[c] \in TaskState /\ TaskShape(c, task[c], mem, Len(deals), acked)
  BY Known DEF TypeInv, Shape
<1>1. task[c].op # "none" /\ task[c].ans = NoAnswer
  BY DEF Serve
<1>2. op = "place" => i \in Tickets /\ ticket[i].st = "none"
  <2> SUFFICES ASSUME op = "place" PROVE i \in Tickets /\ ticket[i].st = "none"
    OBVIOUS
  <2>1. task[c].pc = "place" /\ task[c].k = task[c].n /\ c = "decisions" /\ task[c].n \in Attempts /\ task[c].o \in Orders
    BY <1>0 DEF TaskShape, SendPoints, OrderPoints
  <2> QED
    BY <1>1, <2>1 DEF Fresh, Tickets
<1>3. op = "close" => i \in Tickets
  BY <1>0 DEF TaskShape, Tickets
<1>4. CASE UNCHANGED <<ticket, deals>>
  BY <1>4 DEF Logged, Stays
<1>5. ASSUME NEW a, Apply(op, i, sl, a)
      PROVE  Logged /\ \A j \in Tickets : Stays(op = "place" /\ j = i, j)
  <2> HIDE DEF op, i, sl
  <2>1. CASE op = "place" /\ Place(i, sl, a)
    <3>1. CASE OpenAs(i, sl) \/ OpenAs(i, 0)
      BY <1>2, <2>1, <3>1, ClosingDeals
    <3>2. CASE ticket' = [ticket EXCEPT ![i] = [st |-> "order", sl |-> sl]] /\ deals' = deals
      <4>1. ticket'[i].st = "order" /\ \A j \in Tickets : j # i => ticket'[j] = ticket[j]
        BY <1>0, <1>2, <2>1, <3>2
      <4> QED
        BY <1>2, <2>1, <3>2, <4>1 DEF Logged, Stays
    <3>3. CASE UNCHANGED <<ticket, deals>>
      BY <3>3 DEF Logged, Stays
    <3> QED
      BY <2>1, <3>1, <3>2, <3>3 DEF Place, Fill
  <2>2. CASE op = "modify" /\ Modify(i, sl, a)
    <3>1. ASSUME ticket' = [ticket EXCEPT ![i].sl = sl] PROVE \A j \in Tickets : ticket'[j].st = ticket[j].st
      BY <1>0, <3>1
    <3> QED
      BY <2>2, <3>1 DEF Modify, Logged, Stays
  <2>3. CASE op = "cancel" /\ Cancel(i, a)
    <3>1. ASSUME ticket' = [ticket EXCEPT ![i] = [st |-> "gone", sl |-> 0]], ticket[i].st = "order"
          PROVE  \A j \in Tickets : ticket'[j] = ticket[j] \/ (ticket[j].st = "order" /\ ticket'[j].st = "gone")
      BY <1>0, <3>1
    <3> QED
      BY <2>3, <3>1 DEF Cancel, Logged, Stays
  <2>4. CASE op = "close" /\ ClosePosition(i, a)
    <3>1. CASE CloseAt(i) /\ ticket[i].st = "position"
      BY <1>3, <2>4, <3>1, ClosingDeals DEF Stays
    <3>2. CASE UNCHANGED <<ticket, deals>>
      BY <3>2 DEF Logged, Stays
    <3> QED
      BY <2>4, <3>1, <3>2 DEF ClosePosition
  <2>5. CASE UNCHANGED <<ticket, deals>>
    BY <2>5 DEF Logged, Stays
  <2> QED
    BY <1>5, <2>1, <2>2, <2>3, <2>4, <2>5 DEF Apply
<1>6. UNCHANGED <<ticket, deals>> \/ \E a : Apply(op, i, sl, a)
  BY DEF Serve
<1> HIDE DEF op, i, sl
<1>7. Logged /\ \A j \in Tickets : Stays(op = "place" /\ j = i, j)
  BY <1>4, <1>5, <1>6 DEF Logged, Stays
<1> QED
  BY <1>7 DEF op, i

LEMMA BrokerLogs ==
    ASSUME TypeInv, BrokerNext
    PROVE  Logged /\ \A j \in Tickets : Stays(FALSE, j)
<1>0. ticket \in [Tickets -> [st : TicketStates, sl : 0..MaxSl]]
  BY Known
<1>1. ASSUME NEW i \in Tickets, Trigger(i) PROVE Logged /\ \A j \in Tickets : Stays(FALSE, j)
  BY <1>1, ClosingDeals DEF Trigger, Fill
<1>2. ASSUME NEW i \in Tickets, StopOut(i) PROVE Logged /\ \A j \in Tickets : Stays(FALSE, j)
  BY <1>2, ClosingDeals DEF StopOut
<1>3. ASSUME NEW i \in Tickets, Expire(i) PROVE Logged /\ \A j \in Tickets : Stays(FALSE, j)
  BY <1>0, <1>3 DEF Expire, Logged, Stays
<1>4. ASSUME NEW o \in Orders, Elapse(o) PROVE Logged /\ \A j \in Tickets : Stays(FALSE, j)
  BY <1>4 DEF Elapse, Logged, Stays
<1> QED
  BY <1>1, <1>2, <1>3, <1>4 DEF BrokerNext

-----------------------------------------------------------------------------
(* What such a step does to the deals that are there. *)
LEMMA LogGrows ==
    ASSUME TypeInv, Logged
    PROVE  /\ Len(deals') \in Nat /\ Len(deals) <= Len(deals')
           /\ \A i \in 1..Len(deals) : deals'[i] = deals[i]
           /\ \A i \in 1..Len(deals') : i \in 1..Len(deals) \/
                  (/\ i = Len(deals) + 1
                   /\ deals'[i].entry = "out" => deals'[i].tk \in Tickets /\ ticket[deals'[i].tk].st = "position"
                                                 /\ ticket'[deals'[i].tk].st = "closed")
<1>0. deals \in Seq([tk : Tickets, entry : {"in", "out"}])
  BY Known
<1>1. CASE deals' = deals
  BY <1>0, <1>1
<1>2. ASSUME NEW d \in [tk : Tickets, entry : {"in", "out"}], deals' = Append(deals, d),
             d.entry = "out" => ticket[d.tk].st = "position" /\ ticket'[d.tk].st = "closed"
      PROVE  /\ Len(deals') = Len(deals) + 1 /\ deals'[Len(deals) + 1] = d
             /\ \A i \in 1..Len(deals) : deals'[i] = deals[i]
  BY <1>0, <1>2
<1> QED
  BY <1>0, <1>1, <1>2 DEF Logged

LEMMA DealsOnceStays ==
    ASSUME TypeInv, DealsOnce, Logged, \A j \in Tickets : ticket[j].st = "closed" => ticket'[j].st = "closed"
    PROVE  DealsOnce'
<1>0. /\ deals \in Seq([tk : Tickets, entry : {"in", "out"}]) /\ Len(deals) \in Nat
      /\ \A i \in 1..Len(deals) : deals[i].tk \in Tickets
  BY Known, DealTickets
<1>1. ASSUME NEW i \in 1..Len(deals'), deals'[i].entry = "out"
      PROVE  /\ ticket'[deals'[i].tk].st = "closed"
             /\ i \in 1..Len(deals) => deals'[i] = deals[i] /\ Closing(i) /\ ticket[deals[i].tk].st = "closed"
             /\ i \notin 1..Len(deals) => i = Len(deals) + 1 /\ ticket[deals'[i].tk].st = "position"
  BY <1>0, <1>1, LogGrows DEF DealsOnce, Closing
<1>2. ASSUME NEW i \in 1..Len(deals'), NEW j \in 1..Len(deals'),
             deals'[i].entry = "out", deals'[j].entry = "out", deals'[i].tk = deals'[j].tk
      PROVE  i = j
  BY <1>1, <1>2 DEF DealsOnce
<1> QED
  BY <1>1, <1>2 DEF DealsOnce, Closing

LEMMA TradedStays ==
    ASSUME TypeInv, Logged, NEW o, NEW n \in Nat, NEW n2 \in Nat, n <= n2, n <= Len(deals), Traded(o, n)
    PROVE  Traded(o, n2)'
<1>1. PICK i \in 1..n : Closing(i) /\ deals[i].tk[1] = o
  BY DEF Traded
<1>2. i \in 1..Len(deals) /\ i \in 1..Len(deals') /\ deals'[i] = deals[i] /\ i \in 1..n2
  BY <1>1, LogGrows, Known
<1> QED
  BY <1>1, <1>2 DEF Traded, Closing

(* Of an order with one ticket there is one closing deal. *)
LEMMA OneClosing ==
    ASSUME TypeInv, DealsOnce, NEW o \in Orders, Once(o), NEW i, NEW j, Closing(i), Closing(j),
           deals[i].tk[1] = o, deals[j].tk[1] = o
    PROVE  i = j
<1>1. /\ deals[i].tk \in Tickets /\ deals[j].tk \in Tickets
      /\ ticket[deals[i].tk].st = "closed" /\ ticket[deals[j].tk].st = "closed"
  BY DealTickets DEF DealsOnce, Closing
<1>2. PICK k \in Attempts : deals[i].tk = <<o, k>>
  BY <1>1 DEF Tickets
<1>3. PICK l \in Attempts : deals[j].tk = <<o, l>>
  BY <1>1 DEF Tickets
<1>4. k = l
  BY <1>1, <1>2, <1>3 DEF Once, Attempts
<1> QED
  BY <1>2, <1>3, <1>4 DEF DealsOnce, Closing

-----------------------------------------------------------------------------
(* The steps that apply no deal: what was counted, traded and queued stays as it was. *)
Uncounted ==
    LET t == task["cycle"]
        u == task'["cycle"]
    IN  /\ mem'.seen = mem.seen /\ journal'.seen \in {journal.seen, mem.seen}
        /\ trades' = trades /\ outbox' = outbox
        /\ Syncing(u) => u.m <= mem.seen
        /\ t.pc = "apply_deal" => (u.pc = "apply_deal" /\ u.m = t.m) \/ journal'.seen = mem.seen

LEMMA UncountedKeeps ==
    ASSUME TypeInv, DealsOnce, CountedAlike, FromDeals, Uncounted, Logged, \A j \in Tickets : Stays(FALSE, j) \/ Stays(TRUE, j)
    PROVE  DealsOnce' /\ CountedAlike' /\ FromDeals'
<1>0. mem.seen \in Nat /\ journal.seen \in Nat /\ Len(deals) \in Nat
  BY Known
<1>1. DealsOnce'
  BY DealsOnceStays DEF Stays
<1>2. CountedAlike'
  <2> DEFINE t == task["cycle"]
             u == task'["cycle"]
  <2>1. /\ journal.seen <= mem.seen /\ mem.seen <= Len(deals) /\ Len(deals) <= Len(deals') /\ Len(deals') \in Nat
        /\ mem'.seen = mem.seen /\ journal'.seen \in {journal.seen, mem.seen}
        /\ Syncing(u) => u.m <= mem'.seen
        /\ journal'.seen # mem'.seen => u.pc = "apply_deal" /\ mem'.seen > u.m
    BY <1>0, LogGrows DEF CountedAlike, Uncounted
  <2>2. journal'.seen <= mem'.seen /\ mem'.seen <= Len(deals')
    BY <1>0, <2>1
  <2> QED
    BY <2>1, <2>2 DEF CountedAlike, Syncing
<1>3. FromDeals'
  <2> SUFFICES ASSUME NEW o \in Orders
               PROVE  /\ trades'[o] # 0 => Traded(o, journal.seen)'
                      /\ o \in outbox' => Traded(o, mem.seen)'
                      /\ Once(o)' => trades'[o] <= 1 /\ (o \in outbox' => trades'[o] = 0)
    BY DEF FromDeals
  <2>1. Once(o)' => Once(o)
    <3>1. \A k \in Attempts : ticket[<<o, k>>].st # "none" => ticket'[<<o, k>>].st # "none"
      BY DEF Stays, Tickets
    <3> QED
      BY <3>1 DEF Once
  <2>2. journal'.seen \in Nat /\ journal.seen <= journal'.seen /\ journal.seen <= Len(deals)
        /\ mem'.seen = mem.seen /\ mem.seen <= Len(deals) /\ trades' = trades /\ outbox' = outbox
    BY <1>0 DEF Uncounted, CountedAlike
  <2>3. Traded(o, journal.seen) => Traded(o, journal.seen)'
    <3>1. \A n2 : n2 = journal'.seen /\ Traded(o, journal.seen) => Traded(o, n2)'
      BY <1>0, <2>2, TradedStays
    <3> QED
      BY <3>1 DEF Traded, Closing
  <2>4. Traded(o, mem.seen) => Traded(o, mem.seen)'
    <3>1. \A n2 : n2 = mem'.seen /\ Traded(o, mem.seen) => Traded(o, n2)'
      BY <1>0, <2>2, TradedStays
    <3> QED
      BY <3>1 DEF Traded, Closing
  <2> QED
    BY <2>1, <2>2, <2>3, <2>4 DEF FromDeals
<1> QED
  BY <1>1, <1>2, <1>3

(* The same, where the broker and its tickets do not move. *)
LEMMA QuietUncounted ==
    ASSUME TypeInv, DealsOnce, CountedAlike, FromDeals, Uncounted, UNCHANGED <<ticket, deals>>
    PROVE  DealsOnce' /\ CountedAlike' /\ FromDeals'
<1>1. Logged /\ \A j \in Tickets : Stays(FALSE, j)
  BY DEF Logged, Stays
<1> QED
  BY <1>1, UncountedKeeps

LEMMA SeenStays ==
    ASSUME TypeInv
    PROVE  /\ \A o, r : Tracked(o, r).seen = mem.seen
           /\ \A n, o, r : [mem EXCEPT !.seq = n, !.ord[o] = r].seen = mem.seen
           /\ \A n : [mem EXCEPT !.seq = n].seen = mem.seen
  BY Known DEF Tracked, ExecState

(* A task other than the cycle goes on, and what it writes has counted what memory has. *)
LEMMA OtherTask ==
    ASSUME TypeInv, CountedAlike, NEW c \in Tasks, c # "cycle", NEW t, Goto(c, t) \/ UNCHANGED task,
           UNCHANGED <<mem, journal>> \/ (\E m : m.seen = mem.seen /\ (Save(m) \/ Keep(m))),
           trades' = trades, outbox' = outbox
    PROVE  Uncounted
<1>1. task'["cycle"] = task["cycle"]
  BY Known DEF Goto
<1>2. mem'.seen = mem.seen /\ journal'.seen \in {journal.seen, mem.seen}
  BY DEF Save, Keep
<1> QED
  BY <1>1, <1>2 DEF Uncounted, CountedAlike

LEMMA DecisionsUncounted == ASSUME TypeInv, CountedAlike, DecisionSteps PROVE Uncounted /\ UNCHANGED <<ticket, deals>>
<1>0. /\ \A o, r : Tracked(o, r).seen = mem.seen
      /\ \A n, o, r : [mem EXCEPT !.seq = n, !.ord[o] = r].seen = mem.seen
      /\ \A n : [mem EXCEPT !.seq = n].seen = mem.seen
  BY SeenStays
<1>1. "decisions" \in Tasks /\ "decisions" # "cycle"
  BY DEF Tasks
<1>2. UNCHANGED <<ticket, deals>> /\ trades' = trades /\ outbox' = outbox
  BY DEF DecisionSteps, DropDecision, RefuseEntry, Execute, Retry, FoundPosition, FoundOrder, Placed, Quiet, brokerVars
<1>3. \/ UNCHANGED task \/ \E t : Goto("decisions", t)
  BY DEF DecisionSteps, DropDecision, RefuseEntry, Execute, Retry, FoundPosition, FoundOrder, Placed, Done
<1>4. UNCHANGED <<mem, journal>> \/ (\E m : m.seen = mem.seen /\ (Save(m) \/ Keep(m)))
  <2>1. CASE RefuseEntry
    <3>1. PICK n : Save([mem EXCEPT !.seq = n])
      BY <2>1 DEF RefuseEntry
    <3> QED
      BY <1>0, <3>1
  <2>2. CASE Execute
    <3> DEFINE m == [mem EXCEPT !.seq = NextDecision,
                                !.ord[Decisions[NextDecision]] = [Untracked EXCEPT !.st = "sending"]]
    <3>1. Save(m) /\ m.seen = mem.seen
      BY <1>0, <2>2, Zenon DEF Execute
    <3> HIDE DEF m
    <3> QED
      BY <3>1
  <2>3. CASE FoundPosition \/ FoundOrder \/ Placed
    <3>1. UNCHANGED <<mem, journal>> \/ \E o, r : Save(Tracked(o, r))
      BY <2>3 DEF FoundPosition, FoundOrder, Placed
    <3> QED
      BY <1>0, <3>1
  <2>4. CASE DropDecision \/ Retry
    BY <2>4 DEF DropDecision, Retry
  <2> QED
    BY <2>1, <2>2, <2>3, <2>4 DEF DecisionSteps
<1> QED
  BY <1>1, <1>2, <1>3, <1>4, OtherTask

LEMMA ControlUncounted == ASSUME TypeInv, CountedAlike, ControlSteps PROVE Uncounted /\ UNCHANGED <<ticket, deals>>
<1>0. \A o, r : Tracked(o, r).seen = mem.seen
  BY SeenStays
<1>1. "control" \in Tasks /\ "control" # "cycle"
  BY DEF Tasks
<1>2. ASSUME Halt("halt") \/ Halt("halt_close") \/ Demote
             \/ \E o \in Orders : RequestCancel(o) \/ RequestClose(o) \/ \E sl \in 1..MaxSl : RequestTighten(o, sl)
      PROVE  /\ UNCHANGED <<ticket, deals, mem, journal>> /\ trades' = trades /\ outbox' = outbox
             /\ \E t : Goto("control", t)
  BY <1>2 DEF Halt, Demote, RequestCancel, RequestClose, RequestTighten, StartControl, brokerVars
<1>3. ASSUME ControlLost \/ GotList \/ CancelNext \/ CancelledOne \/ CloseNext \/ ClosedOne
             \/ RequestDone \/ DemoteNext \/ DemotedOne
      PROVE  /\ UNCHANGED <<ticket, deals>> /\ trades' = trades /\ outbox' = outbox
             /\ \E t : Goto("control", t)
             /\ UNCHANGED <<mem, journal>> \/ (\E m : m.seen = mem.seen /\ (Save(m) \/ Keep(m)))
  <2>1. UNCHANGED <<ticket, deals>> /\ trades' = trades /\ outbox' = outbox
    BY <1>3 DEF ControlLost, GotList, CancelNext, CancelledOne, CloseNext, ClosedOne, RequestDone, DemoteNext, DemotedOne,
                Quiet, brokerVars
  <2>2. \E t : Goto("control", t)
    BY <1>3 DEF ControlLost, GotList, CancelNext, CancelledOne, CloseNext, ClosedOne, RequestDone, DemoteNext, DemotedOne,
                Done
  <2>3. UNCHANGED <<mem, journal>> \/ (\E m : m.seen = mem.seen /\ (Save(m) \/ Keep(m)))
    BY <1>0, <1>3 DEF ControlLost, GotList, CancelNext, CancelledOne, CloseNext, ClosedOne, RequestDone, DemoteNext,
                      DemotedOne
  <2> QED
    BY <2>1, <2>2, <2>3
<1> QED
  BY <1>1, <1>2, <1>3, OtherTask DEF ControlSteps

(* Where a task's counter and the point it returns to come from. *)
LEMMA Onward ==
    ASSUME NEW t \in TaskState
    PROVE  /\ \A pc, op, k, sl : LET u == Await(t, pc, op, k, sl) IN u.pc = pc /\ u.m = t.m /\ u.ret = t.ret
           /\ \A pc : LET u == Run(t, pc) IN u.pc = pc /\ u.m = t.m /\ u.ret = t.ret
           /\ \A o, ret : LET u == ConfirmStop(t, o, ret) IN u.pc = "confirm" /\ u.m = t.m /\ u.ret = ret
           /\ Idle.pc = "idle" /\ Idle.ret = "idle"
  BY DEF Await, Run, ConfirmStop, TaskState, Idle

(* The cycle goes on, and what it writes has counted what memory has. *)
LEMMA CycleGoes ==
    ASSUME TypeInv, CountedAlike, NEW u, Goto("cycle", u),
           UNCHANGED <<mem, journal>> \/ (\E m : m.seen = mem.seen /\ (Save(m) \/ Keep(m))),
           trades' = trades, outbox' = outbox,
           Syncing(u) => u.m <= mem.seen,
           task["cycle"].pc # "apply_deal" \/ journal'.seen = mem.seen
    PROVE  Uncounted
<1>1. task'["cycle"] = u
  BY Known DEF Goto
<1>2. mem'.seen = mem.seen /\ journal'.seen \in {journal.seen, mem.seen}
  BY DEF Save, Keep
<1> QED
  BY <1>1, <1>2 DEF Uncounted

(* Where confirm_stop leads to: not to a placement, and to a sync only if it came from that one. *)
Leads(c, u) == /\ Goto(c, u) /\ u.pc \notin SendPoints
               /\ Syncing(u) => Syncing(task[c]) /\ u.m = task[c].m

LEMMA ReturnGoes ==
    ASSUME TypeInv, NEW c \in {"decisions", "cycle"}, Return(c)
    PROVE  \E u : Leads(c, u)
<1> DEFINE t == task[c]
<1>0. t \in TaskState /\ t.ret \notin SendPoints
  BY Holds DEF Tasks, TaskShape, SendPoints
<1>1. CASE t.ret = "idle"
  BY <1>0, <1>1, Onward DEF Return, Done, Syncing, Leads, SendPoints
<1>2. CASE t.ret # "idle"
  <2> DEFINE v == [t EXCEPT !.ret = "idle", !.o = NoOrder, !.tries = 0]
             u == Run(v, t.ret)
  <2>1. Goto(c, u)
    BY <1>2 DEF Return
  <2>2. u.pc = t.ret /\ u.ret = "idle" /\ u.m = t.m
    BY <1>0 DEF Run, TaskState
  <2> HIDE DEF u
  <2> QED
    BY <1>0, <2>1, <2>2 DEF Syncing, Leads
<1> QED
  BY <1>1, <1>2

LEMMA ConfirmGoes ==
    ASSUME TypeInv, NEW c \in {"decisions", "cycle"}, ConfirmSteps(c)
    PROVE  \E u : Leads(c, u)
<1> DEFINE t == task[c]
<1>0. c \in Tasks /\ t \in TaskState
  BY Holds DEF Tasks
<1>1. \/ Return(c) \/ Goto(c, Await(t, "stop_check", "open_positions", 0, 0))
      \/ \E k : Goto(c, Await(t, "stop_close", "close", k, 0))
      \/ \E n, k, sl : Goto(c, Await([t EXCEPT !.tries = n], "stop_set", "modify", k, sl))
  BY DEF ConfirmSteps, StopSeen, StopAsked, StopChecked, StopClosed, AskStop
<1>2. ASSUME NEW pc \in ConfirmPoints, NEW n, NEW op, NEW k, NEW sl,
             \/ Goto(c, Await([t EXCEPT !.tries = n], pc, op, k, sl))
             \/ Goto(c, Await(t, pc, op, k, sl))
      PROVE  \E u : Leads(c, u)
  <2>1. LET u == Await([t EXCEPT !.tries = n], pc, op, k, sl)
            v == Await(t, pc, op, k, sl)
        IN  u.pc = pc /\ u.m = t.m /\ u.ret = t.ret /\ v.pc = pc /\ v.m = t.m /\ v.ret = t.ret
    BY <1>0 DEF Await, TaskState
  <2>2. pc # "apply_deal" /\ pc \notin SendPoints
    BY DEF ConfirmPoints, SendPoints
  <2> QED
    BY <1>2, <2>1, <2>2 DEF Syncing, Leads
<1>3. {"stop_check", "stop_close", "stop_set"} \subseteq ConfirmPoints
  BY DEF ConfirmPoints
<1>4. CASE Return(c)
  BY <1>4, ReturnGoes
<1>5. CASE Goto(c, Await(t, "stop_check", "open_positions", 0, 0))
  BY <1>2, <1>3, <1>5
<1>6. ASSUME NEW k, Goto(c, Await(t, "stop_close", "close", k, 0))
      PROVE  \E u : Leads(c, u)
  BY <1>2, <1>3, <1>6
<1>7. ASSUME NEW n, NEW k, NEW sl, Goto(c, Await([t EXCEPT !.tries = n], "stop_set", "modify", k, sl))
      PROVE  \E u : Leads(c, u)
  BY <1>2, <1>3, <1>7
<1> QED
  BY <1>1, <1>4, <1>5, <1>6, <1>7

LEMMA ConfirmUncounted ==
    ASSUME TypeInv, CountedAlike, NEW c \in {"decisions", "cycle"}, ConfirmSteps(c)
    PROVE  Uncounted /\ UNCHANGED <<ticket, deals>>
<1> DEFINE t == task[c]
<1>0. c \in Tasks /\ t \in TaskState /\ \A o, r : Tracked(o, r).seen = mem.seen
  BY Holds, SeenStays DEF Tasks
<1>1. UNCHANGED <<ticket, deals>> /\ trades' = trades /\ outbox' = outbox /\ t.pc # "apply_deal"
  BY DEF ConfirmSteps, StopSeen, StopAsked, StopChecked, StopClosed, Quiet, brokerVars, At
<1>2. UNCHANGED <<mem, journal>> \/ (\E m : m.seen = mem.seen /\ (Save(m) \/ Keep(m)))
  <2>1. UNCHANGED <<mem, journal>> \/ Save(mem) \/ \E o, r : Save(Tracked(o, r))
    BY DEF ConfirmSteps, StopSeen, StopAsked, StopChecked, StopClosed, Confirmed
  <2> QED
    BY <1>0, <2>1
<1>4. PICK u : Goto(c, u) /\ (Syncing(u) => Syncing(t) /\ u.m = t.m)
  BY ConfirmGoes DEF Leads
<1>5. CASE c # "cycle"
  BY <1>0, <1>1, <1>2, <1>4, <1>5, OtherTask
<1>6. CASE c = "cycle"
  <2>1. Syncing(u) => u.m <= mem.seen
    BY <1>4, <1>6 DEF CountedAlike
  <2> QED
    BY <1>1, <1>2, <1>4, <1>6, <2>1, CycleGoes
<1> QED
  BY <1>1, <1>5, <1>6

(* The cycle, but for the deal it applies. *)
CountingNothing ==
    \/ StartCycle \/ CycleLost \/ GotDeals \/ DealsApplied
    \/ ExpireNext \/ ExpireCancelled \/ ExpireChecked \/ ExpireDone \/ StopsNext

LEMMA CycleUncounted ==
    ASSUME TypeInv, CountedAlike, CountingNothing
    PROVE  Uncounted /\ UNCHANGED <<ticket, deals>>
<1> DEFINE c == "cycle"
           t == task[c]
<1>0. /\ c \in Tasks /\ t \in TaskState /\ mem.seen \in Nat /\ journal.seen \in Nat
      /\ \A o, r : Tracked(o, r).seen = mem.seen
      /\ TaskShape(c, t, mem, Len(deals), acked)
  BY Holds, SeenStays, Known
<1>1. UNCHANGED <<ticket, deals>> /\ trades' = trades /\ outbox' = outbox
  BY DEF CountingNothing, StartCycle, CycleLost, GotDeals, DealsApplied, ExpireNext, ExpireCancelled, ExpireChecked,
         ExpireDone, StopsNext, Quiet, brokerVars
<1>2. UNCHANGED <<mem, journal>> \/ (\E m : m.seen = mem.seen /\ (Save(m) \/ Keep(m)))
  <2>1. UNCHANGED <<mem, journal>> \/ Save(mem) \/ \E o, r : Keep(Tracked(o, r))
    BY DEF CountingNothing, StartCycle, CycleLost, GotDeals, DealsApplied, ExpireNext, ExpireCancelled, ExpireChecked,
           ExpireDone, StopsNext, Expired
  <2> QED
    BY <1>0, <2>1
<1>3. t.pc # "apply_deal" \/ journal'.seen = mem.seen
  <2>1. CASE DealsApplied
    <3>1. CASE mem.seen > t.m
      BY <2>1, <3>1 DEF DealsApplied, Save
    <3>2. CASE ~(mem.seen > t.m)
      BY <2>1, <3>2 DEF DealsApplied, CountedAlike
    <3> QED
      BY <3>1, <3>2
  <2>2. CASE ~DealsApplied
    BY <2>2 DEF CountingNothing, StartCycle, CycleLost, GotDeals, ExpireNext, ExpireCancelled, ExpireChecked,
           ExpireDone, StopsNext, At, MayStart
  <2> QED
    BY <2>1, <2>2
<1>4. t.pc \in {"idle", "deals", "apply_deal", "expire_next", "expire_cancel", "expire_check", "stops_next"} => t.ret = "idle"
  BY <1>0 DEF TaskShape, ConfirmPoints
<1>5. \E u : Goto(c, u) /\ (Syncing(u) => u.m <= mem.seen)
  <2>1. CASE StartCycle
    <3>1. LET u == Await(Idle, "deals", "deals", 0, 0) IN u.pc = "deals" /\ u.ret = "idle"
      BY IdleType, Onward
    <3> QED
      BY <2>1, <3>1 DEF StartCycle, Syncing
  <2>2. CASE CycleLost
    BY <1>0, <2>2, Onward DEF CycleLost, Done, Syncing
  <2>3. CASE GotDeals
    <3> DEFINE u == Run([t EXCEPT !.n = t.ans.n, !.m = mem.seen], "apply_deal")
    <3>1. u.m = mem.seen
      BY <1>0 DEF Run, TaskState
    <3>2. Goto(c, u)
      BY <2>3 DEF GotDeals
    <3> HIDE DEF u
    <3> QED
      BY <1>0, <3>1, <3>2
  <2>4. CASE DealsApplied
    <3> DEFINE u == Run([t EXCEPT !.n = 0, !.m = 0, !.todo = {o \in due : mem.ord[o].st \in Active}], "expire_next")
    <3>1. u.pc = "expire_next" /\ u.ret = t.ret /\ t.ret = "idle"
      BY <1>0, <1>4, <2>4 DEF Run, TaskState, DealsApplied, At
    <3>2. Goto(c, u)
      BY <2>4 DEF DealsApplied
    <3> HIDE DEF u
    <3> QED
      BY <3>1, <3>2 DEF Syncing
  <2>5. CASE ExpireNext
    <3> PICK o \in Expirable(t) : Goto(c, Await([t EXCEPT !.o = o, !.todo = @ \ {o}],
                                               "expire_cancel", "cancel", mem.ord[o].oid, 0))
      BY <2>5 DEF ExpireNext
    <3> DEFINE u == Await([t EXCEPT !.o = o, !.todo = @ \ {o}], "expire_cancel", "cancel", mem.ord[o].oid, 0)
    <3>1. u.pc = "expire_cancel" /\ u.ret = t.ret /\ t.ret = "idle"
      BY <1>0, <1>4, <2>5 DEF Await, TaskState, ExpireNext, At
    <3> HIDE DEF u
    <3> QED
      BY <3>1 DEF Syncing, u
  <2>6. CASE ExpireCancelled \/ ExpireChecked
    <3>0. t.ret = "idle"
      BY <1>4, <2>6 DEF ExpireCancelled, ExpireChecked, At
    <3>1. \/ Goto(c, Await(t, "expire_check", "pending_orders", 0, 0))
          \/ Goto(c, Run([t EXCEPT !.o = NoOrder], "expire_next"))
          \/ Goto(c, Run([t EXCEPT !.n = 1, !.o = NoOrder], "expire_next"))
      BY <2>6 DEF ExpireCancelled, ExpireChecked, Expired
    <3>2. /\ LET u == Await(t, "expire_check", "pending_orders", 0, 0) IN ~Syncing(u)
          /\ LET u == Run([t EXCEPT !.o = NoOrder], "expire_next") IN ~Syncing(u)
          /\ LET u == Run([t EXCEPT !.n = 1, !.o = NoOrder], "expire_next") IN ~Syncing(u)
      BY <1>0, <3>0 DEF Await, Run, TaskState, Syncing
    <3> QED
      BY <3>1, <3>2
  <2>7. CASE ExpireDone
    <3> DEFINE u == Run([t EXCEPT !.n = 0, !.todo = {o \in Orders : mem.ord[o].st \in Active}], "stops_next")
    <3>1. u.pc = "stops_next" /\ u.ret = t.ret /\ t.ret = "idle"
      BY <1>0, <1>4, <2>7 DEF Run, TaskState, ExpireDone, At
    <3>2. Goto(c, u)
      BY <2>7 DEF ExpireDone
    <3> HIDE DEF u
    <3> QED
      BY <3>1, <3>2 DEF Syncing
  <2>8. CASE StopsNext
    <3>1. ASSUME NEW o, Goto(c, ConfirmStop([t EXCEPT !.todo = @ \ {o}], o, "stops_next"))
          PROVE  \E u : Goto(c, u) /\ ~Syncing(u)
      <4> DEFINE u == ConfirmStop([t EXCEPT !.todo = @ \ {o}], o, "stops_next")
      <4>1. u.pc = "confirm" /\ u.ret = "stops_next"
        BY <1>0 DEF ConfirmStop, Await, TaskState
      <4>2. Goto(c, u)
        BY <3>1
      <4> HIDE DEF u
      <4> QED
        BY <4>1, <4>2 DEF Syncing
    <3>2. CASE Done(c)
      BY <1>0, <3>2, Onward DEF Done, Syncing
    <3> QED
      BY <2>8, <3>1, <3>2 DEF StopsNext
  <2> QED
    BY <2>1, <2>2, <2>3, <2>4, <2>5, <2>6, <2>7, <2>8 DEF CountingNothing
<1>6. PICK u : Goto(c, u) /\ (Syncing(u) => u.m <= mem.seen)
  BY <1>5
<1> QED
  BY <1>1, <1>2, <1>3, <1>6, CycleGoes

(* A call that is served counts nothing either. *)
LEMMA ServeUncounted ==
    ASSUME TypeInv, CountedAlike, NEW c \in Tasks, Serve(c)
    PROVE  Uncounted
<1> DEFINE t == task[c]
<1>1. UNCHANGED <<mem, journal>> /\ trades' = trades /\ outbox' = outbox
  BY DEF Serve
<1>2. t \in TaskState /\ task \in [Tasks -> TaskState]
  BY Known
<1>3. PICK a : Goto(c, [t EXCEPT !.ans = a])
  BY DEF Serve
<1> DEFINE u == [t EXCEPT !.ans = a]
<1>4. u.pc = t.pc /\ u.ret = t.ret /\ u.m = t.m
  BY <1>2 DEF TaskState
<1>5. task'["cycle"] = task["cycle"] \/ (c = "cycle" /\ task'["cycle"] = u)
  BY <1>2, <1>3, Known DEF Goto
<1> HIDE DEF u
<1>6. LET x == task["cycle"]
          y == task'["cycle"]
      IN  y.pc = x.pc /\ y.ret = x.ret /\ y.m = x.m
  BY <1>4, <1>5
<1> QED
  BY <1>1, <1>6 DEF Uncounted, CountedAlike, Syncing

-----------------------------------------------------------------------------
(* A deal that is applied is counted; the closing one of a position queues its trade. *)
LEMMA DealApplied ==
    ASSUME TypeInv, DealsOnce, CountedAlike, FromDeals, ApplyDeal
    PROVE  DealsOnce' /\ CountedAlike' /\ FromDeals'
<1> DEFINE t == task["cycle"]
           n == mem.seen + 1
           p == deals[n].tk[1]
           u == task'["cycle"]
<1>0. /\ t \in TaskState /\ t.pc = "apply_deal" /\ mem.seen < t.n /\ t.n <= Len(deals)
      /\ mem.seen \in Nat /\ journal.seen \in Nat /\ Len(deals) \in Nat /\ t.n \in Nat /\ t.m \in Nat
  BY Known, Holds DEF ApplyDeal, At, TaskShape, TaskState
<1>1. n \in 1..Len(deals) /\ deals[n].tk \in Tickets /\ p \in Orders
  <2>1. n \in 1..Len(deals)
    BY <1>0
  <2> QED
    BY <2>1, DealTickets DEF Tickets
<1>2. UNCHANGED <<ticket, deals>> /\ trades' = trades
  BY DEF ApplyDeal, Quiet, brokerVars
<1>3. Seen.seen = n /\ \A o, r : [Seen EXCEPT !.ord[o] = r].seen = n /\ [Seen EXCEPT !.ord[o].st = "closed"].seen = n
  BY Known DEF Seen, ExecState
<1>4. /\ mem'.seen = n /\ journal'.seen \in {journal.seen, n}
      /\ u.m = t.m /\ (journal'.seen = n \/ u.pc = "apply_deal")
      /\ \A o \in outbox' : o \in outbox \/ (o = p /\ Closing(n))
  <2>1. CASE /\ Save([Seen EXCEPT !.ord[p] = Opened(mem.ord[p], deals[n].tk[2])])
             /\ Goto("cycle", ConfirmStop(t, p, "apply_deal"))
             /\ UNCHANGED outbox
    <3>1. u = ConfirmStop(t, p, "apply_deal")
      BY <2>1, Known DEF Goto
    <3>2. u.m = t.m
      BY <1>0, <3>1, Onward
    <3>3. mem'.seen = n /\ journal'.seen = n
      BY <1>3, <2>1 DEF Save
    <3> QED
      BY <2>1, <3>2, <3>3
  <2>2. CASE /\ deals[n].entry = "out" /\ Keep([Seen EXCEPT !.ord[p].st = "closed"])
             /\ outbox' = IF mem.ord[p].entered THEN outbox \union {p} ELSE outbox
             /\ UNCHANGED task
    <3>1. mem'.seen = n /\ journal' = journal
      BY <1>3, <2>2 DEF Keep
    <3> QED
      BY <1>0, <1>1, <2>2, <3>1 DEF Closing
  <2>3. CASE Keep(Seen) /\ UNCHANGED <<task, outbox>>
    <3>1. mem'.seen = n /\ journal' = journal
      BY <1>3, <2>3 DEF Keep
    <3> QED
      BY <1>0, <2>3, <3>1
  <2> QED
    BY <2>1, <2>2, <2>3, Zenon DEF ApplyDeal
<1> HIDE DEF t, u
<1>5. DealsOnce'
  BY <1>2 DEF DealsOnce, Closing
<1>6. journal.seen <= mem.seen /\ t.m <= mem.seen
  BY <1>0 DEF CountedAlike, Syncing, t
<1>7. CountedAlike'
  <2>1. journal'.seen <= n /\ n <= Len(deals) /\ t.m < n /\ n \in Nat
    BY <1>0, <1>1, <1>4, <1>6
  <2> QED
    BY <1>0, <1>2, <1>4, <2>1 DEF CountedAlike, u
<1>8. FromDeals'
  <2> SUFFICES ASSUME NEW o \in Orders
               PROVE  /\ trades'[o] # 0 => Traded(o, journal.seen)'
                      /\ o \in outbox' => Traded(o, mem.seen)'
                      /\ Once(o)' => trades'[o] <= 1 /\ (o \in outbox' => trades'[o] = 0)
    BY DEF FromDeals
  <2>1. trades[o] # 0 => Traded(o, journal'.seen)
    <3>1. trades[o] # 0 => Traded(o, journal.seen)
      BY DEF FromDeals
    <3>2. journal.seen <= journal'.seen /\ journal'.seen \in Nat
      BY <1>0, <1>1, <1>4, <1>6
    <3> QED
      BY <1>0, <3>1, <3>2 DEF Traded
  <2>2. o \in outbox' => Traded(o, n)
    <3>1. CASE o \in outbox
      BY <1>0, <1>1, <3>1 DEF FromDeals, Traded
    <3>2. CASE o = p /\ Closing(n)
      BY <1>1, <3>2 DEF Traded
    <3> QED
      BY <1>4, <3>1, <3>2
  <2>3. ASSUME Once(o), o \in outbox', o \notin outbox PROVE trades[o] = 0
    <3> SUFFICES ASSUME trades[o] # 0 PROVE FALSE
      OBVIOUS
    <3>1. PICK i \in 1..journal.seen : Closing(i) /\ deals[i].tk[1] = o
      BY DEF FromDeals, Traded
    <3>2. Closing(n) /\ o = p
      BY <1>4, <2>3
    <3>3. i = n
      BY <2>3, <3>1, <3>2, OneClosing
    <3> QED
      BY <1>0, <1>6, <3>1, <3>3
  <2>4. Once(o)' <=> Once(o)
    BY <1>2 DEF Once
  <2>5. Once(o) => trades[o] <= 1 /\ (o \in outbox' => trades[o] = 0)
    BY <2>3 DEF FromDeals
  <2>6. Traded(o, journal.seen)' <=> Traded(o, journal'.seen)
    BY <1>2 DEF Traded, Closing
  <2>7. Traded(o, mem.seen)' <=> Traded(o, n)
    BY <1>2, <1>4 DEF Traded, Closing
  <2> QED
    BY <1>2, <2>1, <2>2, <2>4, <2>5, <2>6, <2>7
<1> QED
  BY <1>5, <1>7, <1>8

(* What waits is published while journal and memory have counted the same deals. *)
LEMMA FlushedOnce ==
    ASSUME TypeInv, DealsOnce, CountedAlike, FromDeals, Flush
    PROVE  DealsOnce' /\ CountedAlike' /\ FromDeals'
<1>1. UNCHANGED <<ticket, deals, mem, journal, task>> /\ outbox' = {}
  BY DEF Flush, brokerVars
<1>2. journal.seen = mem.seen
  <2>1. task["cycle"].pc \notin Internal
    BY Known DEF Flush
  <2> QED
    BY <2>1 DEF CountedAlike, Internal
<1>3. DealsOnce' /\ CountedAlike'
  BY <1>1 DEF DealsOnce, CountedAlike, Closing
<1>4. ASSUME NEW o \in Orders
      PROVE  /\ o \in outbox => trades'[o] = (IF trades[o] < 2 THEN trades[o] + 1 ELSE trades[o])
             /\ o \notin outbox => trades'[o] = trades[o]
  BY Known DEF Flush, Count
<1>5. FromDeals'
  <2> SUFFICES ASSUME NEW o \in Orders
               PROVE  /\ trades'[o] # 0 => Traded(o, journal.seen)'
                      /\ Once(o)' => trades'[o] <= 1
    BY <1>1 DEF FromDeals
  <2>1. /\ Traded(o, journal.seen) => Traded(o, journal.seen)'
        /\ Once(o)' <=> Once(o)
    BY <1>1 DEF Traded, Closing, Once
  <2>2. o \in outbox \/ trades[o] # 0 => Traded(o, journal.seen)
    BY <1>2 DEF FromDeals
  <2>3. Once(o) => trades[o] <= 1 /\ (o \in outbox => trades[o] = 0)
    BY DEF FromDeals
  <2> QED
    BY <1>4, <2>1, <2>2, <2>3
<1> QED
  BY <1>3, <1>5

(* A crash forgets the deals the journal has not counted, and the trades that wait. *)
LEMMA CrashCounted ==
    ASSUME TypeInv, DealsOnce, CountedAlike, FromDeals, Crash \/ CrashInExecute
    PROVE  DealsOnce' /\ CountedAlike' /\ FromDeals'
<1>0. mem.seen \in Nat /\ journal.seen \in Nat /\ Len(deals) \in Nat
      /\ journal.seen <= mem.seen /\ mem.seen <= Len(deals)
  BY Known DEF CountedAlike
<1>1. UNCHANGED <<ticket, deals, trades>> /\ outbox' = {} /\ task'["cycle"] = Idle /\ mem' = journal'
  BY Known DEF Crash, CrashInExecute, brokerVars
<1>2. journal'.seen \in {journal.seen, mem.seen}
  <2>1. CASE Crash
    BY <2>1 DEF Crash
  <2>2. CASE CrashInExecute
    <3>1. \E n : journal' = [mem EXCEPT !.seq = n]
      BY <2>2 DEF CrashInExecute
    <3> QED
      BY <3>1, SeenStays
  <2> QED
    BY <2>1, <2>2
<1>3. DealsOnce'
  BY <1>1 DEF DealsOnce, Closing
<1>4. CountedAlike'
  <2>1. ~Syncing(Idle)
    BY IdleType DEF Syncing
  <2> QED
    BY <1>0, <1>1, <1>2, <2>1 DEF CountedAlike, Syncing
<1>5. FromDeals'
  <2>1. ASSUME NEW o \in Orders, trades[o] # 0 PROVE Traded(o, journal.seen)'
    <3>1. PICK i \in 1..journal.seen : Closing(i) /\ deals[i].tk[1] = o
      BY <2>1 DEF FromDeals, Traded
    <3>2. i \in 1..journal'.seen
      BY <1>0, <1>2
    <3> QED
      BY <1>1, <3>1, <3>2 DEF Traded, Closing
  <2>2. \A o \in Orders : Once(o)' <=> Once(o)
    BY <1>1 DEF Once
  <2> QED
    BY <1>1, <2>1, <2>2 DEF FromDeals
<1> QED
  BY <1>3, <1>4, <1>5

-----------------------------------------------------------------------------
(* The ticket to be placed, while the reader of DECISIONS stays where it is... *)
LEMMA FreshStays ==
    ASSUME TypeInv, Fresh, \A j \in Tickets : Stays(FALSE, j),
           LET t == task["decisions"]
               u == task'["decisions"]
           IN  u.pc = t.pc /\ u.o = t.o /\ u.n = t.n /\ (u.ans = NoAnswer => t.ans = NoAnswer)
    PROVE  Fresh'
<1> DEFINE t == task["decisions"]
<1>1. t.pc \in SendPoints => <<t.o, t.n>> \in Tickets
  BY Known, Holds DEF TaskShape, SendPoints, OrderPoints, Tickets
<1>2. t.pc \in SendPoints /\ ticket[<<t.o, t.n>>].st = "none" => ticket'[<<t.o, t.n>>].st = "none"
  BY <1>1, Zenon DEF Stays
<1> QED
  BY <1>2 DEF Fresh, SendPoints

(* ...or leaves the points of _send. *)
LEMMA FreshLeft ==
    ASSUME TypeInv, NEW u, Goto("decisions", u), u.pc \notin SendPoints
    PROVE  Fresh'
<1>1. task'["decisions"] = u
  BY Known DEF Goto
<1> QED
  BY <1>1 DEF Fresh, SendPoints

LEMMA FreshServe == ASSUME TypeInv, Fresh, NEW c \in Tasks, Serve(c) PROVE Fresh'
<1> DEFINE t == task[c]
<1>0. t \in TaskState /\ task \in [Tasks -> TaskState] /\ TaskShape(c, t, mem, Len(deals), acked)
  BY Known, Holds
<1>1. t.op = "place" => c = "decisions" /\ t.pc = "place"
  BY <1>0 DEF TaskShape, SendPoints
<1>2. PICK a : LET u == [t EXCEPT !.ans = a]
               IN  /\ Goto(c, u) /\ task'[c] = u /\ u.ans = a
                   /\ a \in Answers(t.op) \/ a = Lost
                   /\ u.pc = t.pc /\ u.o = t.o /\ u.n = t.n
  BY ServeKeeps
<1>3. a # NoAnswer
  BY <1>2 DEF Answers, Answer, Ack, Nack, Lost, NoAnswer
<1>4. CASE t.op = "place"
  <2>1. task'["decisions"].pc = "place" /\ task'["decisions"].ans # NoAnswer
    BY <1>1, <1>2, <1>3, <1>4
  <2> QED
    BY <2>1 DEF Fresh
<1>5. CASE t.op # "place"
  <2>1. \A j \in Tickets : Stays(FALSE, j)
    BY <1>5, ServeLogs
  <2>2. c # "decisions" => task'["decisions"] = task["decisions"]
    BY <1>0, <1>2, Known DEF Goto
  <2>3. LET x == task["decisions"]
            y == task'["decisions"]
        IN  y.pc = x.pc /\ y.o = x.o /\ y.n = x.n /\ (y.ans = NoAnswer => x.ans = NoAnswer)
    BY <1>2, <1>3, <2>2
  <2> QED
    BY <2>1, <2>3, FreshStays
<1> QED
  BY <1>4, <1>5

LEMMA FreshDecisions ==
    ASSUME TypeInv, Recorded, Searched, Fresh, DecisionSteps
    PROVE  Fresh'
<1> DEFINE c == "decisions"
           t == task[c]
<1>0. /\ c \in Tasks /\ t \in TaskState /\ TaskShape(c, t, mem, Len(deals), acked)
      /\ task \in [Tasks -> TaskState]
  BY Known, Holds
<1>1. UNCHANGED ticket
  BY DEF DecisionSteps, DropDecision, RefuseEntry, Execute, Retry, FoundPosition, FoundOrder, Placed,
         Quiet, brokerVars
<1>2. \A u : Goto(c, u) => task'[c] = u
  BY <1>0 DEF Goto
<1>3. Idle.pc \notin SendPoints /\ \A o : ConfirmStop(t, o, "idle").pc \notin SendPoints
  BY <1>0, Onward DEF SendPoints
<1>4. CASE UNCHANGED task
  BY <1>1, <1>4 DEF Fresh
<1>5. CASE Done(c) \/ \E o : Goto(c, ConfirmStop(t, o, "idle"))
  BY <1>3, <1>5, FreshLeft DEF Done
<1>6. CASE Execute
  <2> DEFINE o == Decisions[NextDecision]
             i == [Idle EXCEPT !.o = o, !.n = 1]
             u == Await(i, "find_position", "open_positions", 0, 0)
  <2>1. DecisionWaits /\ mem.ord[o].st = "none" /\ Goto(c, u)
    BY <1>6 DEF Execute, Admissible
  <2>2. o \in Orders
    BY <2>1, NewDecision
  <2>3. <<o, 1>> \in Tickets /\ <<o, 1>>[1] = o
    BY <2>2 DEF Tickets, Attempts
  <2>4. ticket[<<o, 1>>].st = "none"
    BY <2>1, <2>2, <2>3 DEF Recorded, WriteAhead
  <2>5. u.o = o /\ u.n = 1
    BY DEF Await, Idle
  <2>6. task'[c] = u
    BY <1>2, <2>1
  <2> HIDE DEF u, o
  <2> QED
    BY <1>1, <2>4, <2>5, <2>6 DEF Fresh
<1>7. CASE t.n = 1 /\ t.pc \in SendPoints /\ Goto(c, Await([t EXCEPT !.n = 2], "find_position", "open_positions", 0, 0))
  <2> DEFINE u == Await([t EXCEPT !.n = 2], "find_position", "open_positions", 0, 0)
  <2>1. u.o = t.o /\ u.n = 2
    BY <1>0 DEF Await, TaskState
  <2>2. task'[c] = u
    BY <1>2, <1>7
  <2>3. ticket[<<t.o, 2>>].st = "none"
    BY <1>7 DEF Searched
  <2> HIDE DEF u
  <2> QED
    BY <1>1, <2>1, <2>2, <2>3 DEF Fresh
<1>8. ASSUME NEW pc, NEW op, NEW k, NEW sl, t.pc \in {"find_position", "find_order"}, Goto(c, Await(t, pc, op, k, sl))
      PROVE  Fresh'
  <2> DEFINE u == Await(t, pc, op, k, sl)
  <2>1. u.o = t.o /\ u.n = t.n
    BY <1>0 DEF Await, TaskState
  <2>2. task'[c] = u
    BY <1>2, <1>8
  <2>3. ticket[<<t.o, t.n>>].st = "none"
    BY <1>8 DEF Fresh
  <2> HIDE DEF u
  <2> QED
    BY <1>1, <2>1, <2>2, <2>3 DEF Fresh
<1>9. CASE Retry
  BY <1>5, <1>7, <1>9 DEF Retry, SendPoints
<1>10. CASE FoundPosition
  BY <1>5, <1>8, <1>10 DEF FoundPosition, At
<1>11. CASE FoundOrder
  <2>1. t.pc = "find_order"
    BY <1>11 DEF FoundOrder, At
  <2>2. Done(c) \/ Goto(c, Await(t, "place", "place", t.n, mem.ord[t.o].sl))
    BY <1>11 DEF FoundOrder
  <2> QED
    BY <1>5, <1>8, <2>1, <2>2
<1>12. CASE Placed
  BY <1>5, <1>12 DEF Placed
<1>13. CASE DropDecision \/ RefuseEntry
  BY <1>4, <1>13 DEF DropDecision, RefuseEntry
<1> QED
  BY <1>6, <1>9, <1>10, <1>11, <1>12, <1>13 DEF DecisionSteps

LEMMA FreshOthers ==
    ASSUME TypeInv, Fresh,
           \/ CycleSteps \/ ControlSteps \/ \E c \in {"decisions", "cycle"} : ConfirmSteps(c)
           \/ BrokerNext /\ UNCHANGED omVars
           \/ Flush \/ Crash \/ CrashInExecute \/ UNCHANGED vars
    PROVE  Fresh'
<1>0. \A c \in {"cycle", "control"} : \A u : Goto(c, u) => task'["decisions"] = task["decisions"]
  BY Known DEF Goto
<1>1. ASSUME UNCHANGED ticket PROVE \A j \in Tickets : Stays(FALSE, j)
  BY <1>1 DEF Stays
<1>2. CASE CycleSteps
  <2>1. UNCHANGED ticket
    BY <1>2 DEF CycleSteps, StartCycle, CycleLost, GotDeals, ApplyDeal, DealsApplied, ExpireNext, ExpireCancelled,
                ExpireChecked, ExpireDone, StopsNext, Quiet, brokerVars
  <2>2. task'["decisions"] = task["decisions"]
    BY <1>0, <1>2 DEF CycleSteps, StartCycle, CycleLost, GotDeals, ApplyDeal, DealsApplied, ExpireNext,
                      ExpireCancelled, ExpireChecked, ExpireDone, StopsNext, Expired, Done
  <2> QED
    BY <1>1, <2>1, <2>2, FreshStays
<1>3. CASE ControlSteps
  <2>1. UNCHANGED ticket
    BY <1>3 DEF ControlSteps, Halt, RequestCancel, RequestClose, RequestTighten, Demote, StartControl,
         ControlLost, GotList, CancelNext, CancelledOne, CloseNext, ClosedOne, RequestDone,
         DemoteNext, DemotedOne, Quiet, brokerVars
  <2>2. task'["decisions"] = task["decisions"]
    BY <1>0, <1>3 DEF ControlSteps, Halt, RequestCancel, RequestClose, RequestTighten, Demote,
         ControlLost, GotList, CancelNext, CancelledOne, CloseNext, ClosedOne, RequestDone,
         DemoteNext, DemotedOne, Done
  <2> QED
    BY <1>1, <2>1, <2>2, FreshStays
<1>4. ASSUME NEW c \in {"decisions", "cycle"}, ConfirmSteps(c) PROVE Fresh'
  <2>1. PICK u : Goto(c, u) /\ u.pc \notin SendPoints
    BY <1>4, ConfirmGoes DEF Leads
  <2>2. UNCHANGED ticket
    BY <1>4 DEF ConfirmSteps, StopSeen, StopAsked, StopChecked, StopClosed, Quiet, brokerVars
  <2>3. CASE c = "decisions"
    BY <2>1, <2>3, FreshLeft
  <2>4. CASE c = "cycle"
    BY <1>0, <1>1, <2>1, <2>2, <2>4, FreshStays
  <2> QED
    BY <2>3, <2>4
<1>5. CASE BrokerNext /\ UNCHANGED omVars
  BY <1>5, BrokerLogs, FreshStays DEF omVars
<1>6. CASE Flush \/ UNCHANGED vars
  BY <1>1, <1>6, FreshStays DEF Flush, vars, omVars, brokerVars
<1>7. CASE Crash \/ CrashInExecute
  <2>1. task'["decisions"] = Idle
    BY <1>7, Known DEF Crash, CrashInExecute
  <2> QED
    BY <2>1, IdleType DEF Fresh
<1> QED
  BY <1>2, <1>3, <1>4, <1>5, <1>6, <1>7

-----------------------------------------------------------------------------
LEMMA CountedInit == Init => Fresh /\ DealsOnce /\ CountedAlike /\ FromDeals
<1> SUFFICES ASSUME Init PROVE Fresh /\ DealsOnce /\ CountedAlike /\ FromDeals
  OBVIOUS
<1>1. /\ deals = <<>> /\ Len(deals) = 0 /\ mem.seen = 0 /\ journal.seen = 0 /\ outbox = {}
      /\ \A o \in Orders : trades[o] = 0
      /\ task["decisions"] = Idle /\ task["cycle"] = Idle
  BY DEF Init, BrokerInit, Tasks
<1>2. Fresh /\ CountedAlike
  BY <1>1, IdleType DEF Fresh, CountedAlike, Syncing
<1>3. DealsOnce /\ FromDeals
  BY <1>1 DEF DealsOnce, FromDeals, Closing
<1> QED
  BY <1>2, <1>3

(* With the invariant of the placements, what is counted and traded is inductive. *)
LEMMA CountedNext == TInv /\ [Next]_vars => (Fresh /\ DealsOnce /\ CountedAlike /\ FromDeals)'
<1> SUFFICES ASSUME TInv, [Next]_vars PROVE Fresh' /\ DealsOnce' /\ CountedAlike' /\ FromDeals'
  OBVIOUS
<1>0. TypeInv /\ Recorded /\ Searched /\ Fresh /\ DealsOnce /\ CountedAlike /\ FromDeals
  BY DEF TInv, IInv
<1>1. CASE BrokerNext /\ UNCHANGED omVars
  <2>1. Uncounted
    BY <1>0, <1>1 DEF Uncounted, omVars, CountedAlike
  <2> QED
    BY <1>0, <1>1, <2>1, BrokerLogs, UncountedKeeps, FreshOthers
<1>2. CASE \E c \in Tasks : Serve(c)
  <2> PICK c \in Tasks : Serve(c)
    BY <1>2
  <2>1. Logged /\ \A j \in Tickets : Stays(FALSE, j) \/ Stays(TRUE, j)
    <3>1. Logged /\ \A j \in Tickets : Stays(task[c].op = "place" /\ j = <<task[c].o, task[c].k>>, j)
      BY <1>0, ServeLogs
    <3> QED
      BY <3>1 DEF Stays
  <2> QED
    BY <1>0, <2>1, ServeUncounted, UncountedKeeps, FreshServe
<1>3. CASE DecisionSteps
  BY <1>0, <1>3, DecisionsUncounted, QuietUncounted, FreshDecisions
<1>4. CASE \E c \in {"decisions", "cycle"} : ConfirmSteps(c)
  BY <1>0, <1>4, ConfirmUncounted, QuietUncounted, FreshOthers
<1>5. CASE CycleSteps
  <2>1. CASE ApplyDeal
    BY <1>0, <1>5, <2>1, DealApplied, FreshOthers
  <2>2. CASE CountingNothing
    BY <1>0, <1>5, <2>2, CycleUncounted, QuietUncounted, FreshOthers
  <2> QED
    BY <1>5, <2>1, <2>2 DEF CycleSteps, CountingNothing
<1>6. CASE ControlSteps
  BY <1>0, <1>6, ControlUncounted, QuietUncounted, FreshOthers
<1>7. CASE Flush
  BY <1>0, <1>7, FlushedOnce, FreshOthers
<1>8. CASE Crash \/ CrashInExecute
  BY <1>0, <1>8, CrashCounted, FreshOthers
<1>9. CASE UNCHANGED vars
  <2>1. Uncounted /\ UNCHANGED <<ticket, deals>>
    BY <1>0, <1>9 DEF Uncounted, CountedAlike, vars, omVars, brokerVars
  <2> QED
    BY <1>0, <1>9, <2>1, QuietUncounted, FreshOthers
<1> QED
  BY <1>1, <1>2, <1>3, <1>4, <1>5, <1>6, <1>7, <1>8, <1>9 DEF Next

(* The trade of an order with one ticket is published at most once, however often its closing deal
   is read again after a crash, whatever was lost, and with the tasks interleaved at every await. *)
THEOREM TradedAtMostOnce == Spec => []TradedOnce
<1>1. Init => TInv
  BY Inductive, CountedInit DEF TInv
<1>2. TInv /\ [Next]_vars => TInv'
  BY Inductive, CountedNext DEF TInv
<1>3. TInv => TradedOnce
  BY DEF TInv, FromDeals, TradedOnce
<1> QED
  BY <1>1, <1>2, <1>3, PTL DEF Spec
=============================================================================
