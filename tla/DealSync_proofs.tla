-------------------------- MODULE DealSync_proofs --------------------------
(***************************************************************************)
(* What the books of the deals are, for any tasks, lots, lookback,         *)
(* retention and bounds.                                                   *)
(*                                                                         *)
(* No deal is missed (IInv): a deal that is not counted lies before        *)
(* initialize or in the window of the next query.  While a sync is under   *)
(* way the clock stands still, so that a deal is in the query's answer,    *)
(* was counted, or has been booked since and is no older than a payment    *)
(* may be; the cursor the sync leaves is no later than now, and the        *)
(* lookback is at least that long.                                         *)
(*                                                                         *)
(* None is counted twice (AInv), as long as no save drops a deal that a    *)
(* query still returns: what the books have forgotten is older than the    *)
(* window of every sync under way and not among its deals, so that what    *)
(* they have not seen they have not counted.  A sync takes the position's  *)
(* deals in their order, whoever else counts some of them meanwhile: what  *)
(* the books know of the position is its deals up to one of them, and all  *)
(* of them when the lots are out.                                          *)
(***************************************************************************)
EXTENDS DealSync, FiniteSetTheorems, WellFoundedInduction, TLAPS

MemFields == {"st", "lots", "entered", "net", "out", "seen", "ever", "cursor", "since", "expected"}
TaskFields == {"pc", "todo", "cursor", "new"}

(* The state of the books, in memory or saved, as far as it matters here. *)
Books(m) ==
    /\ DOMAIN m = MemFields
    /\ m.cursor \in Int /\ m.since \in Int /\ m.cursor <= now
    /\ m.seen \subseteq m.ever

Shapes ==
    /\ now \in Nat
    /\ \E S : log \in Seq(S)
    /\ \A i \in Ids : log[i].time \in Int /\ log[i].time <= now
    /\ Books(mem) /\ Books(journal)
    /\ task = [c \in Tasks |-> task[c]]
    /\ \A c \in Tasks : /\ DOMAIN task[c] = TaskFields
                        /\ task[c].cursor \in Int
                        /\ task[c].pc \in {"idle", "deals", "apply", "confirm"}
                        /\ \E S : task[c].todo \in Seq(S)

(* Deal i is in the window of a query with this cursor, or before the books m begin, or in them. *)
In(i, m, cursor) == i \in m.ever \/ log[i].time >= cursor - Lookback \/ log[i].time < m.since

Covers(m) == m.since # None => \A i \in Ids : In(i, m, m.cursor)

(* A deal that a sync under way has still to apply. *)
ToDo(c, i) == \E k \in DOMAIN task[c].todo : task[c].todo[k] = i

(* Such a sync loses no deal: before the answer, and after it. *)
Asking(c) == task[c].pc = "deals" => \A i \in Ids : In(i, mem, task[c].cursor)

Applying(c) ==
    task[c].pc \in {"apply", "confirm"} =>
        \A i \in Ids : ToDo(c, i) \/ In(i, mem, now - MaxDelay + Lookback)

Running(c) == task[c].pc # "idle" => mem.since # None /\ task[c].cursor <= now

Syncs == \A c \in Tasks : Running(c) /\ Asking(c) /\ Applying(c)

IInv == Shapes /\ Covers(mem) /\ Covers(journal) /\ Syncs

-----------------------------------------------------------------------------
LEMMA InitInv == Init => IInv
<1> SUFFICES ASSUME Init PROVE IInv
  OBVIOUS
<1>1. now = 0 /\ log = <<>> /\ Ids = {} /\ Len(log) = 0
  BY DEF Init, Ids
<1>2. Books(mem) /\ Books(journal)
  BY DEF Init, Books, MemFields, None
<1>3. \A c \in Tasks : task[c] = [pc |-> "idle", todo |-> <<>>, cursor |-> 0, new |-> FALSE]
  BY DEF Init
<1>4. <<>> \in Seq({})
  OBVIOUS
<1>5. \A c \in Tasks : /\ DOMAIN task[c] = TaskFields
                       /\ task[c].cursor \in Int
                       /\ task[c].pc \in {"idle", "deals", "apply", "confirm"}
                       /\ \E S : task[c].todo \in Seq(S)
  <2> SUFFICES ASSUME NEW c \in Tasks
               PROVE  /\ DOMAIN task[c] = TaskFields
                      /\ task[c].cursor \in Int
                      /\ task[c].pc \in {"idle", "deals", "apply", "confirm"}
                      /\ \E S : task[c].todo \in Seq(S)
    OBVIOUS
  <2>1. task[c] = [pc |-> "idle", todo |-> <<>>, cursor |-> 0, new |-> FALSE]
    BY <1>3
  <2>2. task[c].todo \in Seq({})
    BY <1>4, <2>1
  <2>3. DOMAIN task[c] = TaskFields
    BY <2>1 DEF TaskFields
  <2> QED
    BY <2>1, <2>2, <2>3
<1>6. Shapes
  BY <1>1, <1>2, <1>4, <1>5 DEF Init, Shapes
<1>7. Covers(mem) /\ Covers(journal) /\ Syncs
  BY <1>1, <1>3 DEF Covers, Syncs, Running, Asking, Applying
<1> QED
  BY <1>6, <1>7 DEF IInv

(* What a step does that forgets no deal and lets nobody be in a later place: the books grow. *)
Grows(m, n) == DOMAIN n = MemFields /\ m.ever \subseteq n.ever /\ n.seen \subseteq n.ever /\ n.since = m.since

LEMMA Forgets ==
    ASSUME NEW m, Save(m), DOMAIN m = MemFields
    PROVE  /\ mem' = Pruned(m) /\ journal' = Pruned(m)
           /\ DOMAIN Pruned(m) = MemFields
           /\ Pruned(m).ever = m.ever /\ Pruned(m).since = m.since /\ Pruned(m).cursor = m.cursor
           /\ Pruned(m).seen \subseteq m.seen
  BY DEF Save, Pruned, MemFields

-----------------------------------------------------------------------------
(* The steps of one task, which books nothing and moves no clock: what is left to show is the
   books it leaves and its own place. *)
LEMMA TaskStep ==
    ASSUME IInv, NEW c \in Tasks, NEW t,
           UNCHANGED <<now, log>>, task' = [task EXCEPT ![c] = t],
           DOMAIN t = TaskFields, t.cursor \in Int, t.pc \in {"idle", "deals", "apply", "confirm"},
           \E S : t.todo \in Seq(S),
           mem.since # None,
           Grows(mem, mem'), mem'.cursor \in Int, mem'.cursor <= now,
           \/ journal' = journal
           \/ journal' = mem',
           \A i \in Ids : In(i, mem', mem'.cursor),
           t.pc # "idle" => t.cursor <= now,
           t.pc = "deals" => \A i \in Ids : In(i, mem', t.cursor),
           t.pc \in {"apply", "confirm"} =>
               \A i \in Ids : (\E k \in DOMAIN t.todo : t.todo[k] = i) \/ In(i, mem', now - MaxDelay + Lookback)
    PROVE  IInv'
<1>1. Ids' = Ids
  BY DEF Ids
<1>2. task'[c] = t /\ \A d \in Tasks \ {c} : task'[d] = task[d]
  BY DEF IInv, Shapes
<1>3. Books(mem)' /\ Books(journal)'
  BY DEF Books, Grows, IInv, Shapes
<1>4. Shapes'
  <2>1. task' = [d \in Tasks |-> task'[d]]
    BY DEF IInv, Shapes
  <2>2. \A d \in Tasks : /\ DOMAIN task'[d] = TaskFields
                         /\ task'[d].cursor \in Int
                         /\ task'[d].pc \in {"idle", "deals", "apply", "confirm"}
                         /\ \E S : task'[d].todo \in Seq(S)
    <3> SUFFICES ASSUME NEW d \in Tasks
                 PROVE  /\ DOMAIN task'[d] = TaskFields
                        /\ task'[d].cursor \in Int
                        /\ task'[d].pc \in {"idle", "deals", "apply", "confirm"}
                        /\ \E S : task'[d].todo \in Seq(S)
      OBVIOUS
    <3>1. CASE d = c
      BY <1>2, <3>1
    <3>2. CASE d # c
      BY <1>2, <3>2 DEF IInv, Shapes
    <3> QED
      BY <3>1, <3>2
  <2> QED
    BY <1>1, <1>3, <2>1, <2>2 DEF IInv, Shapes
<1>5. ASSUME NEW i, NEW cursor, In(i, mem, cursor) PROVE In(i, mem, cursor)' /\ In(i, mem', cursor)
  BY <1>5 DEF In, Grows
<1>6. Covers(mem)'
  BY <1>1 DEF Covers, In
<1>7. Covers(journal)'
  <2>1. CASE journal' = journal
    BY <1>1, <2>1 DEF Covers, In, IInv
  <2>2. CASE journal' = mem'
    BY <1>6, <2>2 DEF Covers, In
  <2> QED
    BY <2>1, <2>2
<1>8. ASSUME NEW d \in Tasks PROVE (Running(d) /\ Asking(d) /\ Applying(d))'
  <2>1. CASE d = c
    <3>1. task'[d] = t /\ mem'.since # None
      BY <1>2, <2>1 DEF Grows
    <3>2. Running(d)'
      BY <3>1 DEF Running
    <3>3. Asking(d)'
      BY <1>1, <3>1 DEF Asking, In
    <3>4. Applying(d)'
      BY <1>1, <3>1 DEF Applying, ToDo, In
    <3> QED
      BY <3>2, <3>3, <3>4
  <2>2. CASE d # c
    <3>1. task'[d] = task[d] /\ mem'.since # None
      BY <1>2, <2>2 DEF Grows
    <3>2. Running(d) /\ Asking(d) /\ Applying(d)
      BY DEF IInv, Syncs
    <3>3. Running(d)' /\ Asking(d)'
      BY <1>1, <1>5, <3>1, <3>2 DEF Running, Asking
    <3>4. Applying(d)'
      BY <1>1, <1>5, <3>1, <3>2 DEF Applying, ToDo, In, Grows
    <3> QED
      BY <3>3, <3>4
  <2> QED
    BY <2>1, <2>2
<1> QED
  BY <1>4, <1>6, <1>7, <1>8 DEF IInv, Syncs

(* The tail of what is to do, when its head has been counted. *)
LEMMA TailLeft ==
    ASSUME NEW S, NEW s \in Seq(S), s # <<>>, NEW i, \E k \in DOMAIN s : s[k] = i, i # Head(s)
    PROVE  \E k \in DOMAIN Tail(s) : Tail(s)[k] = i
<1>1. PICK k \in DOMAIN s : s[k] = i
  OBVIOUS
<1>2. k # 1 /\ k - 1 \in DOMAIN Tail(s) /\ Tail(s)[k - 1] = s[k]
  BY <1>1
<1> QED
  BY <1>1, <1>2

(* After deal i of an answer has been counted, or was seen, the others are still to do. *)
LEMMA OneLess ==
    ASSUME IInv, NEW c \in Tasks, task[c].pc = "apply", task[c].todo # <<>>,
           NEW m, mem.ever \subseteq m.ever, Head(task[c].todo) \in m.ever, m.since = mem.since
    PROVE  \A i \in Ids : (\E k \in DOMAIN Tail(task[c].todo) : Tail(task[c].todo)[k] = i)
                          \/ In(i, m, now - MaxDelay + Lookback)
<1> SUFFICES ASSUME NEW i \in Ids, ~In(i, m, now - MaxDelay + Lookback)
             PROVE  \E k \in DOMAIN Tail(task[c].todo) : Tail(task[c].todo)[k] = i
  OBVIOUS
<1>1. ~In(i, mem, now - MaxDelay + Lookback) /\ i # Head(task[c].todo)
  BY DEF In
<1>2. ToDo(c, i)
  BY <1>1 DEF IInv, Syncs, Applying
<1>3. PICK S : task[c].todo \in Seq(S)
  BY DEF IInv, Shapes
<1>4. \E k \in DOMAIN task[c].todo : task[c].todo[k] = i
  BY <1>2 DEF ToDo
<1> DEFINE s == task[c].todo
<1>5. s \in Seq(S) /\ s # <<>> /\ i # Head(s) /\ \E k \in DOMAIN s : s[k] = i
  BY <1>1, <1>3, <1>4
<1> HIDE DEF s
<1>6. \E k \in DOMAIN Tail(s) : Tail(s)[k] = i
  BY <1>5, TailLeft
<1> QED
  BY <1>6 DEF s

(* What the constants say of integers. *)
LEMMA Bounds == Lookback \in Int /\ MaxDelay \in Int /\ MaxDelay <= Lookback
  BY DealSyncAssumption

LEMMA TimeOf == ASSUME IInv, NEW i \in Ids PROVE log[i].time \in Int /\ log[i].time <= now
  BY DEF IInv, Shapes

LEMMA TaskOf ==
    ASSUME IInv, NEW c \in Tasks
    PROVE  /\ DOMAIN task[c] = TaskFields /\ task[c].cursor \in Int
           /\ \E S : task[c].todo \in Seq(S)
           /\ Running(c) /\ Asking(c) /\ Applying(c)
           /\ now \in Int /\ Books(mem) /\ Covers(mem)
  BY DEF IInv, Shapes, Syncs

LEMMA SameBooks == ASSUME IInv PROVE Grows(mem, mem) /\ mem.cursor \in Int /\ mem.cursor <= now
  BY DEF IInv, Shapes, Books, Grows

-----------------------------------------------------------------------------
LEMMA AskKeeps == ASSUME IInv, NEW c \in Tasks, AskDeals(c) PROVE IInv'
<1> DEFINE t == [pc |-> "deals", todo |-> <<>>, cursor |-> mem.cursor, new |-> FALSE]
<1>1. /\ UNCHANGED <<now, log, mem, journal>> /\ task' = [task EXCEPT ![c] = t] /\ mem.since # None
  BY DEF AskDeals
<1>2. DOMAIN t = TaskFields /\ t.cursor = mem.cursor /\ t.pc = "deals" /\ t.todo = <<>>
  BY DEF TaskFields
<1>3. \E S : t.todo \in Seq(S)
  <2>1. <<>> \in Seq({})
    OBVIOUS
  <2> QED
    BY <1>2, <2>1
<1>4. \A i \in Ids : In(i, mem, mem.cursor)
  BY <1>1 DEF IInv, Covers
<1> HIDE DEF t
<1> QED
  BY <1>1, <1>2, <1>3, <1>4, SameBooks, TaskStep

LEMMA GotKeeps == ASSUME IInv, NEW c \in Tasks, GotDeals(c) PROVE IInv'
<1> DEFINE W == Window(Since(task[c].cursor))
<1>1. PICK ids \in InOrder(W) : \E s \in {ids, ids \o ids} : task' = [task EXCEPT ![c].pc = "apply", ![c].todo = s]
  BY DEF GotDeals
<1>2. PICK s \in {ids, ids \o ids} : task' = [task EXCEPT ![c].pc = "apply", ![c].todo = s]
  BY <1>1
<1> DEFINE t == [task[c] EXCEPT !.pc = "apply", !.todo = s]
<1>3. UNCHANGED <<now, log, mem, journal>> /\ task[c].pc = "deals" /\ task' = [task EXCEPT ![c] = t]
  BY <1>2 DEF GotDeals, IInv, Shapes
<1>4. /\ DOMAIN t = TaskFields /\ t.cursor = task[c].cursor /\ t.pc = "apply" /\ t.todo = s
  BY TaskOf DEF TaskFields
<1>5. /\ \E S : s \in Seq(S)
      /\ \A i \in W : \E k \in DOMAIN s : s[k] = i
  <2>1. ids \in [1..Cardinality(W) -> W] /\ Range(ids) = W
    BY DEF InOrder
  <2>2. Cardinality(W) \in Nat
    <3>1. PICK S : log \in Seq(S)
      BY DEF IInv, Shapes
    <3>2. IsFiniteSet(1..Len(log))
      BY <3>1, FS_Interval
    <3> QED
      BY <3>2, FS_Subset, FS_CardinalityType DEF Window, Ids
  <2>3. ids \in Seq(W) /\ DOMAIN ids = 1..Len(ids) /\ Len(ids) \in Nat
    BY <2>1, <2>2
  <2>4. \A i \in W : \E k \in DOMAIN ids : ids[k] = i
    BY <2>1 DEF Range
  <2>5. ids \o ids \in Seq(W) /\ \A k \in DOMAIN ids : k \in DOMAIN (ids \o ids) /\ (ids \o ids)[k] = ids[k]
    BY <2>3
  <2> QED
    BY <1>2, <2>3, <2>4, <2>5
<1>6. mem.since # None /\ t.cursor <= now /\ t.cursor \in Int
  BY <1>3, <1>4, TaskOf DEF Running
<1>7. \A i \in Ids : (\E k \in DOMAIN t.todo : t.todo[k] = i) \/ In(i, mem, now - MaxDelay + Lookback)
  <2> SUFFICES ASSUME NEW i \in Ids
               PROVE  (\E k \in DOMAIN t.todo : t.todo[k] = i) \/ In(i, mem, now - MaxDelay + Lookback)
    OBVIOUS
  <2>1. In(i, mem, task[c].cursor)
    BY <1>3, TaskOf DEF Asking
  <2>2. CASE log[i].time >= task[c].cursor - Lookback
    BY <1>4, <1>5, <2>2 DEF Window, Since
  <2>3. CASE i \in mem.ever \/ log[i].time < mem.since
    BY <2>3 DEF In
  <2> QED
    BY <2>1, <2>2, <2>3 DEF In
<1>8. \A i \in Ids : In(i, mem, mem.cursor)
  BY <1>6 DEF IInv, Covers
<1>9. \E S : t.todo \in Seq(S)
  BY <1>4, <1>5
<1> HIDE DEF t
<1> QED
  BY <1>3, <1>4, <1>6, <1>7, <1>8, <1>9, SameBooks, TaskStep

LEMMA LostKeeps == ASSUME IInv, NEW c \in Tasks, DealsLost(c) PROVE IInv'
<1> DEFINE t == Idle(task[c])
<1>1. UNCHANGED <<now, log, mem, journal>> /\ task[c].pc = "deals" /\ task' = [task EXCEPT ![c] = t]
  BY DEF DealsLost, IInv, Shapes
<1>2. DOMAIN t = TaskFields /\ t.cursor \in Int /\ t.pc = "idle" /\ t.todo = <<>>
  BY TaskOf DEF Idle, TaskFields
<1>3. \E S : t.todo \in Seq(S)
  <2>1. <<>> \in Seq({})
    OBVIOUS
  <2> QED
    BY <1>2, <2>1
<1>4. mem.since # None /\ \A i \in Ids : In(i, mem, mem.cursor)
  BY <1>1, TaskOf DEF Running, Covers
<1> HIDE DEF t
<1> QED
  BY <1>1, <1>2, <1>3, <1>4, SameBooks, TaskStep

LEMMA SkipKeeps == ASSUME IInv, NEW c \in Tasks, SkipSeen(c) PROVE IInv'
<1> DEFINE t == [task[c] EXCEPT !.todo = Tail(task[c].todo)]
<1>1. /\ UNCHANGED <<now, log, mem, journal>> /\ task[c].pc = "apply" /\ task[c].todo # <<>>
      /\ Head(task[c].todo) \in mem.seen /\ task' = [task EXCEPT ![c] = t]
  BY DEF SkipSeen, IInv, Shapes
<1>2. DOMAIN t = TaskFields /\ t.cursor = task[c].cursor /\ t.pc = "apply" /\ t.todo = Tail(task[c].todo)
  BY <1>1, TaskOf DEF TaskFields
<1>3. \E S : t.todo \in Seq(S)
  BY <1>1, <1>2, TaskOf
<1>4. mem.since # None /\ t.cursor \in Int /\ t.cursor <= now /\ \A i \in Ids : In(i, mem, mem.cursor)
  BY <1>1, <1>2, TaskOf DEF Running, Covers
<1>5. Head(task[c].todo) \in mem.ever
  BY <1>1, TaskOf DEF Books
<1>6. \A i \in Ids : (\E k \in DOMAIN t.todo : t.todo[k] = i) \/ In(i, mem, now - MaxDelay + Lookback)
  BY <1>1, <1>2, <1>5, OneLess
<1> HIDE DEF t
<1> QED
  BY <1>1, <1>2, <1>3, <1>4, <1>6, SameBooks, TaskStep

(* What counting deal i makes of the books, whatever else it says of the order. *)
CountedIn(m, i) ==
    /\ DOMAIN m = MemFields
    /\ m.ever = mem.ever \union {i} /\ m.seen \subseteq mem.seen \union {i}
    /\ m.since = mem.since /\ m.cursor = mem.cursor

LEMMA CountedBooks ==
    ASSUME IInv, NEW i, NEW m, CountedIn(m, i)
    PROVE  /\ Grows(mem, m) /\ m.cursor \in Int /\ m.cursor <= now
           /\ mem.since # None => \A j \in Ids : In(j, m, m.cursor)
<1>1. Grows(mem, m) /\ m.cursor \in Int /\ m.cursor <= now
  BY TaskOf DEF CountedIn, Grows, Books, IInv, Shapes
<1>2. mem.since # None => \A j \in Ids : In(j, m, m.cursor)
  BY DEF IInv, Covers, In, CountedIn
<1> QED
  BY <1>1, <1>2

LEMMA AppliedTask ==
    ASSUME IInv, NEW c \in Tasks, NEW i \in Ids, Unseen(c, i)
    PROVE  /\ DOMAIN Applied(c, i) = TaskFields
           /\ Applied(c, i).cursor \in Int /\ Applied(c, i).cursor <= now
           /\ Applied(c, i).pc = "apply" /\ Applied(c, i).todo = Tail(task[c].todo)
           /\ \E S : Applied(c, i).todo \in Seq(S)
           /\ task[c].pc = "apply" /\ task[c].todo # <<>> /\ i = Head(task[c].todo)
           /\ mem.since # None
<1>1. task[c].pc = "apply" /\ task[c].todo # <<>> /\ i = Head(task[c].todo)
  BY DEF Unseen
<1>2. mem.since # None /\ task[c].cursor \in Int /\ task[c].cursor <= now /\ DOMAIN task[c] = TaskFields
  BY <1>1, TaskOf DEF Running
<1>3. /\ DOMAIN Applied(c, i) = TaskFields /\ Applied(c, i).pc = "apply"
      /\ Applied(c, i).todo = Tail(task[c].todo)
      /\ Applied(c, i).cursor = IF log[i].time > task[c].cursor THEN log[i].time ELSE task[c].cursor
  BY <1>1, <1>2 DEF Applied, TaskFields
<1>4. Applied(c, i).cursor \in Int /\ Applied(c, i).cursor <= now
  BY <1>2, <1>3, TimeOf
<1>5. \E S : Applied(c, i).todo \in Seq(S)
  <2>1. PICK S : task[c].todo \in Seq(S)
    BY TaskOf
  <2>2. Tail(task[c].todo) \in Seq(S)
    BY <1>1, <2>1
  <2> QED
    BY <1>3, <2>2
<1> QED
  BY <1>1, <1>2, <1>3, <1>4, <1>5

(* The step of a task that counts its next deal. *)
LEMMA CountStep ==
    ASSUME IInv, NEW c \in Tasks, NEW i \in Ids, Unseen(c, i), NEW t,
           DOMAIN t = TaskFields, t.cursor = Applied(c, i).cursor, t.todo = Applied(c, i).todo,
           t.pc \in {"apply", "confirm"},
           UNCHANGED <<now, log>>, task' = [task EXCEPT ![c] = t],
           CountedIn(mem', i), journal' = journal \/ journal' = mem'
    PROVE  IInv'
<1>1. /\ t.cursor \in Int /\ t.cursor <= now /\ mem.since # None
      /\ \E S : t.todo \in Seq(S)
      /\ task[c].pc = "apply" /\ task[c].todo # <<>> /\ i = Head(task[c].todo) /\ t.todo = Tail(task[c].todo)
  BY AppliedTask
<1>2. Grows(mem, mem') /\ mem'.cursor \in Int /\ mem'.cursor <= now /\ \A j \in Ids : In(j, mem', mem'.cursor)
  BY <1>1, CountedBooks
<1>3. i \in mem'.ever /\ mem.ever \subseteq mem'.ever /\ mem'.since = mem.since
  BY DEF CountedIn
<1>4. \A j \in Ids : (\E k \in DOMAIN t.todo : t.todo[k] = j) \/ In(j, mem', now - MaxDelay + Lookback)
  BY <1>1, <1>3, OneLess
<1> QED
  BY <1>1, <1>2, <1>4, TaskStep

LEMMA CountKeeps == ASSUME IInv, NEW c \in Tasks, CountOnly(c) PROVE IInv'
<1>1. PICK i \in Ids : /\ Unseen(c, i) /\ mem' = Counted(mem, i)
                       /\ task' = [task EXCEPT ![c] = Applied(c, i)]
                       /\ UNCHANGED <<now, log, journal>>
  BY DEF CountOnly
<1>2. CountedIn(mem', i)
  BY <1>1, TaskOf DEF Counted, CountedIn, Books, MemFields
<1>3. DOMAIN Applied(c, i) = TaskFields /\ Applied(c, i).pc = "apply"
  BY <1>1, AppliedTask
<1> QED
  BY <1>1, <1>2, <1>3, CountStep

LEMMA InKeeps == ASSUME IInv, NEW c \in Tasks, ApplyIn(c) PROVE IInv'
<1>1. PICK i \in Ids :
        LET m == [Counted(mem, i) EXCEPT !.net = NetOfEntry(mem, i)] IN
        /\ Unseen(c, i)
        /\ IF mem.st = "sending"
           THEN /\ Save([m EXCEPT !.st = "open", !.lots = log[i].lots, !.entered = TRUE])
                /\ task' = [task EXCEPT ![c] = [Applied(c, i) EXCEPT !.pc = "confirm"]]
           ELSE /\ mem' = m
                /\ task' = [task EXCEPT ![c] = Applied(c, i)]
                /\ UNCHANGED <<journal, lull>>
  BY DEF ApplyIn
<1>2. UNCHANGED <<now, log>>
  BY DEF ApplyIn
<1> DEFINE m == [Counted(mem, i) EXCEPT !.net = NetOfEntry(mem, i)]
           n == [m EXCEPT !.st = "open", !.lots = log[i].lots, !.entered = TRUE]
           t == [Applied(c, i) EXCEPT !.pc = "confirm"]
<1>3. DOMAIN Applied(c, i) = TaskFields /\ Applied(c, i).pc = "apply"
  BY <1>1, AppliedTask
<1>4. DOMAIN mem = MemFields /\ mem.seen \subseteq mem.ever
  BY TaskOf DEF Books
<1>5. CountedIn(m, i) /\ CountedIn(n, i)
  BY <1>4 DEF Counted, CountedIn, MemFields
<1>6. CASE mem.st = "sending"
  <2>1. Save(n) /\ task' = [task EXCEPT ![c] = t]
    BY <1>1, <1>6
  <2>2. DOMAIN t = TaskFields /\ t.cursor = Applied(c, i).cursor /\ t.todo = Applied(c, i).todo /\ t.pc = "confirm"
    BY <1>3 DEF TaskFields
  <2> HIDE DEF n, t
  <2>3. DOMAIN n = MemFields
    BY <1>5 DEF CountedIn
  <2>4. mem' = Pruned(n) /\ journal' = mem' /\ CountedIn(mem', i)
    BY <1>5, <2>1, <2>3, Forgets DEF CountedIn
  <2> QED
    BY <1>1, <1>2, <2>1, <2>2, <2>4, CountStep
<1>7. CASE mem.st # "sending"
  <2>1. mem' = m /\ task' = [task EXCEPT ![c] = Applied(c, i)] /\ journal' = journal
    BY <1>1, <1>7
  <2> QED
    BY <1>1, <1>2, <1>3, <1>5, <2>1, CountStep
<1> QED
  BY <1>6, <1>7

(* What the end of an order leaves alone of the books. *)
Ended(m) == [m EXCEPT !.st = "closed", !.lots = 0]

LEMMA EndedFields ==
    ASSUME NEW m, DOMAIN m = MemFields
    PROVE  /\ DOMAIN Ended(m) = MemFields /\ Ended(m).st = "closed" /\ Ended(m).lots = 0
           /\ Ended(m).entered = m.entered /\ Ended(m).net = m.net /\ Ended(m).out = m.out
           /\ Ended(m).ever = m.ever /\ Ended(m).seen = m.seen /\ Ended(m).since = m.since
           /\ Ended(m).cursor = m.cursor /\ Ended(m).expected = m.expected
  BY DEF Ended, MemFields

LEMMA OutKeeps == ASSUME IInv, NEW c \in Tasks, ApplyOut(c) PROVE IInv'
<1>1. PICK i \in Ids :
        LET m == [Counted(mem, i) EXCEPT !.net = @ + log[i].cash, !.out = @ + log[i].lots,
                                         !.lots = @ - log[i].lots] IN
        /\ Unseen(c, i)
        /\ mem' \in {m, [m EXCEPT !.st = "closed", !.lots = 0]}
        /\ task' = [task EXCEPT ![c] = Applied(c, i)]
  BY DEF ApplyOut
<1>2. UNCHANGED <<now, log, journal>>
  BY DEF ApplyOut
<1>3. DOMAIN Applied(c, i) = TaskFields /\ Applied(c, i).pc = "apply"
  BY <1>1, AppliedTask
<1>4. DOMAIN mem = MemFields /\ mem.seen \subseteq mem.ever
  BY TaskOf DEF Books
<1> DEFINE m == [Counted(mem, i) EXCEPT !.net = @ + log[i].cash, !.out = @ + log[i].lots, !.lots = @ - log[i].lots]
<1>5. CountedIn(m, i)
  BY <1>4 DEF Counted, CountedIn, MemFields
<1>6. mem' = m \/ mem' = Ended(m)
  BY <1>1 DEF Ended
<1> HIDE DEF m
<1>7. CountedIn(mem', i)
  <2>1. CASE mem' = m
    BY <1>5, <2>1
  <2>2. CASE mem' = Ended(m)
    <3>1. DOMAIN m = MemFields
      BY <1>5 DEF CountedIn
    <3> QED
      BY <1>5, <2>2, <3>1, EndedFields DEF CountedIn
  <2> QED
    BY <1>6, <2>1, <2>2
<1> QED
  BY <1>1, <1>2, <1>3, <1>7, CountStep

LEMMA ConfirmKeeps == ASSUME IInv, NEW c \in Tasks, StopConfirmed(c) PROVE IInv'
<1> DEFINE t == [task[c] EXCEPT !.pc = "apply"]
<1>1. UNCHANGED <<now, log, mem, journal>> /\ task[c].pc = "confirm" /\ task' = [task EXCEPT ![c] = t]
  BY DEF StopConfirmed, IInv, Shapes
<1>2. DOMAIN t = TaskFields /\ t.cursor = task[c].cursor /\ t.pc = "apply" /\ t.todo = task[c].todo
  BY TaskOf DEF TaskFields
<1>3. \E S : t.todo \in Seq(S)
  BY <1>2, TaskOf
<1>4. mem.since # None /\ t.cursor \in Int /\ t.cursor <= now /\ \A i \in Ids : In(i, mem, mem.cursor)
  BY <1>1, <1>2, TaskOf DEF Running, Covers
<1>5. \A i \in Ids : (\E k \in DOMAIN t.todo : t.todo[k] = i) \/ In(i, mem, now - MaxDelay + Lookback)
  BY <1>1, <1>2, TaskOf DEF Applying, ToDo
<1> HIDE DEF t
<1> QED
  BY <1>1, <1>2, <1>3, <1>4, <1>5, SameBooks, TaskStep

(* With nothing left to apply, what is not counted is younger than the payments may be late. *)
LEMMA SyncDoneKeeps == ASSUME IInv, NEW c \in Tasks, SyncDone(c) PROVE IInv'
<1> DEFINE t == Idle(task[c])
           m == [mem EXCEPT !.cursor = task[c].cursor]
<1>1. /\ UNCHANGED <<now, log>> /\ task[c].pc = "apply" /\ task[c].todo = <<>>
      /\ task' = [task EXCEPT ![c] = t]
  BY DEF SyncDone, IInv, Shapes
<1>2. DOMAIN t = TaskFields /\ t.cursor \in Int /\ t.pc = "idle" /\ t.todo = <<>>
  BY TaskOf DEF Idle, TaskFields
<1>3. \E S : t.todo \in Seq(S)
  <2>1. <<>> \in Seq({})
    OBVIOUS
  <2> QED
    BY <1>2, <2>1
<1>4. mem.since # None /\ task[c].cursor \in Int /\ task[c].cursor <= now
  BY <1>1, TaskOf DEF Running
<1>5. /\ Grows(mem, mem') /\ mem'.cursor \in Int /\ mem'.cursor <= now
      /\ journal' = journal \/ journal' = mem'
      /\ \A i \in Ids : In(i, mem', mem'.cursor)
  <2>1. CASE Save(m)
    <3>1. DOMAIN mem = MemFields /\ mem.seen \subseteq mem.ever
      BY TaskOf DEF Books
    <3>2. /\ DOMAIN m = MemFields /\ m.ever = mem.ever /\ m.seen = mem.seen /\ m.since = mem.since
          /\ m.cursor = task[c].cursor
      BY <3>1 DEF MemFields
    <3> HIDE DEF m
    <3>3. /\ mem' = Pruned(m) /\ journal' = mem' /\ DOMAIN mem' = MemFields /\ mem'.ever = mem.ever
          /\ mem'.since = mem.since /\ mem'.cursor = task[c].cursor /\ mem'.seen \subseteq mem.seen
      BY <2>1, <3>2, Forgets
    <3>4. ASSUME NEW i \in Ids PROVE In(i, mem', task[c].cursor)
      <4>1. In(i, mem, now - MaxDelay + Lookback)
        BY <1>1, TaskOf DEF Applying, ToDo
      <4>2. log[i].time >= (now - MaxDelay + Lookback) - Lookback => log[i].time >= task[c].cursor - Lookback
        BY <1>4, Bounds, TimeOf, TaskOf
      <4>3. /\ In(i, mem, now - MaxDelay + Lookback) <=>
                  i \in mem.ever \/ log[i].time >= (now - MaxDelay + Lookback) - Lookback \/ log[i].time < mem.since
            /\ In(i, mem', task[c].cursor) <=>
                  i \in mem'.ever \/ log[i].time >= task[c].cursor - Lookback \/ log[i].time < mem'.since
        BY DEF In
      <4> QED
        BY <3>3, <4>1, <4>2, <4>3
    <3> QED
      BY <1>4, <3>1, <3>3, <3>4 DEF Grows
  <2>2. CASE UNCHANGED <<mem, journal>>
    BY <1>4, <2>2, SameBooks DEF IInv, Covers
  <2> QED
    BY <2>1, <2>2 DEF SyncDone, Cursor
<1> HIDE DEF t
<1> QED
  BY <1>1, <1>2, <1>3, <1>4, <1>5, TaskStep

LEMMA SyncKeeps == ASSUME IInv, NEW c \in Tasks, Sync(c) PROVE IInv'
  BY AskKeeps, GotKeeps, LostKeeps, SkipKeeps, CountKeeps, InKeeps, ConfirmKeeps, OutKeeps, SyncDoneKeeps
     DEF Sync

-----------------------------------------------------------------------------
(* The other steps. *)
(* Books that change without a deal, a task or the clock. *)
LEMMA SaveKeeps ==
    ASSUME IInv, NEW m, Save(m), UNCHANGED <<now, log, task>>,
           DOMAIN m = MemFields, m.ever = mem.ever, m.seen = mem.seen, m.since = mem.since, m.cursor = mem.cursor
    PROVE  IInv'
<1>1. /\ journal' = mem' /\ DOMAIN mem' = MemFields /\ mem'.ever = mem.ever /\ mem'.since = mem.since
      /\ mem'.cursor = mem.cursor /\ mem'.seen \subseteq mem.seen
  BY Forgets
<1>2. Ids' = Ids
  BY DEF Ids
<1>3. Books(mem)' /\ Books(journal)'
  BY <1>1 DEF IInv, Shapes, Books
<1>4. Shapes'
  BY <1>2, <1>3 DEF IInv, Shapes
<1>5. ASSUME NEW i, NEW cursor PROVE In(i, mem', cursor) <=> In(i, mem, cursor)
  BY <1>1 DEF In
<1>6. Covers(mem)' /\ Covers(journal)'
  BY <1>1, <1>2 DEF IInv, Covers, In
<1>7. Syncs'
  BY <1>1, <1>2 DEF IInv, Syncs, Running, Asking, Applying, ToDo, In
<1> QED
  BY <1>4, <1>6, <1>7 DEF IInv

LEMMA OtherKeeps == ASSUME IInv, OtherSave PROVE IInv'
<1>1. DOMAIN mem = MemFields
  BY DEF IInv, Shapes, Books
<1> QED
  BY <1>1, SaveKeeps DEF OtherSave

(* From initialize on a deal is before the books, or in their window. *)
LEMMA InitializeKeeps == ASSUME IInv, Initialize PROVE IInv'
<1> DEFINE m == [mem EXCEPT !.since = now, !.cursor = now, !.expected = Total(start.known)]
<1>1. Save(m) /\ UNCHANGED <<now, log, task>> /\ mem.since = None
  BY DEF Initialize
<1>2. DOMAIN mem = MemFields /\ mem.seen \subseteq mem.ever /\ now \in Nat
  BY DEF IInv, Shapes, Books
<1>3. DOMAIN m = MemFields /\ m.ever = mem.ever /\ m.seen = mem.seen /\ m.since = now /\ m.cursor = now
  BY <1>2 DEF MemFields
<1> HIDE DEF m
<1>4. /\ journal' = mem' /\ DOMAIN mem' = MemFields /\ mem'.ever = mem.ever /\ mem'.since = now
      /\ mem'.cursor = now /\ mem'.seen \subseteq mem.seen
  BY <1>1, <1>3, Forgets
<1>5. Ids' = Ids
  BY <1>1 DEF Ids
<1>6. Books(mem)' /\ Books(journal)'
  BY <1>1, <1>2, <1>4 DEF Books
<1>7. Shapes'
  BY <1>1, <1>5, <1>6 DEF IInv, Shapes
<1>8. ASSUME NEW i \in Ids PROVE In(i, mem', now)
  <2>1. log[i].time >= now - Lookback \/ log[i].time < now
    BY <1>2, TimeOf, DealSyncAssumption
  <2> QED
    BY <1>4, <2>1 DEF In
<1>9. Covers(mem)' /\ Covers(journal)'
  BY <1>1, <1>4, <1>5, <1>8 DEF Covers, In
<1>10. \A c \in Tasks : task[c].pc = "idle"
  BY <1>1 DEF IInv, Syncs, Running
<1>11. Syncs'
  BY <1>1, <1>10 DEF Syncs, Running, Asking, Applying
<1> QED
  BY <1>7, <1>9, <1>11 DEF IInv

(* A deal is booked with a time of now, or a payment one that is a little earlier. *)
LEMMA Booking ==
    ASSUME IInv, NEW d, log' = Append(log, d),
           d.time \in Int, d.time <= now, d.time >= now - MaxDelay,
           UNCHANGED <<now, task>>,
           DOMAIN mem' = MemFields, mem'.ever = mem.ever, mem'.seen \subseteq mem.seen,
           mem'.since = mem.since, mem'.cursor = mem.cursor,
           journal' = journal \/ journal' = mem'
    PROVE  IInv'
<1>1. PICK S : log \in Seq(S)
  BY DEF IInv, Shapes
<1>2. now \in Nat /\ Lookback \in Int /\ MaxDelay \in Int /\ MaxDelay <= Lookback
  BY Bounds DEF IInv, Shapes
<1>3. /\ log' \in Seq(S \union {d}) /\ Ids' = Ids \union {Len(log) + 1} /\ Len(log) + 1 \notin Ids
      /\ log'[Len(log) + 1] = d
      /\ \A i \in Ids : log'[i] = log[i]
  BY <1>1 DEF Ids
<1>4. \A i \in Ids' : log'[i].time \in Int /\ log'[i].time <= now
  BY <1>3, TimeOf
<1>5. Books(mem)' /\ Books(journal)'
  BY DEF IInv, Shapes, Books
<1>6. Shapes'
  BY <1>2, <1>3, <1>4, <1>5 DEF IInv, Shapes
<1> DEFINE Within(i, m, cursor) == i \in m.ever \/ log'[i].time >= cursor - Lookback \/ log'[i].time < m.since
<1>7. ASSUME NEW i \in Ids', NEW m, NEW cursor \in Int, cursor <= now,
             i \in Ids => In(i, m, cursor)
      PROVE  Within(i, m, cursor)
  <2>1. CASE i \in Ids
    BY <1>3, <1>7, <2>1 DEF In
  <2>2. CASE i = Len(log) + 1
    <3>1. log'[i].time >= cursor - Lookback
      BY <1>2, <1>3, <1>7, <2>2
    <3> QED
      BY <3>1
  <2> QED
    BY <1>3, <2>1, <2>2
<1>8. mem.cursor \in Int /\ mem.cursor <= now /\ journal.cursor \in Int /\ journal.cursor <= now
  BY DEF IInv, Shapes, Books
<1>9. mem.since # None => \A i \in Ids' : Within(i, mem, mem.cursor)
  BY <1>7, <1>8 DEF IInv, Covers
<1>10. journal.since # None => \A i \in Ids' : Within(i, journal, journal.cursor)
  BY <1>7, <1>8 DEF IInv, Covers
<1>11. Covers(mem)'
  BY <1>9 DEF Covers, In
<1>12. Covers(journal)'
  BY <1>10, <1>11 DEF Covers, In
<1>13. ASSUME NEW c \in Tasks PROVE (Running(c) /\ Asking(c) /\ Applying(c))'
  <2>1. Running(c)'
    BY TaskOf DEF Running
  <2>2. Asking(c)'
    <3>1. CASE task[c].pc = "deals"
      <4>1. \A i \in Ids' : Within(i, mem, task[c].cursor)
        BY <1>7, <3>1, TaskOf DEF Running, Asking
      <4> QED
        BY <4>1 DEF Asking, In
    <3>2. CASE task[c].pc # "deals"
      BY <3>2 DEF Asking
    <3> QED
      BY <3>1, <3>2
  <2>3. Applying(c)'
    <3>1. CASE task[c].pc \in {"apply", "confirm"}
      <4>1. ASSUME NEW i \in Ids' PROVE ToDo(c, i) \/ Within(i, mem, now - MaxDelay + Lookback)
        <5>1. CASE i \in Ids
          <6>1. ToDo(c, i) \/ In(i, mem, now - MaxDelay + Lookback)
            BY <3>1, <5>1, TaskOf DEF Applying
          <6>2. log'[i] = log[i]
            BY <1>3, <5>1
          <6>3. In(i, mem, now - MaxDelay + Lookback) => Within(i, mem, now - MaxDelay + Lookback)
            BY <6>2 DEF In
          <6> QED
            BY <6>1, <6>3
        <5>2. CASE i = Len(log) + 1
          <6>1. log'[i].time >= (now - MaxDelay + Lookback) - Lookback
            BY <1>2, <1>3, <5>2
          <6> QED
            BY <6>1
        <5> QED
          BY <1>3, <5>1, <5>2
      <4> QED
        BY <4>1 DEF Applying, ToDo, In
    <3>2. CASE task[c].pc \notin {"apply", "confirm"}
      BY <3>2 DEF Applying
    <3> QED
      BY <3>1, <3>2
  <2> QED
    BY <2>1, <2>2, <2>3
<1> QED
  BY <1>6, <1>11, <1>12, <1>13 DEF IInv, Syncs

LEMMA BrokerKeeps == ASSUME IInv, Fill \/ FillAnswered \/ Reduce \/ Pay PROVE IInv'
<1>1. now \in Nat /\ MaxDelay \in Nat /\ DOMAIN mem = MemFields
  BY DealSyncAssumption DEF IInv, Shapes, Books
<1> DEFINE D(kind, lots, time) == [time |-> time, kind |-> kind, lots |-> lots, cash |-> Cash(kind, lots)]
<1>2. ASSUME NEW kind, NEW lots, NEW time PROVE D(kind, lots, time).time = time
  OBVIOUS
<1>3. CASE Fill
  <2>1. log' = Append(log, D("in", Lots, now)) /\ UNCHANGED <<now, task, mem, journal>>
    BY <1>3 DEF Fill, Book, Untouched
  <2> HIDE DEF D
  <2> QED
    BY <1>1, <1>2, <2>1, Booking
<1>4. CASE FillAnswered
  <2> DEFINE m == [mem EXCEPT !.st = "open", !.entered = TRUE]
  <2>1. log' = Append(log, D("in", Lots, now)) /\ UNCHANGED <<now, task>> /\ Save(m)
    BY <1>4 DEF FillAnswered, Book
  <2>2. /\ DOMAIN m = MemFields /\ m.ever = mem.ever /\ m.seen = mem.seen /\ m.since = mem.since
        /\ m.cursor = mem.cursor
    BY <1>1 DEF MemFields
  <2> HIDE DEF D, m
  <2>3. /\ journal' = mem' /\ DOMAIN mem' = MemFields /\ mem'.ever = mem.ever
        /\ mem'.since = mem.since /\ mem'.cursor = mem.cursor /\ mem'.seen \subseteq mem.seen
    BY <2>1, <2>2, Forgets
  <2> QED
    BY <1>1, <1>2, <2>1, <2>3, Booking
<1>5. CASE Reduce
  <2>1. PICK lots \in 0..held : log' = Append(log, D("out", lots, now)) /\ UNCHANGED <<now, task, mem, journal>>
    BY <1>5 DEF Reduce, Book, Untouched
  <2> HIDE DEF D
  <2> QED
    BY <1>1, <1>2, <2>1, Booking
<1>6. CASE Pay
  <2>1. PICK time \in (now - MaxDelay)..now :
          log' = Append(log, D("balance", 0, time)) /\ UNCHANGED <<now, task, mem, journal>>
    BY <1>6 DEF Pay, Book, Untouched
  <2> HIDE DEF D
  <2> QED
    BY <1>1, <1>2, <2>1, Booking
<1> QED
  BY <1>3, <1>4, <1>5, <1>6

LEMMA StillKeeps ==
    ASSUME IInv, UNCHANGED <<log, mem, journal, task>>, now' \in Nat, now' >= now,
           now' = now \/ \A c \in Tasks : task[c].pc = "idle"
    PROVE  IInv'
<1>1. Ids' = Ids
  BY DEF Ids
<1>2. Books(mem)' /\ Books(journal)'
  BY DEF IInv, Shapes, Books
<1>3. \A i \in Ids : log[i].time \in Int /\ log[i].time <= now'
  BY DEF IInv, Shapes
<1>4. Shapes'
  BY <1>1, <1>2, <1>3 DEF IInv, Shapes
<1>5. Covers(mem)' /\ Covers(journal)'
  BY <1>1 DEF IInv, Covers, In
<1>6. Syncs'
  <2>1. CASE now' = now
    BY <1>1, <2>1 DEF IInv, Syncs, Running, Asking, Applying, ToDo, In
  <2>2. CASE \A c \in Tasks : task[c].pc = "idle"
    BY <2>2 DEF Syncs, Running, Asking, Applying
  <2> QED
    BY <2>1, <2>2
<1> QED
  BY <1>4, <1>5, <1>6 DEF IInv

LEMMA CrashKeeps == ASSUME IInv, Crash PROVE IInv'
<1>1. UNCHANGED <<now, log, journal>> /\ mem' = journal /\ task' = [c \in Tasks |-> Idle(task[c])]
  BY DEF Crash
<1>2. Ids' = Ids
  BY <1>1 DEF Ids
<1>3. Books(mem)' /\ Books(journal)'
  BY <1>1 DEF IInv, Shapes, Books
<1>4. ASSUME NEW c \in Tasks
      PROVE  /\ DOMAIN task'[c] = TaskFields /\ task'[c].cursor \in Int /\ task'[c].pc = "idle"
             /\ \E S : task'[c].todo \in Seq(S)
  <2>1. task'[c] = Idle(task[c]) /\ DOMAIN task[c] = TaskFields
    BY <1>1, TaskOf
  <2>2. DOMAIN task'[c] = TaskFields /\ task'[c].cursor = 0 /\ task'[c].pc = "idle" /\ task'[c].todo = <<>>
    BY <2>1 DEF Idle, TaskFields
  <2>3. <<>> \in Seq({})
    OBVIOUS
  <2> QED
    BY <2>2, <2>3
<1>5. task' = [c \in Tasks |-> task'[c]]
  BY <1>1
<1>6. Shapes'
  BY <1>1, <1>2, <1>3, <1>4, <1>5 DEF IInv, Shapes
<1>7. Covers(mem)' /\ Covers(journal)'
  BY <1>1, <1>2 DEF IInv, Covers, In
<1>8. Syncs'
  BY <1>4 DEF Syncs, Running, Asking, Applying
<1> QED
  BY <1>6, <1>7, <1>8 DEF IInv

LEMMA Inductive == IInv /\ [Next]_vars => IInv'
<1> SUFFICES ASSUME IInv, [Next]_vars PROVE IInv'
  OBVIOUS
<1>1. now \in Nat
  BY DEF IInv, Shapes
<1>2. CASE OtherSave
  BY <1>2, OtherKeeps
<1>3. CASE ReadBalance
  BY <1>1, <1>3, StillKeeps DEF ReadBalance
<1>4. CASE Initialize
  BY <1>4, InitializeKeeps
<1>5. CASE \E c \in Tasks : Sync(c)
  BY <1>5, SyncKeeps
<1>6. CASE Fill \/ FillAnswered \/ Reduce \/ Pay
  BY <1>6, BrokerKeeps
<1>7. CASE Tick
  <2>1. UNCHANGED <<log, mem, journal, task>> /\ now' = now + 1 /\ \A c \in Tasks : task[c].pc = "idle"
    BY <1>7 DEF Tick
  <2> QED
    BY <1>1, <2>1, StillKeeps
<1>8. CASE Crash
  BY <1>8, CrashKeeps
<1>9. CASE UNCHANGED vars
  <2>1. UNCHANGED <<now, log, mem, journal, task>>
    BY <1>9 DEF vars
  <2> QED
    BY <1>1, <2>1, StillKeeps
<1> QED
  BY <1>2, <1>3, <1>4, <1>5, <1>6, <1>7, <1>8, <1>9 DEF Next

LEMMA IInvGives == IInv => NothingMissed
  BY DEF IInv, Covers, In, NothingMissed, Since

(* OrderManager.sync_deals: every deal at the broker is in the saved books, or older than they
   are, or in the window of the query that follows, after a restart too, for every number of
   tasks and every lookback that payments do not exceed. *)
THEOREM NothingIsMissed == Spec => []NothingMissed
<1>1. Spec => []IInv
  BY InitInv, Inductive, PTL DEF Spec
<1> QED
  BY <1>1, IInvGives, PTL

-----------------------------------------------------------------------------
(* Sums. *)
LEMMA Below == \A x, y \in Nat : x < y => <<x, y>> \in OpToRel(<, Nat)
  BY Zenon DEF OpToRel

LEMMA Least ==
    ASSUME NEW T \in SUBSET Nat, T # {}
    PROVE  \E n \in T : \A m \in T : n <= m
<1>1. PICK n \in T : \A m \in T : ~ (<<m, n>> \in OpToRel(<, Nat))
  BY Zenon, NatLessThanWellFounded, WFMin
<1>2. ASSUME NEW m \in T PROVE n <= m
  <2>1. ~(m < n)
    BY Zenon, <1>1, Below
  <2>2. n \in Nat /\ m \in Nat
    BY Zenon
  <2> QED
    BY <2>1, <2>2
<1> QED
  BY <1>2, Zenon

(* A sum over the subsets of S as the folds compute it: the element picked, and the rest. *)
Pick(s) == CHOOSE x \in s : TRUE
Adds(f, h, s) == f[s] = IF s = {} THEN 0 ELSE h[Pick(s)] + f[s \ {Pick(s)}]

LEMMA Picked ==
    ASSUME NEW S, IsFiniteSet(S), NEW s \in SUBSET S
    PROVE  /\ Cardinality(s) \in Nat /\ Cardinality(s) <= Cardinality(S) /\ Cardinality(S) \in Nat
           /\ s = {} <=> Cardinality(s) = 0
           /\ s # {} => /\ Pick(s) \in s /\ s \ {Pick(s)} \in SUBSET S
                        /\ Cardinality(s \ {Pick(s)}) = Cardinality(s) - 1
<1>1. IsFiniteSet(s) /\ Cardinality(s) <= Cardinality(S)
  BY FS_Subset
<1>2. Cardinality(s) \in Nat /\ Cardinality(S) \in Nat
  BY <1>1, FS_CardinalityType
<1>3. s = {} <=> Cardinality(s) = 0
  BY <1>1, FS_EmptySet
<1>4. s # {} => Pick(s) \in s
  BY DEF Pick
<1>5. \A x \in s : Cardinality(s \ {x}) = Cardinality(s) - 1
  BY <1>1, FS_RemoveElement
<1> QED
  BY <1>1, <1>2, <1>3, <1>4, <1>5

Upto(h, S, n) == \E f \in [SUBSET S -> Int] : \A s \in SUBSET S : Cardinality(s) <= n => Adds(f, h, s)

LEMMA UptoNext ==
    ASSUME NEW S, IsFiniteSet(S), NEW h \in [S -> Int], NEW n \in Nat, Upto(h, S, n)
    PROVE  Upto(h, S, n + 1)
<1>1. PICK f \in [SUBSET S -> Int] : \A s \in SUBSET S : Cardinality(s) <= n => Adds(f, h, s)
  BY DEF Upto
<1> DEFINE g == [s \in SUBSET S |-> IF Cardinality(s) = n + 1 THEN h[Pick(s)] + f[s \ {Pick(s)}] ELSE f[s]]
<1>2. ASSUME NEW s \in SUBSET S PROVE g[s] \in Int
  <2>1. CASE Cardinality(s) = n + 1
    <3>1. s # {} /\ Pick(s) \in S /\ s \ {Pick(s)} \in SUBSET S
      BY <2>1, Picked
    <3> QED
      BY <2>1, <3>1
  <2>2. CASE Cardinality(s) # n + 1
    BY <2>2
  <2> QED
    BY <2>1, <2>2
<1>3. g \in [SUBSET S -> Int]
  BY <1>2
<1>4. ASSUME NEW s \in SUBSET S, Cardinality(s) <= n + 1 PROVE Adds(g, h, s)
  <2>1. CASE Cardinality(s) = n + 1
    <3>1. s # {} /\ s \ {Pick(s)} \in SUBSET S /\ Cardinality(s \ {Pick(s)}) = n
      BY <2>1, Picked
    <3>2. g[s \ {Pick(s)}] = f[s \ {Pick(s)}] /\ g[s] = h[Pick(s)] + f[s \ {Pick(s)}]
      BY <2>1, <3>1
    <3> QED
      BY <3>1, <3>2 DEF Adds
  <2>2. CASE Cardinality(s) <= n
    <3>0. Cardinality(s) \in Nat
      BY Picked
    <3>1. Adds(f, h, s) /\ g[s] = f[s]
      BY <1>1, <2>2, <3>0
    <3>2. CASE s = {}
      BY <3>1, <3>2 DEF Adds
    <3>3. CASE s # {}
      <4>1. s \ {Pick(s)} \in SUBSET S /\ Cardinality(s \ {Pick(s)}) = Cardinality(s) - 1
        BY <3>3, Picked
      <4>2. Cardinality(s \ {Pick(s)}) # n + 1
        BY <2>2, <3>0, <4>1
      <4>3. g[s \ {Pick(s)}] = f[s \ {Pick(s)}]
        BY <4>1, <4>2
      <4> QED
        BY <3>1, <3>3, <4>3 DEF Adds
    <3> QED
      BY <3>2, <3>3
  <2>3. Cardinality(s) \in Nat
    BY Picked
  <2> QED
    BY <1>4, <2>1, <2>2, <2>3
<1> HIDE DEF g
<1> QED
  BY <1>3, <1>4 DEF Upto

LEMMA UptoAll ==
    ASSUME NEW S, IsFiniteSet(S), NEW h \in [S -> Int]
    PROVE  \A n \in Nat : Upto(h, S, n)
<1> DEFINE Bad == {n \in Nat : ~Upto(h, S, n)}
<1>1. SUFFICES ASSUME Bad # {} PROVE FALSE
  OBVIOUS
<1>2. PICK n \in Bad : \A m \in Bad : n <= m
  BY <1>1, Least
<1>3. CASE n = 0
  <2> DEFINE f == [s \in SUBSET S |-> 0]
  <2>1. f \in [SUBSET S -> Int] /\ \A s \in SUBSET S : Cardinality(s) <= 0 => Adds(f, h, s)
    <3>1. \A s \in SUBSET S : Cardinality(s) \in Nat /\ (s = {} <=> Cardinality(s) = 0)
      BY Picked
    <3> QED
      BY <3>1 DEF Adds
  <2> HIDE DEF f
  <2> QED
    BY <1>3, <2>1 DEF Upto
<1>4. CASE n # 0
  <2>1. n - 1 \in Nat /\ n - 1 \notin Bad /\ (n - 1) + 1 = n
    BY <1>2, <1>4
  <2>2. Upto(h, S, n - 1)
    BY <2>1
  <2> QED
    BY <2>1, <2>2, UptoNext
<1> QED
  BY <1>3, <1>4

Tally(f, h, S) == [s \in SUBSET S |-> IF s = {} THEN 0 ELSE h[Pick(s)] + f[s \ {Pick(s)}]]

LEMMA SumExists ==
    ASSUME NEW S, IsFiniteSet(S), NEW h \in [S -> Int]
    PROVE  \E f : f = Tally(f, h, S)
<1>1. Cardinality(S) \in Nat /\ \A s \in SUBSET S : Cardinality(s) <= Cardinality(S)
  BY Picked
<1>0. Upto(h, S, Cardinality(S))
  BY <1>1, UptoAll
<1>2. PICK f \in [SUBSET S -> Int] : \A s \in SUBSET S : Adds(f, h, s)
  BY <1>0, <1>1 DEF Upto
<1>3. f = Tally(f, h, S)
  BY <1>2 DEF Adds, Tally
<1> QED
  BY <1>3

NotInt(f, S, n) == \E s \in SUBSET S : Cardinality(s) = n /\ f[s] \notin Int

LEMMA SumIsInt ==
    ASSUME NEW S, IsFiniteSet(S), NEW h \in [S -> Int], NEW f, \A s \in SUBSET S : Adds(f, h, s)
    PROVE  \A s \in SUBSET S : f[s] \in Int
<1> DEFINE Bad == {n \in Nat : NotInt(f, S, n)}
<1>0. \A s \in SUBSET S : Cardinality(s) \in Nat
  BY Picked
<1>1. ASSUME Bad # {} PROVE FALSE
  <2>1. PICK n \in Bad : \A m \in Bad : n <= m
    BY <1>1, Least
  <2> HIDE DEF Bad
  <2>0. n \in Nat /\ NotInt(f, S, n) /\ (n - 1 \in Nat => ~NotInt(f, S, n - 1))
    BY <2>1 DEF Bad
  <2>2. PICK s \in SUBSET S : Cardinality(s) = n /\ f[s] \notin Int
    BY <2>0 DEF NotInt
  <2>3. Adds(f, h, s)
    BY <2>2
  <2>4. s # {}
    BY <2>2, <2>3 DEF Adds
  <2>5. /\ Pick(s) \in s /\ s \ {Pick(s)} \in SUBSET S
        /\ Cardinality(s \ {Pick(s)}) = Cardinality(s) - 1
    BY <2>4, Picked
  <2>6. Cardinality(s \ {Pick(s)}) \in Nat
    BY <1>0, <2>5
  <2>7. f[s \ {Pick(s)}] \in Int
    BY <2>0, <2>2, <2>5, <2>6 DEF NotInt
  <2>8. h[Pick(s)] \in Int
    BY <2>5
  <2> QED
    BY <2>2, <2>3, <2>4, <2>7, <2>8 DEF Adds
<1> QED
  BY <1>0, <1>1 DEF NotInt

(* A sum does not depend on how it was worked out, and one term may be taken out of it. *)
Sums(f, h, R) == \A s \in SUBSET R : Adds(f, h, s)

LEMMA TallySame ==
    ASSUME NEW R, IsFiniteSet(R), NEW h, NEW e, NEW f, Sums(e, h, R), Sums(f, h, R)
    PROVE  e[R] = f[R]
<1> DEFINE Differ(n) == \E s \in SUBSET R : Cardinality(s) = n /\ e[s] # f[s]
           Bad == {n \in Nat : Differ(n)}
<1>0. \A s \in SUBSET R : Cardinality(s) \in Nat
  BY Picked
<1>1. ASSUME Bad # {} PROVE FALSE
  <2>1. PICK n \in Bad : \A m \in Bad : n <= m
    BY <1>1, Least
  <2>2. n \in Nat /\ Differ(n) /\ (n - 1 \in Nat => ~Differ(n - 1))
    BY <2>1
  <2>3. PICK s \in SUBSET R : Cardinality(s) = n /\ e[s] # f[s]
    BY <2>2
  <2>4. Adds(e, h, s) /\ Adds(f, h, s)
    BY <2>3 DEF Sums
  <2>5. s # {}
    BY <2>3, <2>4 DEF Adds
  <2>6. Pick(s) \in s /\ s \ {Pick(s)} \in SUBSET R /\ Cardinality(s \ {Pick(s)}) = n - 1 /\ n - 1 \in Nat
    <3>1. Pick(s) \in s /\ Cardinality(s \ {Pick(s)}) = Cardinality(s) - 1
      BY <1>0, <2>5, Picked
    <3>2. s \ {Pick(s)} \in SUBSET R
      BY <2>3
    <3> QED
      BY <1>0, <2>3, <3>1, <3>2
  <2>7. e[s \ {Pick(s)}] = f[s \ {Pick(s)}]
    BY <2>2, <2>6
  <2> QED
    BY <2>3, <2>4, <2>5, <2>7 DEF Adds
<1> QED
  BY <1>0, <1>1

LEMMA TallySplit ==
    ASSUME NEW S, IsFiniteSet(S), NEW h \in [S -> Int], NEW f, \A s \in SUBSET S : Adds(f, h, s)
    PROVE  \A s \in SUBSET S : \A x \in s : f[s] = h[x] + f[s \ {x}]
<1> DEFINE Fails(n) == \E s \in SUBSET S : Cardinality(s) = n /\ \E x \in s : f[s] # h[x] + f[s \ {x}]
           Bad == {n \in Nat : Fails(n)}
<1>0. \A s \in SUBSET S : Cardinality(s) \in Nat /\ f[s] \in Int
  <2>1. \A s \in SUBSET S : f[s] \in Int
    BY SumIsInt
  <2> QED
    BY <2>1, Picked
<1>1. ASSUME Bad # {} PROVE FALSE
  <2>1. PICK n \in Bad : \A m \in Bad : n <= m
    BY <1>1, Least
  <2>2. n \in Nat /\ Fails(n) /\ (n - 1 \in Nat => ~Fails(n - 1))
    BY <2>1
  <2>3. PICK s \in SUBSET S : Cardinality(s) = n /\ \E x \in s : f[s] # h[x] + f[s \ {x}]
    BY <2>2
  <2>4. PICK x \in s : f[s] # h[x] + f[s \ {x}]
    BY <2>3
  <2> DEFINE p == Pick(s)
  <2>5. s # {} /\ p \in s /\ Cardinality(s \ {p}) = n - 1
    BY <2>3, <2>4, Picked
  <2>6. Adds(f, h, s)
    BY <2>3
  <2> HIDE DEF p
  <2>7. f[s] = h[p] + f[s \ {p}]
    BY <2>5, <2>6 DEF Adds, p
  <2>8. p # x
    BY <2>4, <2>7
  <2>9. /\ s \ {p} \in SUBSET S /\ s \ {x} \in SUBSET S /\ (s \ {p}) \ {x} \in SUBSET S
        /\ (s \ {p}) \ {x} = (s \ {x}) \ {p} /\ x \in s \ {p} /\ p \in s \ {x}
    BY <2>3, <2>4, <2>5, <2>8
  <2>10. n - 1 \in Nat
    BY <1>0, <2>5, <2>9
  <2>11. f[s \ {p}] = h[x] + f[(s \ {p}) \ {x}]
    BY <2>2, <2>5, <2>9, <2>10
  <2>12. Cardinality(s \ {x}) = n - 1
    <3>1. IsFiniteSet(s)
      BY <2>3, FS_Subset
    <3> QED
      BY <2>3, <2>4, <3>1, FS_RemoveElement
  <2>13. f[s \ {x}] = h[p] + f[(s \ {x}) \ {p}]
    BY <2>2, <2>9, <2>10, <2>12
  <2>14. h[x] \in Int /\ h[p] \in Int /\ f[(s \ {p}) \ {x}] \in Int
    BY <1>0, <2>3, <2>4, <2>5, <2>9
  <2>15. f[s] = h[p] + (h[x] + f[(s \ {p}) \ {x}]) /\ f[s \ {x}] = h[p] + f[(s \ {p}) \ {x}]
    BY <2>7, <2>9, <2>11, <2>13
  <2>16. h[p] + (h[x] + f[(s \ {p}) \ {x}]) = h[x] + (h[p] + f[(s \ {p}) \ {x}])
    BY <2>14
  <2> QED
    BY <2>4, <2>15, <2>16
<1> QED
  BY <1>0, <1>1

LEMMA SumTally ==
    ASSUME NEW S, IsFiniteSet(S), NEW h \in [S -> Int]
    PROVE  \E f : SumFunction(h) = f[S] /\ \A s \in SUBSET S : Adds(f, h, s)
<1> DEFINE F(f) == [s \in SUBSET S |-> IF s = {} THEN 0 ELSE h[Pick(s)] + f[s \ {Pick(s)}]]
           g == CHOOSE f : f = F(f)
<1>1. PICK f : f = Tally(f, h, S)
  BY SumExists
<1>2. f = F(f)
  BY <1>1 DEF Tally
<1>3. SumFunction(h) = g[S]
  <2>1. DOMAIN h = S
    OBVIOUS
  <2> QED
    BY <2>1 DEF SumFunction, SumFunctionOnSet, FoldFunctionOnSet, MapThenFoldSet, Pick
<1>4. g = F(g)
  <2> HIDE DEF F
  <2> QED
    BY <1>2
<1> HIDE DEF g
<1>5. \A s \in SUBSET S : Adds(g, h, s)
  BY <1>4 DEF Adds
<1> QED
  BY <1>3, <1>5

(* The sum of a function with values that are integers is one; and with one more value, it is that much more. *)
LEMMA SumInt ==
    ASSUME NEW S, IsFiniteSet(S), NEW h \in [S -> Int]
    PROVE  SumFunction(h) \in Int
BY SumTally, SumIsInt

LEMMA SumNone == ASSUME NEW h, DOMAIN h = {}, h \in [{} -> Int] PROVE SumFunction(h) = 0
<1>1. PICK f : SumFunction(h) = f[{}] /\ \A s \in SUBSET {} : Adds(f, h, s)
  BY SumTally, FS_EmptySet
<1> QED
  BY <1>1 DEF Adds

Without(g, h, S, x) == g = [y \in S \ {x} |-> h[y]]
LEMMA SumMore ==
    ASSUME NEW S, IsFiniteSet(S), NEW h \in [S -> Int], NEW x \in S,
           NEW g, Without(g, h, S, x)
    PROVE  SumFunction(h) = h[x] + SumFunction(g)
<1> DEFINE R == S \ {x}
<1>1. PICK f : SumFunction(h) = f[S] /\ \A s \in SUBSET S : Adds(f, h, s)
  BY SumTally
<1>2. IsFiniteSet(R) /\ g = [y \in R |-> h[y]] /\ g \in [R -> Int] /\ R \in SUBSET S
  BY FS_Subset DEF Without
<1>3. PICK e : SumFunction(g) = e[R] /\ \A s \in SUBSET R : Adds(e, g, s)
  BY <1>2, SumTally
<1>4. f[S] = h[x] + f[R]
  BY <1>1, TallySplit
<1>5. \A s \in SUBSET R : Adds(f, g, s)
  <2> SUFFICES ASSUME NEW s \in SUBSET R PROVE Adds(f, g, s)
    OBVIOUS
  <2>1. Adds(f, h, s) /\ (s # {} => Pick(s) \in R)
    BY <1>1 DEF Pick
  <2> QED
    BY <1>2, <2>1 DEF Adds
<1>6. e[R] = f[R]
  <2>1. Sums(e, g, R) /\ Sums(f, g, R)
    BY <1>3, <1>5 DEF Sums
  <2> HIDE DEF R
  <2> QED
    BY <1>2, <2>1, TallySame
<1> QED
  BY <1>1, <1>3, <1>4, <1>6

-----------------------------------------------------------------------------
(* Sums over the deals. *)
OutLots(ids) == SumFunction([i \in ids |-> IF log[i].kind = "out" THEN log[i].lots ELSE 0])
Weight(i) == IF log[i].kind = "out" THEN log[i].lots ELSE 0

LEMMA DealOf ==
    ASSUME log \in Seq(Deal), NEW i \in Ids
    PROVE  /\ log[i] \in Deal /\ log[i].time \in 0..MaxTime /\ log[i].kind \in {"in", "out", "balance"}
           /\ log[i].lots \in 0..Lots /\ log[i].cash \in Int /\ i \in Nat /\ i \in 1..Len(log) /\ Weight(i) \in Nat
<1>1. log[i] \in Deal /\ i \in 1..Len(log) /\ i \in Nat
  BY DEF Ids
<1>2. log[i].lots \in Nat /\ 0 \in Nat
  BY <1>1, DealSyncAssumption DEF Deal
<1> QED
  BY <1>1, <1>2 DEF Deal, Weight

LEMMA Totals ==
    ASSUME log \in Seq(Deal), NEW ids \in SUBSET Ids
    PROVE  /\ IsFiniteSet(ids) /\ Total(ids) \in Int /\ OutLots(ids) \in Int
           /\ Total({}) = 0 /\ OutLots({}) = 0
           /\ \A x \in Ids \ ids : /\ Total(ids \union {x}) = log[x].cash + Total(ids)
                                   /\ OutLots(ids \union {x}) = Weight(x) + OutLots(ids)
<1>1. IsFiniteSet(Ids) /\ \A s \in SUBSET Ids : IsFiniteSet(s)
  <2>1. Len(log) \in Nat
    OBVIOUS
  <2>2. IsFiniteSet(1..Len(log))
    BY <2>1, FS_Interval
  <2> QED
    BY <2>2, FS_Subset DEF Ids
<1> DEFINE C(s) == [i \in s |-> log[i].cash]
           W(s) == [i \in s |-> IF log[i].kind = "out" THEN log[i].lots ELSE 0]
<1>2. \A s \in SUBSET Ids : C(s) \in [s -> Int] /\ W(s) \in [s -> Int]
  <2> SUFFICES ASSUME NEW s \in SUBSET Ids PROVE C(s) \in [s -> Int] /\ W(s) \in [s -> Int]
    OBVIOUS
  <2>1. \A i \in s : log[i].cash \in Int /\ Weight(i) \in Int
    BY DealOf
  <2> QED
    BY <2>1 DEF Weight
<1>3. Total(ids) \in Int /\ OutLots(ids) \in Int
  BY <1>1, <1>2, SumInt DEF Total, OutLots
<1>4. Total({}) = 0 /\ OutLots({}) = 0
  <2>1. C({}) \in [{} -> Int] /\ W({}) \in [{} -> Int] /\ DOMAIN C({}) = {} /\ DOMAIN W({}) = {}
    BY <1>2
  <2> QED
    BY <2>1, SumNone DEF Total, OutLots
<1>5. ASSUME NEW x \in Ids \ ids
      PROVE  /\ Total(ids \union {x}) = log[x].cash + Total(ids)
             /\ OutLots(ids \union {x}) = Weight(x) + OutLots(ids)
  <2> DEFINE R == ids \union {x}
  <2>1. R \in SUBSET Ids /\ IsFiniteSet(R) /\ x \in R /\ R \ {x} = ids
    BY <1>1
  <2>2. C(R) \in [R -> Int] /\ W(R) \in [R -> Int]
    BY <1>2, <2>1
  <2>3. ASSUME NEW h, h \in [R -> Int], NEW g, Without(g, h, R, x)
        PROVE  SumFunction(h) = h[x] + SumFunction(g)
    <3> HIDE DEF R
    <3> QED
      BY <2>1, <2>3, SumMore
  <2>4. Without(C(ids), C(R), R, x) /\ Without(W(ids), W(R), R, x)
    BY <2>1 DEF Without
  <2>5. C(R)[x] = log[x].cash /\ W(R)[x] = Weight(x)
    BY DEF Weight
  <2>6. SumFunction(C(R)) = C(R)[x] + SumFunction(C(ids)) /\ SumFunction(W(R)) = W(R)[x] + SumFunction(W(ids))
    BY <2>2, <2>3, <2>4
  <2> QED
    BY <2>5, <2>6 DEF Total, OutLots
<1> QED
  BY <1>1, <1>3, <1>4, <1>5

-----------------------------------------------------------------------------
(* The types. *)
Synced(m) == m \in State /\ m.seen \subseteq Ids /\ (m.since # None => m.cursor >= 0)
TaskType == [pc : {"idle", "deals", "apply", "confirm"}, todo : Seq(Nat), cursor : 0..MaxTime, new : BOOLEAN]

TInv ==
    /\ now \in 0..MaxTime /\ log \in Seq(Deal) /\ held \in 0..Lots
    /\ Synced(mem) /\ Synced(journal)
    /\ task \in [Tasks -> TaskType]
    /\ start \in [at : None..MaxTime, known : SUBSET Nat] /\ start.known \subseteq Ids
    /\ trades \subseteq [net : Int, out : Int]
    /\ lull \in BOOLEAN /\ repeats \in Nat /\ crashes \in 0..MaxCrashes

LEMMA TInvTypes == TInv => TypeOK
  BY DEF TInv, TypeOK, Synced, TaskType

LEMMA InitTypes == Init => TInv
<1> SUFFICES ASSUME Init PROVE TInv
  OBVIOUS
<1>1. 0 \in 0..MaxTime /\ 0 \in 0..Lots /\ 0 \in 0..MaxCrashes /\ None \in None..MaxTime /\ Lots \in 0..Lots
  BY DealSyncAssumption DEF None
<1>2. <<>> \in Seq(Deal) /\ <<>> \in Seq(Nat)
  OBVIOUS
<1>3. mem \in State /\ mem.seen = {} /\ mem.since = None
  BY <1>1 DEF Init, State
<1>4. task \in [Tasks -> TaskType]
  BY <1>1, <1>2 DEF Init, TaskType
<1> QED
  BY <1>1, <1>2, <1>3, <1>4 DEF Init, TInv, Synced

LEMMA SaveTypes ==
    ASSUME NEW m, Synced(m), Save(m), lull \in BOOLEAN
    PROVE  Synced(mem') /\ Synced(journal') /\ lull' \in BOOLEAN
<1>1. /\ Pruned(m).seen \subseteq m.seen /\ Pruned(m).since = m.since /\ Pruned(m).cursor = m.cursor
      /\ Pruned(m) \in State
  BY DEF Pruned, Synced, State
<1>2. lull' \in BOOLEAN
  BY DEF Save
<1> QED
  BY <1>1, <1>2 DEF Save, Synced

LEMMA TaskParts ==
    ASSUME TInv, NEW c \in Tasks
    PROVE  /\ task[c] \in TaskType /\ task = [d \in Tasks |-> task[d]]
           /\ task[c].pc \in {"idle", "deals", "apply", "confirm"} /\ task[c].todo \in Seq(Nat)
           /\ task[c].cursor \in 0..MaxTime /\ task[c].new \in BOOLEAN
<1>1. task \in [Tasks -> TaskType]
  BY DEF TInv
<1>2. task[c] \in TaskType /\ task = [d \in Tasks |-> task[d]]
  BY <1>1
<1> QED
  BY <1>2 DEF TaskType

LEMMA IdleTask == ASSUME NEW t \in TaskType PROVE Idle(t) \in TaskType /\ Idle(t).pc = "idle"
<1>1. <<>> \in Seq(Nat) /\ 0 \in 0..MaxTime
  BY DealSyncAssumption
<1> QED
  BY <1>1 DEF Idle, TaskType

(* The step of a task. *)
LEMMA TaskStepTypes ==
    ASSUME TInv, NEW c \in Tasks, NEW t \in TaskType, task' = [task EXCEPT ![c] = t],
           UNCHANGED <<now, log, held, start, crashes>>,
           Synced(mem'), Synced(journal'), trades' \subseteq [net : Int, out : Int], lull' \in BOOLEAN, repeats' \in Nat
    PROVE  TInv'
<1>1. task' \in [Tasks -> TaskType]
  BY DEF TInv
<1>2. Ids' = Ids
  BY DEF Ids
<1>3. Synced(mem)' /\ Synced(journal)'
  BY <1>2 DEF Synced
<1> QED
  BY <1>1, <1>2, <1>3 DEF TInv

LEMMA AskTypes == ASSUME IInv, TInv, NEW c \in Tasks, AskDeals(c) PROVE TInv'
<1> DEFINE t == [pc |-> "deals", todo |-> <<>>, cursor |-> mem.cursor, new |-> FALSE]
<1>1. task' = [task EXCEPT ![c] = t] /\ mem.since # None
      /\ UNCHANGED <<now, log, held, mem, journal, start, trades, lull, repeats, crashes>>
  BY DEF AskDeals
<1>2. mem.cursor \in 0..MaxTime
  BY <1>1, DealSyncAssumption DEF TInv, Synced, State, None
<1>3. <<>> \in Seq(Nat)
  OBVIOUS
<1>4. t \in TaskType
  BY <1>2, <1>3 DEF TaskType
<1> HIDE DEF t
<1> QED
  BY <1>1, <1>4, TaskStepTypes DEF TInv

LEMMA GotTypes == ASSUME IInv, TInv, NEW c \in Tasks, GotDeals(c) PROVE TInv'
<1> DEFINE W == Window(Since(task[c].cursor))
<1>1. PICK ids \in InOrder(W) : \E s \in {ids, ids \o ids} : task' = [task EXCEPT ![c].pc = "apply", ![c].todo = s]
  BY DEF GotDeals
<1>2. PICK s \in {ids, ids \o ids} : task' = [task EXCEPT ![c].pc = "apply", ![c].todo = s]
  BY <1>1
<1> DEFINE t == [task[c] EXCEPT !.pc = "apply", !.todo = s]
<1>3. task' = [task EXCEPT ![c] = t]
  BY <1>2, TaskParts
<1>4. s \in Seq(Nat)
  <2>1. ids \in [1..Cardinality(W) -> W]
    BY DEF InOrder
  <2>2. Cardinality(W) \in Nat
    <3>1. W \in SUBSET Ids
      BY DEF Window
    <3> QED
      BY <3>1, Totals, FS_CardinalityType DEF TInv
  <2>3. ids \in Seq(W)
    BY <2>1, <2>2
  <2>4. W \subseteq Nat
    BY DEF Window, Ids
  <2>5. ids \in Seq(Nat)
    BY <2>3, <2>4
  <2> HIDE DEF W
  <2>6. ids \o ids \in Seq(Nat)
    BY <2>5
  <2> QED
    BY <1>2, <2>5, <2>6
<1>5. t \in TaskType
  BY <1>4, TaskParts DEF TaskType
<1> HIDE DEF t
<1> QED
  BY <1>3, <1>5, TaskStepTypes DEF TInv, GotDeals

LEMMA TaskOnlyTypes ==
    ASSUME IInv, TInv, NEW c \in Tasks, DealsLost(c) \/ SkipSeen(c) \/ StopConfirmed(c)
    PROVE  TInv'
<1>1. CASE DealsLost(c)
  <2>1. task' = [task EXCEPT ![c] = Idle(task[c])] /\ Idle(task[c]) \in TaskType
    BY <1>1, TaskParts, IdleTask DEF DealsLost
  <2> QED
    BY <1>1, <2>1, TaskStepTypes DEF TInv, DealsLost
<1>2. CASE SkipSeen(c)
  <2> DEFINE t == [task[c] EXCEPT !.todo = Tail(task[c].todo)]
  <2>1. task' = [task EXCEPT ![c] = t]
    BY <1>2, TaskParts DEF SkipSeen
  <2>2. Tail(task[c].todo) \in Seq(Nat)
    BY <1>2, TaskParts DEF SkipSeen
  <2>3. t \in TaskType
    BY <2>2, TaskParts DEF TaskType
  <2> HIDE DEF t
  <2> QED
    BY <1>2, <2>1, <2>3, TaskStepTypes DEF TInv, SkipSeen
<1>3. CASE StopConfirmed(c)
  <2> DEFINE t == [task[c] EXCEPT !.pc = "apply"]
  <2>1. task' = [task EXCEPT ![c] = t] /\ t \in TaskType
    BY <1>3, TaskParts DEF StopConfirmed, TaskType
  <2> HIDE DEF t
  <2> QED
    BY <1>3, <2>1, TaskStepTypes DEF TInv, StopConfirmed
<1> QED
  BY <1>1, <1>2, <1>3

LEMMA AppliedType ==
    ASSUME TInv, NEW c \in Tasks, NEW i \in Ids, Unseen(c, i)
    PROVE  Applied(c, i) \in TaskType
<1>1. Tail(task[c].todo) \in Seq(Nat)
  BY TaskParts DEF Unseen
<1>2. log[i].time \in 0..MaxTime
  BY DealOf DEF TInv
<1> QED
  BY <1>1, <1>2, TaskParts DEF Applied, TaskType

(* A counted deal leaves books of their type; and so do its money and lots. *)
LEMMA CountedType ==
    ASSUME TInv, NEW i \in Ids
    PROVE  /\ Counted(mem, i) \in State
           /\ Counted(mem, i).seen \subseteq Ids /\ Counted(mem, i).since = mem.since /\ Counted(mem, i).cursor = mem.cursor
           /\ Synced(Counted(mem, i))
<1>1. mem \in State /\ Synced(mem)
  BY DEF TInv, Synced
<1>2. log[i].cash \in Int /\ i \in Nat /\ mem.expected \in Int
  BY <1>1, DealOf DEF TInv, State
<1>3. /\ mem.seen \union {i} \in SUBSET Nat /\ mem.ever \union {i} \in SUBSET Nat
      /\ (IF log[i].time >= mem.since THEN mem.expected + log[i].cash ELSE mem.expected) \in Int
  BY <1>1, <1>2 DEF State
<1>4. /\ Counted(mem, i) \in State /\ Counted(mem, i).seen = mem.seen \union {i}
      /\ Counted(mem, i).since = mem.since /\ Counted(mem, i).cursor = mem.cursor
  BY <1>1, <1>3 DEF Counted, State
<1> QED
  BY <1>1, <1>4 DEF Synced

LEMMA CountTypes == ASSUME IInv, TInv, NEW c \in Tasks, CountOnly(c) PROVE TInv'
<1>1. PICK i \in Ids : /\ Unseen(c, i) /\ mem' = Counted(mem, i)
                       /\ task' = [task EXCEPT ![c] = Applied(c, i)]
  BY DEF CountOnly
<1>2. Applied(c, i) \in TaskType /\ Synced(mem')
  BY <1>1, AppliedType, CountedType
<1> QED
  BY <1>1, <1>2, TaskStepTypes DEF TInv, CountOnly

LEMMA InTypes == ASSUME IInv, TInv, NEW c \in Tasks, ApplyIn(c) PROVE TInv'
<1>1. PICK i \in Ids :
        LET m == [Counted(mem, i) EXCEPT !.net = NetOfEntry(mem, i)] IN
        /\ Unseen(c, i)
        /\ IF mem.st = "sending"
           THEN /\ Save([m EXCEPT !.st = "open", !.lots = log[i].lots, !.entered = TRUE])
                /\ task' = [task EXCEPT ![c] = [Applied(c, i) EXCEPT !.pc = "confirm"]]
           ELSE /\ mem' = m
                /\ task' = [task EXCEPT ![c] = Applied(c, i)]
                /\ UNCHANGED <<journal, lull>>
  BY DEF ApplyIn
<1> DEFINE m == [Counted(mem, i) EXCEPT !.net = NetOfEntry(mem, i)]
           n == [m EXCEPT !.st = "open", !.lots = log[i].lots, !.entered = TRUE]
           t == [Applied(c, i) EXCEPT !.pc = "confirm"]
<1>2. UNCHANGED <<now, log, held, start, trades, repeats, crashes>>
  BY DEF ApplyIn
<1>3. Applied(c, i) \in TaskType
  BY <1>1, AppliedType
<1>4. t \in TaskType
  BY <1>3 DEF TaskType
<1>5. NetOfEntry(mem, i) \in Int /\ log[i].lots \in 0..Lots
  <2>1. mem.net \in Int
    BY DEF TInv, Synced, State
  <2>2. log[i].cash \in Int /\ log[i].lots \in 0..Lots
    BY DealOf DEF TInv
  <2> QED
    BY <2>1, <2>2 DEF NetOfEntry
<1>6. Synced(m) /\ Synced(n)
  <2> DEFINE C == Counted(mem, i)
  <2>1. Synced(C)
    BY CountedType
  <2> HIDE DEF C
  <2>2. C \in State /\ C.seen \subseteq Ids /\ (C.since # None => C.cursor >= 0)
    BY <2>1 DEF Synced
  <2> DEFINE mm == [C EXCEPT !.net = NetOfEntry(mem, i)]
  <2>3. mm \in State /\ mm.seen = C.seen /\ mm.since = C.since /\ mm.cursor = C.cursor
    BY <1>5, <2>2 DEF State
  <2>4. m = mm
    BY DEF C
  <2> HIDE DEF mm, m
  <2> DEFINE nn == [mm EXCEPT !.st = "open", !.lots = log[i].lots, !.entered = TRUE]
  <2>5. nn \in State /\ nn.seen = C.seen /\ nn.since = C.since /\ nn.cursor = C.cursor
    BY <1>5, <2>3 DEF State
  <2>6. n = nn
    BY <2>4
  <2> HIDE DEF nn, n
  <2> QED
    BY <2>2, <2>3, <2>4, <2>5, <2>6 DEF Synced
<1>7. TInv => lull \in BOOLEAN /\ Synced(journal) /\ trades \subseteq [net : Int, out : Int] /\ repeats \in Nat
  BY DEF TInv
<1> HIDE DEF m, n, t
<1>8. CASE mem.st = "sending"
  <2>1. Save(n) /\ task' = [task EXCEPT ![c] = t]
    BY <1>1, <1>8 DEF m, n, t
  <2>2. Synced(mem') /\ Synced(journal') /\ lull' \in BOOLEAN
    BY <1>6, <1>7, <2>1, SaveTypes
  <2> QED
    BY <1>2, <1>4, <1>7, <2>1, <2>2, TaskStepTypes
<1>9. CASE mem.st # "sending"
  <2>1. mem' = m /\ task' = [task EXCEPT ![c] = Applied(c, i)] /\ UNCHANGED <<journal, lull>>
    BY <1>1, <1>9 DEF m
  <2> QED
    BY <1>2, <1>3, <1>6, <1>7, <2>1, TaskStepTypes
<1> QED
  BY <1>8, <1>9

LEMMA OutTypes == ASSUME IInv, TInv, NEW c \in Tasks, ApplyOut(c) PROVE TInv'
<1>1. PICK i \in Ids :
        LET m == [Counted(mem, i) EXCEPT !.net = @ + log[i].cash, !.out = @ + log[i].lots,
                                         !.lots = @ - log[i].lots] IN
        /\ Unseen(c, i)
        /\ IF StillOpen(m)
           THEN mem' = m /\ UNCHANGED trades
           ELSE /\ mem' = [m EXCEPT !.st = "closed", !.lots = 0]
                /\ trades' = trades \union ClosedTrade(m)
        /\ task' = [task EXCEPT ![c] = Applied(c, i)]
  BY DEF ApplyOut
<1> DEFINE C == Counted(mem, i)
           m == [C EXCEPT !.net = @ + log[i].cash, !.out = @ + log[i].lots, !.lots = @ - log[i].lots]
           n == [m EXCEPT !.st = "closed", !.lots = 0]
<1>2. UNCHANGED <<now, log, held, journal, start, lull, repeats, crashes>>
  BY DEF ApplyOut
<1>3. Applied(c, i) \in TaskType
  BY <1>1, AppliedType
<1>4. IF StillOpen(m) THEN mem' = m /\ UNCHANGED trades
                      ELSE mem' = n /\ trades' = trades \union ClosedTrade(m)
  BY <1>1
<1>5. C \in State /\ C.seen \subseteq Ids /\ (C.since # None => C.cursor >= 0)
  BY CountedType DEF Synced
<1>6. log[i].lots \in Nat /\ log[i].cash \in Int
  BY DealOf, DealSyncAssumption DEF TInv
<1> HIDE DEF C
<1>7. /\ m = [C EXCEPT !.net = C.net + log[i].cash, !.out = C.out + log[i].lots, !.lots = C.lots - log[i].lots]
      /\ C.net + log[i].cash \in Int /\ C.out + log[i].lots \in Nat /\ C.lots - log[i].lots \in Int
  BY <1>5, <1>6, DealSyncAssumption DEF State
<1>8. /\ m.seen = C.seen /\ m.since = C.since /\ m.cursor = C.cursor
      /\ m.net \in Int /\ m.out \in Int /\ m.lots = C.lots - log[i].lots
  <2>1. /\ m.seen = C.seen /\ m.since = C.since /\ m.cursor = C.cursor
        /\ m.net = C.net + log[i].cash /\ m.out = C.out + log[i].lots /\ m.lots = C.lots - log[i].lots
    BY <1>5 DEF State
  <2> QED
    BY <1>7, <2>1
<1>9. n \in State /\ n.seen = C.seen /\ n.since = C.since /\ n.cursor = C.cursor
  <2>1. 0 \in 0..Lots
    BY DealSyncAssumption
  <2>2. n = [C EXCEPT !.st = "closed", !.net = C.net + log[i].cash, !.out = C.out + log[i].lots, !.lots = 0]
    BY <1>5, <1>7 DEF State
  <2> QED
    BY <1>5, <1>7, <2>1, <2>2 DEF State
<1>10. StillOpen(m) => m \in State
  <2>1. ASSUME StillOpen(m) PROVE C.lots - log[i].lots \in 0..Lots
    <3>1. C.lots - log[i].lots > 0 /\ C.lots \in 0..Lots
      BY <1>5, <1>8, <2>1 DEF StillOpen, State
    <3> QED
      BY <1>6, <3>1, DealSyncAssumption
  <2> QED
    BY <1>5, <1>7, <2>1 DEF State
<1>11. Synced(mem')
  BY <1>4, <1>5, <1>8, <1>9, <1>10 DEF Synced
<1>12. trades' \subseteq [net : Int, out : Int]
  <2>1. ClosedTrade(m) \subseteq [net : Int, out : Int]
    BY <1>8 DEF ClosedTrade
  <2>2. trades \subseteq [net : Int, out : Int]
    BY DEF TInv
  <2> HIDE DEF m
  <2> QED
    BY <1>4, <2>1, <2>2
<1>13. Synced(journal) /\ lull \in BOOLEAN /\ repeats \in Nat
  BY DEF TInv
<1> QED
  BY <1>1, <1>2, <1>3, <1>11, <1>12, <1>13, TaskStepTypes

LEMMA DoneTypes == ASSUME IInv, TInv, NEW c \in Tasks, SyncDone(c) PROVE TInv'
<1> DEFINE m == [mem EXCEPT !.cursor = task[c].cursor]
<1>1. /\ task' = [task EXCEPT ![c] = Idle(task[c])] /\ UNCHANGED <<now, log, held, start, trades, crashes>>
      /\ Save(m) \/ UNCHANGED <<mem, journal, lull>>
      /\ repeats' \in {repeats, repeats + 1}
  BY DEF SyncDone, Cursor
<1>2. Idle(task[c]) \in TaskType
  BY TaskParts, IdleTask
<1>3. Synced(m)
  <2>1. task[c].cursor \in 0..MaxTime /\ task[c].cursor \in None..MaxTime
    BY TaskParts, DealSyncAssumption DEF None
  <2>2. mem \in State /\ mem.seen \subseteq Ids
    BY DEF TInv, Synced
  <2>3. m \in State /\ m.seen = mem.seen /\ m.cursor = task[c].cursor
    BY <2>1, <2>2 DEF State
  <2> QED
    BY <2>1, <2>2, <2>3 DEF Synced
<1>4. /\ Synced(mem) /\ Synced(journal) /\ lull \in BOOLEAN /\ repeats \in Nat
      /\ trades \subseteq [net : Int, out : Int]
  BY DEF TInv
<1>5. repeats' \in Nat
  BY <1>1, <1>4
<1> HIDE DEF m
<1>6. Synced(mem') /\ Synced(journal') /\ lull' \in BOOLEAN
  BY <1>1, <1>3, <1>4, SaveTypes
<1> QED
  BY <1>1, <1>2, <1>4, <1>5, <1>6, TaskStepTypes

(* The other steps. *)
LEMMA QuietTypes ==
    ASSUME IInv, TInv, OtherSave \/ ReadBalance \/ Initialize
    PROVE  TInv'
<1>1. /\ Synced(mem) /\ Synced(journal) /\ lull \in BOOLEAN /\ now \in 0..MaxTime /\ mem \in State
      /\ mem.seen \subseteq Ids /\ start.known \in SUBSET Ids /\ log \in Seq(Deal)
  BY DEF TInv, Synced
<1>2. UNCHANGED <<now, log, held, task, trades, repeats, crashes>> /\ Ids' = Ids
  BY DEF OtherSave, ReadBalance, Initialize, Ids
<1>3. CASE OtherSave
  <2>1. Synced(mem') /\ Synced(journal') /\ lull' \in BOOLEAN /\ start' = start
    BY <1>1, <1>3, SaveTypes DEF OtherSave
  <2>2. Synced(mem)' /\ Synced(journal)'
    BY <1>2, <2>1 DEF Synced
  <2> QED
    BY <1>2, <2>1, <2>2 DEF TInv
<1>4. CASE ReadBalance
  <2>1. start' = [at |-> now, known |-> Ids] /\ UNCHANGED <<mem, journal, lull>>
    BY <1>4 DEF ReadBalance
  <2>2. now \in None..MaxTime /\ Ids \subseteq Nat
    BY <1>1, DealSyncAssumption DEF None, Ids
  <2>3. Synced(mem)' /\ Synced(journal)'
    BY <1>1, <1>2, <2>1 DEF Synced
  <2> QED
    BY <1>2, <2>1, <2>2, <2>3 DEF TInv
<1>5. CASE Initialize
  <2> DEFINE m == [mem EXCEPT !.since = now, !.cursor = now, !.expected = Total(start.known)]
  <2>1. Save(m) /\ start' = start
    BY <1>5 DEF Initialize
  <2>2. now \in None..MaxTime /\ now >= 0 /\ Total(start.known) \in Int
    BY <1>1, DealSyncAssumption, Totals DEF None
  <2>3. m \in State /\ m.seen = mem.seen /\ m.cursor = now
    BY <1>1, <2>2 DEF State
  <2>4. Synced(m)
    BY <1>1, <2>2, <2>3 DEF Synced
  <2> HIDE DEF m
  <2>5. Synced(mem') /\ Synced(journal') /\ lull' \in BOOLEAN
    BY <1>1, <2>1, <2>4, SaveTypes
  <2>6. Synced(mem)' /\ Synced(journal)'
    BY <1>2, <2>5 DEF Synced
  <2> QED
    BY <1>2, <2>1, <2>5, <2>6 DEF TInv
<1> QED
  BY <1>3, <1>4, <1>5

LEMMA BookTypes ==
    ASSUME TInv, NEW d \in Deal, log' = Append(log, d), UNCHANGED <<now, task, start, trades, repeats, crashes>>,
           held' \in 0..Lots, Synced(mem'), Synced(journal'), lull' \in BOOLEAN
    PROVE  TInv'
<1>1. log' \in Seq(Deal) /\ Ids \subseteq Ids'
  BY DEF TInv, Ids
<1>2. Synced(mem)' /\ Synced(journal)'
  BY <1>1 DEF Synced
<1> QED
  BY <1>1, <1>2 DEF TInv

(* What the broker books is a deal. *)
Entry(kind, lots, time) == [time |-> time, kind |-> kind, lots |-> lots, cash |-> Cash(kind, lots)]

LEMMA EntryDeal ==
    ASSUME NEW kind \in {"in", "out", "balance"}, NEW lots \in 0..Lots, NEW time \in 0..MaxTime
    PROVE  /\ Entry(kind, lots, time) \in Deal
           /\ Entry(kind, lots, time).kind = kind /\ Entry(kind, lots, time).lots = lots
           /\ Entry(kind, lots, time).time = time
<1>1. lots \in Int
  BY DealSyncAssumption
<1>2. Cash(kind, lots) \in Int
  BY <1>1 DEF Cash
<1> QED
  BY <1>2 DEF Entry, Deal

LEMMA BrokerTypes ==
    ASSUME IInv, TInv, Fill \/ FillAnswered \/ Reduce \/ Pay
    PROVE  TInv'
<1>1. /\ Synced(mem) /\ Synced(journal) /\ lull \in BOOLEAN /\ now \in 0..MaxTime /\ held \in 0..Lots
      /\ Lots \in 0..Lots /\ Lots \in Nat /\ MaxTime \in Nat /\ MaxDelay \in Nat /\ 0 \in 0..Lots
  BY DealSyncAssumption DEF TInv
<1>2. CASE Fill
  <2>1. /\ log' = Append(log, Entry("in", Lots, now)) /\ held' = Lots
        /\ UNCHANGED <<now, task, start, trades, repeats, crashes, mem, journal, lull>>
    BY <1>2 DEF Fill, Book, Untouched, Entry
  <2> QED
    BY <1>1, <2>1, EntryDeal, BookTypes
<1>3. CASE FillAnswered
  <2> DEFINE m == [mem EXCEPT !.st = "open", !.entered = TRUE]
  <2>1. /\ log' = Append(log, Entry("in", Lots, now)) /\ held' = Lots /\ Save(m)
        /\ UNCHANGED <<now, task, start, trades, repeats, crashes>>
    BY <1>3 DEF FillAnswered, Book, Entry
  <2>2. m \in State /\ m.seen = mem.seen /\ m.cursor = mem.cursor /\ m.since = mem.since
    BY <1>1 DEF Synced, State
  <2>3. Synced(m)
    BY <1>1, <2>2 DEF Synced
  <2> HIDE DEF m
  <2>4. Synced(mem') /\ Synced(journal') /\ lull' \in BOOLEAN
    BY <1>1, <2>1, <2>3, SaveTypes
  <2> QED
    BY <1>1, <2>1, <2>4, EntryDeal, BookTypes
<1>4. CASE Reduce
  <2>1. PICK lots \in 0..held : /\ log' = Append(log, Entry("out", lots, now)) /\ held' = held - lots
                                /\ UNCHANGED <<now, task, start, trades, repeats, crashes, mem, journal, lull>>
    BY <1>4 DEF Reduce, Book, Untouched, Entry
  <2>2. lots \in 0..Lots /\ held - lots \in 0..Lots
    BY <1>1
  <2> QED
    BY <1>1, <2>1, <2>2, EntryDeal, BookTypes
<1>5. CASE Pay
  <2>1. PICK time \in (now - MaxDelay)..now :
            /\ time >= 0 /\ log' = Append(log, Entry("balance", 0, time)) /\ held' = held
            /\ UNCHANGED <<now, task, start, trades, repeats, crashes, mem, journal, lull>>
    BY <1>5 DEF Pay, Book, Untouched, Entry
  <2>2. time \in 0..MaxTime
    BY <1>1, <2>1
  <2> QED
    BY <1>1, <2>1, <2>2, EntryDeal, BookTypes
<1> QED
  BY <1>2, <1>3, <1>4, <1>5

LEMMA TickTypes == ASSUME TInv, Tick PROVE TInv'
<1>1. now' \in 0..MaxTime /\ UNCHANGED <<log, held, mem, journal, task, start, trades, lull, repeats, crashes>>
  BY DealSyncAssumption DEF TInv, Tick
<1>2. Ids' = Ids
  BY <1>1 DEF Ids
<1>3. Synced(mem)' /\ Synced(journal)'
  BY <1>1, <1>2 DEF Synced, TInv
<1> QED
  BY <1>1, <1>2, <1>3 DEF TInv

LEMMA CrashTypes == ASSUME TInv, Crash PROVE TInv'
<1>1. /\ mem' = journal /\ task' = [c \in Tasks |-> Idle(task[c])] /\ crashes' = crashes + 1 /\ crashes < MaxCrashes
      /\ UNCHANGED <<now, log, held, journal, trades, lull, repeats>>
      /\ start' \in {[at |-> None, known |-> {}], start}
  BY DEF Crash
<1>2. Ids' = Ids
  BY <1>1 DEF Ids
<1>3. Synced(mem)' /\ Synced(journal)'
  BY <1>1, <1>2 DEF Synced, TInv
<1>4. task' \in [Tasks -> TaskType]
  BY <1>1, TaskParts, IdleTask
<1>5. crashes' \in 0..MaxCrashes
  BY <1>1, DealSyncAssumption DEF TInv
<1>6. start' \in [at : None..MaxTime, known : SUBSET Nat] /\ start'.known \subseteq Ids
  <2>1. None \in None..MaxTime
    BY DealSyncAssumption DEF None
  <2> QED
    BY <1>1, <2>1 DEF TInv
<1> QED
  BY <1>1, <1>2, <1>3, <1>4, <1>5, <1>6 DEF TInv

LEMMA TypesInductive == ASSUME IInv, TInv, [Next]_vars PROVE TInv'
<1>1. CASE OtherSave \/ ReadBalance \/ Initialize
  BY <1>1, QuietTypes
<1>2. CASE \E c \in Tasks : Sync(c)
  BY <1>2, AskTypes, GotTypes, TaskOnlyTypes, CountTypes, InTypes, OutTypes, DoneTypes DEF Sync
<1>3. CASE Fill \/ FillAnswered \/ Reduce \/ Pay
  BY <1>3, BrokerTypes
<1>4. CASE Tick
  BY <1>4, TickTypes
<1>5. CASE Crash
  BY <1>5, CrashTypes
<1>6. CASE UNCHANGED vars
  BY <1>6 DEF vars, TInv, Ids, Synced
<1> QED
  BY <1>1, <1>2, <1>3, <1>4, <1>5, <1>6 DEF Next

(* OrderManager.sync_deals, initialize and save: the clock, the broker's deals, the books in memory and in
   the journal, and the place of every caller have their types in every state; in particular the lots of the
   tracked order never leave 0..Lots and the saved identifiers are deals of the broker. *)
THEOREM BooksTyped == Spec => []TypeOK
<1>1. Spec => []IInv
  BY InitInv, Inductive, PTL DEF Spec
<1>2. Spec => []TInv
  BY <1>1, InitTypes, TypesInductive, PTL DEF Spec
<1> QED
  BY <1>2, TInvTypes, PTL

-----------------------------------------------------------------------------
(* What the books say, as long as no save has dropped a deal that a query still returns. *)
Earlier(j) == {i \in Position : i < j}
Pos(m) == m.ever \intersect Position

(* The broker's position: opened once, by all the lots, and closed by no more than them. *)
Booked ==
    /\ journal.since = mem.since /\ mem.since <= now
    /\ start.known \subseteq Ids
    /\ start.at = None => mem.since = None
    /\ Position # {} => mem.since # None
    /\ \A i \in Position : log[i].time >= mem.since /\ (log[i].kind = "in" => log[i].lots = Lots)
    /\ \A i, j \in Position : i < j => log[i].time <= log[j].time /\ log[j].kind = "out"
    /\ \A j \in Position : log[j].kind = "out" => Earlier(j) # {} /\ OutLots(Earlier(j)) < Lots
    /\ held = IF Position = {} THEN 0 ELSE Lots - OutLots(Position)

(* What the books count of the position is its deals up to some deal, and all of them once it is closed. *)
Tracks(m) ==
    /\ \A j \in Pos(m) : Earlier(j) \subseteq m.ever
    /\ m.net = Total(Pos(m)) /\ m.out = OutLots(Pos(m))
    /\ m.st = "sending" => m.lots = Lots /\ Pos(m) = {}
    /\ m.st = "open" => m.entered /\ m.lots = Lots - m.out /\ m.lots > 0 /\ Position # {}
    /\ m.st = "closed" => m.lots = 0 /\ m.out = Lots /\ Pos(m) = Position /\ Position # {}

(* The deals that bear on the balance after initialize's reading of it. *)
After(m) == {i \in m.ever : log[i].time >= m.since}
Forgotten(m) == m.ever \ m.seen

Money(m) ==
    /\ m.ever \subseteq Ids
    /\ m.since = None => m.ever = {}
    /\ m.since # None /\ CleanStart => m.expected = Total(start.known \union After(m))
    /\ \A i \in Forgotten(m) : log[i].time < Since(m.cursor)

Accounts(m) == Money(m) /\ Tracks(m)

Published == trades # {} => held = 0 /\ Position # {} /\ \A t \in trades : t.out = Lots /\ t.net = Total(Position)

(* A task applies a position's deals in order; what was forgotten is not among its deals; another's
   sync that went further has left none but the newest; what is neither counted nor to do came late. *)
InTurn(c) ==
    task[c].pc \in {"apply", "confirm"} =>
        \A k \in DOMAIN task[c].todo :
            /\ task[c].todo[k] \in Ids
            /\ task[c].todo[k] \in Position =>
                  \A i \in Earlier(task[c].todo[k]) :
                      i \in mem.ever \/ \E j \in DOMAIN task[c].todo : j < k /\ task[c].todo[j] = i

Apart(c) ==
    task[c].pc # "idle" => \A i \in Forgotten(mem) : log[i].time < Since(task[c].cursor) /\ ~ToDo(c, i)

Behind(c) ==
    task[c].pc # "idle" /\ task[c].cursor < mem.cursor => \A i \in Position \ mem.ever : log[i].time = now

Late(c, i) ==
    \/ i \in Position /\ log[i].time = now
    \/ i \notin Position /\ (log[i].time < Since(task[c].cursor) \/ log[i].time >= now - MaxDelay)

Left(c) == task[c].pc \in {"apply", "confirm"} => \A i \in Ids \ mem.ever : ToDo(c, i) \/ Late(c, i)

(* While it waits for its stop, a save drops nothing that it has still to skip. *)
Keeps(c) ==
    task[c].pc = "confirm" =>
        \A i \in mem.seen : log[i].time >= now - Retention \/ ToDo(c, i) \/ log[i].time < Since(task[c].cursor)

Alone == \A c, d \in Tasks : task[c].pc = "apply" /\ task[d].pc = "apply" => c = d

Places == \A c \in Tasks : InTurn(c) /\ Apart(c) /\ Behind(c) /\ Left(c) /\ Keeps(c)

Good == Accounts(mem) /\ Accounts(journal) /\ Published /\ Places

AInv == Booked /\ Alone /\ (~lull => Good)

-----------------------------------------------------------------------------
(* With the same deals at the broker, what was said of them still holds. *)
LEMMA SameDeals ==
    ASSUME log' = log
    PROVE  /\ Ids' = Ids /\ Position' = Position
           /\ \A m : (Pos(m)' = Pos(m) /\ (Tracks(m)' <=> Tracks(m)))
           /\ (Tracks(mem)' <=> Tracks(mem')) /\ (Tracks(journal)' <=> Tracks(journal'))
           /\ \A j : Earlier(j)' = Earlier(j)
           /\ \A s : Total(s)' = Total(s) /\ OutLots(s)' = OutLots(s)
<1>1. Ids' = Ids /\ Position' = Position
  BY DEF Ids, Position
<1>2. \A s : Total(s)' = Total(s) /\ OutLots(s)' = OutLots(s)
  BY DEF Total, OutLots
<1>3. \A j : Earlier(j)' = Earlier(j)
  BY <1>1 DEF Earlier
<1>4. \A m : (Pos(m)' = Pos(m) /\ (Tracks(m)' <=> Tracks(m)))
  BY <1>1, <1>2, <1>3 DEF Pos, Tracks
<1>5. (Tracks(mem)' <=> Tracks(mem')) /\ (Tracks(journal)' <=> Tracks(journal'))
  BY <1>1, <1>2, <1>3 DEF Pos, Tracks
<1> QED
  BY <1>1, <1>2, <1>3, <1>4, <1>5

(* What the deals, the constants and the books are. *)
LEMMA Facts ==
    ASSUME IInv, TInv, Booked
    PROVE  /\ now \in Nat /\ log \in Seq(Deal) /\ held \in 0..Lots
           /\ Lots \in Nat /\ Lots > 0 /\ Lookback \in Nat /\ Retention \in Nat /\ MaxDelay \in Nat
           /\ Lookback < Retention /\ MaxDelay <= Lookback
           /\ mem \in State /\ journal \in State
           /\ mem.cursor \in Int /\ mem.since \in Int /\ mem.cursor <= now /\ mem.since <= now
           /\ mem.seen \subseteq mem.ever /\ journal.seen \subseteq journal.ever
           /\ mem.since = journal.since
           /\ Position \subseteq Ids /\ Ids \subseteq Nat
<1>1. now \in Nat /\ log \in Seq(Deal) /\ held \in 0..Lots /\ mem \in State /\ journal \in State
  BY DealSyncAssumption DEF TInv, Synced
<1>2. /\ Lots \in Nat /\ Lots > 0 /\ Lookback \in Nat /\ Retention \in Nat /\ MaxDelay \in Nat
      /\ Lookback < Retention /\ MaxDelay <= Lookback
  BY DealSyncAssumption
<1>3. /\ mem.cursor \in Int /\ mem.since \in Int /\ mem.cursor <= now
      /\ mem.seen \subseteq mem.ever /\ journal.seen \subseteq journal.ever
  BY DEF IInv, Shapes, Books
<1>4. mem.since = journal.since /\ mem.since <= now
  BY DEF Booked
<1>5. Position \subseteq Ids /\ Ids \subseteq Nat
  BY DEF Position, Ids
<1> QED
  BY <1>1, <1>2, <1>3, <1>4, <1>5

(* A save leaves the books as they are but for the deals it forgets, which nobody waits for. *)
Saved(n) ==
    /\ mem'.st = n.st /\ mem'.lots = n.lots /\ mem'.entered = n.entered /\ mem'.net = n.net /\ mem'.out = n.out
    /\ mem'.ever = n.ever /\ mem'.cursor = n.cursor /\ mem'.since = n.since /\ mem'.expected = n.expected
    /\ mem'.seen = {i \in n.seen : log[i].time >= now - Retention}

LEMMA SavedBooks ==
    ASSUME NEW n \in State, Save(n)
    PROVE  Saved(n) /\ journal' = mem' /\ mem' \in State
<1>1. mem' = Pruned(n) /\ journal' = mem'
  BY DEF Save
<1>2. mem' \in State
  BY <1>1 DEF Pruned, State
<1>3. Saved(n)
  <2>1. Pruned(n).seen = {i \in n.seen : log[i].time >= now - Retention}
    BY DEF Pruned, State
  <2> QED
    BY <1>1, <2>1 DEF Pruned, State, Saved
<1> QED
  BY <1>1, <1>2, <1>3

Dropped(n, i) ==
    /\ i \in n.seen /\ log[i].time < now - Retention /\ log[i].time < Since(n.cursor)
    /\ \A c \in Tasks : ~ToDo(c, i) /\ (task[c].pc = "deals" => log[i].time < Since(task[c].cursor))

LEMMA Drops ==
    ASSUME IInv, TInv, NEW n \in State, n.seen \subseteq Ids, Save(n), ~lull'
    PROVE  ~lull /\ \A i \in Forgotten(mem') : i \in Forgotten(n) \/ Dropped(n, i)
<1>1. Saved(n) /\ ~lull
  BY SavedBooks DEF Save
<1> SUFFICES ASSUME NEW i \in Forgotten(mem'), i \notin Forgotten(n) PROVE Dropped(n, i)
  BY <1>1
<1>2. i \in n.seen /\ ~(log[i].time >= now - Retention)
  BY <1>1 DEF Forgotten, Saved
<1>3. log[i].time \in Int /\ now \in Int /\ Retention \in Int /\ Lookback \in Int /\ n.cursor \in Int
  <2>1. log[i].time \in Int /\ now \in Int
    BY <1>2, TimeOf DEF IInv, Shapes
  <2>2. n.cursor \in Int /\ Retention \in Int /\ Lookback \in Int
    BY DealSyncAssumption DEF State, None
  <2> QED
    BY <2>1, <2>2
<1>4. ~Awaited(n, i)
  <2>1. i \notin Pruned(n).seen
    BY <1>2 DEF Pruned, State
  <2> QED
    BY <1>2, <2>1 DEF Save
<1>5. \A c \in Tasks : ~ToDo(c, i)
  BY <1>4 DEF Awaited, ToDo, ToSet
<1>6. log[i].time < Since(n.cursor)
  BY <1>3, <1>4 DEF Awaited, Since
<1>7. ASSUME NEW c \in Tasks, task[c].pc = "deals" PROVE log[i].time < Since(task[c].cursor)
  <2>1. task[c].cursor \in Int
    BY TaskOf
  <2> QED
    BY <1>3, <1>4, <1>7, <2>1 DEF Awaited, Since
<1> QED
  BY <1>2, <1>3, <1>5, <1>6, <1>7 DEF Dropped

(* What the books say of the order and the balance does not depend on which deals they have forgotten. *)
Same(m, n) ==
    /\ m.st = n.st /\ m.lots = n.lots /\ m.entered = n.entered /\ m.net = n.net /\ m.out = n.out /\ m.ever = n.ever

LEMMA SameTracks == ASSUME NEW m, NEW n, Same(m, n) PROVE Tracks(m) <=> Tracks(n)
<1>1. Pos(m) = Pos(n)
  BY DEF Same, Pos
<1> QED
  BY <1>1 DEF Same, Tracks

(* What a step leaves true of the balance while initialize's reading stands. *)
LEMMA KeepsClean ==
    ASSUME log' = log, start' = start, mem'.since = mem.since PROVE CleanStart' <=> CleanStart
  BY DEF CleanStart, Ids

LEMMA AccountsNext ==
    ASSUME log' = log, start' = start, mem'.since = mem.since
    PROVE  (Accounts(mem)' <=> Accounts(mem')) /\ (Accounts(journal)' <=> Accounts(journal'))
<1>1. /\ Ids' = Ids /\ (CleanStart' <=> CleanStart)
      /\ (Tracks(mem)' <=> Tracks(mem')) /\ (Tracks(journal)' <=> Tracks(journal'))
  BY SameDeals, KeepsClean
<1>2. Total(start.known \union After(mem))' = Total(start.known \union After(mem'))
  BY DEF Total, After
<1>3. Total(start.known \union After(journal))' = Total(start.known \union After(journal'))
  BY DEF Total, After
<1> QED
  BY <1>1, <1>2, <1>3 DEF Accounts, Money, Forgotten

LEMMA SavedAccounts ==
    ASSUME NEW n \in State, Saved(n), Accounts(n),
           \A i \in Forgotten(mem') : i \in Forgotten(n) \/ Dropped(n, i)
    PROVE  Accounts(mem')
<1>1. Same(mem', n) /\ After(mem') = After(n)
  BY DEF Saved, Same, After
<1>2. Tracks(mem')
  BY <1>1, SameTracks DEF Accounts, Money
<1>3. \A i \in Forgotten(mem') : log[i].time < Since(mem'.cursor)
  BY DEF Accounts, Money, Dropped, Saved
<1> QED
  BY <1>1, <1>2, <1>3 DEF Accounts, Money, Saved

-----------------------------------------------------------------------------
(* The next deal of an answer, unless it is seen: it was not counted before, and what the position had
   earlier was. *)
LEMMA HeadFirst ==
    ASSUME IInv, TInv, AInv, ~lull, NEW c \in Tasks, NEW i \in Ids, Unseen(c, i)
    PROVE  /\ i \notin mem.ever /\ (i \in Position => Earlier(i) \subseteq mem.ever)
           /\ task[c].pc = "apply" /\ ToDo(c, i)
<1>1. task[c].pc = "apply" /\ task[c].todo # <<>> /\ i = Head(task[c].todo) /\ i \notin mem.seen
  BY DEF Unseen
<1>2. InTurn(c) /\ Apart(c)
  BY DEF AInv, Good, Places
<1>3. 1 \in DOMAIN task[c].todo /\ task[c].todo[1] = i /\ \A j \in DOMAIN task[c].todo : ~(j < 1)
  <2>1. task[c].todo \in Seq(Nat)
    BY TaskParts
  <2> QED
    BY <1>1, <2>1
<1>4. ToDo(c, i)
  BY <1>3 DEF ToDo
<1>5. i \notin mem.ever
  BY <1>1, <1>2, <1>4 DEF Apart, Forgotten
<1>6. i \in Position => Earlier(i) \subseteq mem.ever
  BY <1>1, <1>2, <1>3 DEF InTurn
<1> QED
  BY <1>1, <1>4, <1>5, <1>6

(* Counting a deal that is not the position's leaves the order tracked. *)
LEMMA TracksOther ==
    ASSUME NEW m, NEW n, NEW i, i \notin Position, Tracks(m), n.ever = m.ever \union {i},
           n.st = m.st, n.lots = m.lots, n.entered = m.entered, n.net = m.net, n.out = m.out
    PROVE  Tracks(n)
<1>1. Pos(n) = Pos(m)
  BY DEF Pos
<1>2. \A j \in Pos(n) : Earlier(j) \subseteq n.ever
  BY <1>1 DEF Tracks
<1> QED
  BY <1>1, <1>2 DEF Tracks

(* The first deal of the position is its entry, and the books have none of it before that. *)
LEMMA EntryFirst ==
    ASSUME Booked, Ids \subseteq Nat, Position \subseteq Ids,
           NEW m, Tracks(m), NEW i \in Position, log[i].kind # "out", i \notin m.ever
    PROVE  Pos(m) = {} /\ Earlier(i) = {} /\ m.st # "closed"
<1>1. ASSUME NEW j \in Position, j < i PROVE FALSE
  BY <1>1 DEF Booked
<1>2. Earlier(i) = {}
  BY <1>1 DEF Earlier
<1>3. ASSUME NEW j \in Pos(m) PROVE FALSE
  <2>1. j \in Position /\ j # i /\ j \in Nat /\ i \in Nat
    BY <1>3 DEF Pos
  <2>2. i < j
    BY <1>1, <2>1
  <2>3. i \in Earlier(j)
    BY <2>2 DEF Earlier
  <2> QED
    BY <1>3, <2>3 DEF Tracks
<1>4. m.st # "closed"
  BY <1>3 DEF Tracks
<1> QED
  BY <1>2, <1>3, <1>4

(* Counting the entry opens the order, and is no news to one that is open. *)
LEMMA TracksIn ==
    ASSUME IInv, TInv, Booked, NEW m, Tracks(m), m.net \in Int, m.out \in Int, NEW n, NEW i \in Ids, log[i].kind = "in",
           i \notin m.ever, n.ever = m.ever \union {i}, n.net = m.net + log[i].cash, n.out = m.out,
           m.st \in {"sending", "open", "closed"},
           IF m.st = "sending" THEN n.st = "open" /\ n.lots = log[i].lots /\ n.entered
                               ELSE n.st = m.st /\ n.lots = m.lots /\ n.entered = m.entered
    PROVE  Tracks(n)
<1>1. i \in Position /\ Ids \subseteq Nat /\ Position \subseteq Ids
  BY DEF Position, Ids
<1>2. Pos(m) = {} /\ Earlier(i) = {} /\ m.st # "closed"
  BY <1>1, EntryFirst
<1>3. Pos(n) = {} \union {i}
  BY <1>1, <1>2 DEF Pos
<1>4. Total({}) = 0 /\ OutLots({}) = 0 /\ Total({} \union {i}) = log[i].cash + 0 /\ OutLots({} \union {i}) = Weight(i) + 0
  BY Totals DEF TInv
<1>5. Weight(i) = 0 /\ log[i].cash \in Int
  BY DealOf DEF Weight, TInv
<1>6. m.net = 0 /\ m.out = 0
  BY <1>2, <1>4 DEF Tracks
<1>7. n.net = Total(Pos(n)) /\ n.out = OutLots(Pos(n))
  BY <1>3, <1>4, <1>5, <1>6
<1>8. \A j \in Pos(n) : Earlier(j) \subseteq n.ever
  BY <1>2, <1>3
<1>9. log[i].lots = Lots /\ Lots \in Nat /\ Lots > 0
  BY <1>1, DealSyncAssumption DEF Booked
<1>10. n.st = "open" /\ n.entered /\ n.lots = Lots - n.out /\ n.lots > 0
  <2>1. CASE m.st = "sending"
    BY <1>6, <1>9, <2>1
  <2>2. CASE m.st = "open"
    BY <1>6, <1>9, <2>2 DEF Tracks
  <2> QED
    BY <1>2, <2>1, <2>2
<1> QED
  BY <1>1, <1>7, <1>8, <1>10 DEF Tracks

(* What is counted up to a deal that is not is what the position had before that deal. *)
LEMMA CountedUpTo ==
    ASSUME Ids \subseteq Nat, Position \subseteq Ids, NEW n,
           \A j \in Pos(n) : Earlier(j) \subseteq n.ever, Pos(n) # Position
    PROVE  \E j \in Position \ Pos(n) : Pos(n) = Earlier(j)
<1>1. Position \ Pos(n) \in SUBSET Nat /\ Position \ Pos(n) # {}
  BY DEF Pos
<1>2. PICK j \in Position \ Pos(n) : \A k \in Position \ Pos(n) : j <= k
  BY <1>1, Least
<1>3. ASSUME NEW k \in Earlier(j) PROVE k \in Pos(n)
  <2>1. k \in Position /\ k < j /\ k \in Nat /\ j \in Nat
    BY <1>1, <1>3 DEF Earlier
  <2> QED
    BY <1>2, <2>1
<1>4. ASSUME NEW k \in Pos(n) PROVE k \in Earlier(j)
  <2>1. k \in Position /\ k \in Nat /\ j \in Nat /\ k # j
    BY <1>1, <1>4 DEF Pos
  <2>2. CASE j < k
    <3>1. j \in Earlier(k)
      BY <2>2 DEF Earlier
    <3>2. j \in Pos(n)
      BY <1>4, <3>1 DEF Pos
    <3> QED
      BY <3>2
  <2>3. CASE k < j
    BY <2>1, <2>3 DEF Earlier
  <2> QED
    BY <2>1, <2>2, <2>3
<1> QED
  BY <1>3, <1>4

(* Once all the lots are out, all the deals of the position are counted. *)
LEMMA AllOut ==
    ASSUME IInv, TInv, Booked, NEW n, \A j \in Pos(n) : Earlier(j) \subseteq n.ever, Pos(n) # {},
           OutLots(Pos(n)) >= Lots
    PROVE  Pos(n) = Position /\ OutLots(Position) = Lots /\ held = 0
<1>0. /\ Lots \in Nat /\ Lots > 0 /\ held \in 0..Lots /\ Ids \subseteq Nat /\ Position \subseteq Ids /\ Pos(n) \subseteq Position
      /\ log \in Seq(Deal)
  BY Facts DEF Pos
<1>1. Pos(n) = Position
  <2> SUFFICES ASSUME Pos(n) # Position PROVE FALSE
    OBVIOUS
  <2>1. PICK j \in Position \ Pos(n) : Pos(n) = Earlier(j)
    BY <1>0, CountedUpTo
  <2>2. PICK k \in Earlier(j) : TRUE
    BY <2>1
  <2>3. k \in Position /\ k < j
    BY DEF Earlier
  <2>4. log[j].kind = "out"
    BY <2>3 DEF Booked
  <2>5. OutLots(Earlier(j)) < Lots
    BY <2>4 DEF Booked
  <2>6. OutLots(Pos(n)) \in Int
    BY <1>0, Totals
  <2> QED
    BY <1>0, <2>1, <2>5, <2>6
<1>2. OutLots(Position) \in Int
  BY <1>0, Totals
<1>3. held = Lots - OutLots(Position)
  BY <1>1 DEF Booked
<1> QED
  BY <1>0, <1>1, <1>2, <1>3

(* A closing deal is taken off the order, and what takes the last lots is the last of the position's deals. *)
LEMMA TracksOut ==
    ASSUME IInv, TInv, Booked, NEW m, Tracks(m), m.st = "open", m.net \in Int, m.out \in Int, m.lots \in Int,
           NEW i \in Ids, log[i].kind = "out", i \notin m.ever, Earlier(i) \subseteq m.ever,
           NEW n, n.ever = m.ever \union {i}, n.net = m.net + log[i].cash, n.out = m.out + log[i].lots,
           n.entered = m.entered,
           IF m.lots - log[i].lots > 0 THEN n.st = "open" /\ n.lots = m.lots - log[i].lots
                                       ELSE n.st = "closed" /\ n.lots = 0
    PROVE  /\ Tracks(n)
           /\ ~(m.lots - log[i].lots > 0) =>
                  m.entered /\ n.out = Lots /\ n.net = Total(Position) /\ held = 0 /\ Position # {}
<1>0. /\ Lots \in Nat /\ Position \subseteq Ids /\ log \in Seq(Deal)
      /\ log[i].lots \in Int /\ log[i].cash \in Int /\ Weight(i) = log[i].lots
  BY Facts, DealOf DEF Weight
<1>1. i \in Position
  BY DEF Position
<1>2. Pos(n) = Pos(m) \union {i} /\ i \notin Pos(m) /\ Pos(m) \in SUBSET Ids
  BY <1>0, <1>1 DEF Pos
<1>3. /\ Total(Pos(m) \union {i}) = log[i].cash + Total(Pos(m)) /\ Total(Pos(m)) \in Int
      /\ OutLots(Pos(m) \union {i}) = Weight(i) + OutLots(Pos(m)) /\ OutLots(Pos(m)) \in Int
  BY <1>0, <1>2, Totals
<1>4. m.net = Total(Pos(m)) /\ m.out = OutLots(Pos(m)) /\ m.entered /\ m.lots = Lots - m.out /\ Position # {}
  BY DEF Tracks
<1>5. n.net = Total(Pos(n)) /\ n.out = OutLots(Pos(n))
  BY <1>0, <1>2, <1>3, <1>4
<1>6. ASSUME NEW j \in Pos(n) PROVE Earlier(j) \subseteq n.ever
  BY <1>2 DEF Tracks
<1>7. n.out = Lots - (m.lots - log[i].lots) /\ n.out \in Int
  <2> DEFINE o == m.out
             l == m.lots
             e == log[i].lots
  <2>1. Lots \in Int /\ o \in Int /\ l \in Int /\ e \in Int /\ l = Lots - o
    BY <1>0, <1>4
  <2>2. n.out = o + e
    OBVIOUS
  <2>3. SUFFICES n.out = Lots - (l - e) /\ n.out \in Int
    OBVIOUS
  <2> HIDE DEF o, l, e
  <2> QED
    BY <2>1, <2>2
<1>8. CASE m.lots - log[i].lots > 0
  <2>1. n.st = "open" /\ n.lots = m.lots - log[i].lots /\ n.lots > 0 /\ n.entered
    BY <1>4, <1>8
  <2> DEFINE l == m.lots - log[i].lots
  <2>2. Lots \in Int /\ l \in Int /\ n.out = Lots - l
    BY <1>0, <1>7
  <2>3. n.lots = Lots - n.out
    <3>1. n.lots = l
      BY <2>1
    <3> HIDE DEF l
    <3> QED
      BY <2>2, <3>1
  <2> QED
    BY <1>4, <1>5, <1>6, <1>8, <2>1, <2>3 DEF Tracks
<1>9. CASE ~(m.lots - log[i].lots > 0)
  <2>1. n.out >= Lots
    BY <1>0, <1>7, <1>9
  <2>2. Pos(n) = Position /\ OutLots(Position) = Lots /\ held = 0
    BY <1>2, <1>5, <1>6, <2>1, AllOut
  <2>3. n.st = "closed" /\ n.lots = 0 /\ n.out = Lots /\ n.net = Total(Position)
    BY <1>5, <1>9, <2>2
  <2> QED
    BY <1>4, <1>5, <1>6, <2>2, <2>3 DEF Tracks
<1> QED
  BY <1>8, <1>9

(* Counting a deal keeps the account, when it is counted once. *)
LEMMA CountedAccounts ==
    ASSUME IInv, TInv, AInv, ~lull, NEW c \in Tasks, NEW i \in Ids, Unseen(c, i),
           NEW n, n.ever = mem.ever \union {i}, n.seen = mem.seen \union {i},
           n.since = mem.since, n.cursor = mem.cursor,
           n.expected = IF log[i].time >= mem.since THEN mem.expected + log[i].cash ELSE mem.expected,
           Tracks(n)
    PROVE  Accounts(n) /\ Forgotten(n) \subseteq Forgotten(mem)
<1>1. i \notin mem.ever /\ task[c].pc = "apply"
  BY HeadFirst
<1>2. mem.since # None /\ Accounts(mem)
  BY <1>1, TaskOf DEF Running, AInv, Good
<1>3. log \in Seq(Deal) /\ log[i].cash \in Int /\ log[i].time \in Int /\ mem.since \in Int /\ mem.expected \in Int
      /\ start.known \subseteq Ids /\ mem.ever \subseteq Ids
  <2>1. log \in Seq(Deal) /\ mem.expected \in Int /\ start.known \subseteq Ids
    BY DEF TInv, Synced, State
  <2>2. log[i].cash \in Int
    BY <2>1, DealOf
  <2> QED
    BY <1>2, <2>1, <2>2, TimeOf, TaskOf DEF Books, Accounts, Money
<1>4. Forgotten(n) \subseteq Forgotten(mem)
  BY DEF Forgotten
<1>5. ASSUME CleanStart PROVE n.expected = Total(start.known \union After(n))
  <2>1. mem.expected = Total(start.known \union After(mem))
    BY <1>2, <1>5 DEF Accounts, Money
  <2>2. CASE log[i].time >= mem.since
    <3>1. i \notin start.known
      BY <1>3, <1>5, <2>2 DEF CleanStart
    <3>2. start.known \union After(n) = (start.known \union After(mem)) \union {i}
      BY <2>2 DEF After
    <3>3. i \notin start.known \union After(mem) /\ start.known \union After(mem) \in SUBSET Ids
      BY <1>1, <1>3, <3>1 DEF After
    <3>4. /\ Total((start.known \union After(mem)) \union {i}) = log[i].cash + Total(start.known \union After(mem))
          /\ Total(start.known \union After(mem)) \in Int
      BY <1>3, <3>3, Totals
    <3>5. n.expected = mem.expected + log[i].cash
      BY <2>2
    <3>6. \A a, b \in Int : a + b = b + a
      OBVIOUS
    <3>7. n.expected = log[i].cash + mem.expected
      BY <1>3, <3>5, <3>6
    <3> QED
      BY <2>1, <3>2, <3>4, <3>7
  <2>3. CASE ~(log[i].time >= mem.since)
    <3>1. After(n) = After(mem)
      BY <2>3 DEF After
    <3> QED
      BY <2>1, <2>3, <3>1
  <2> QED
    BY <2>2, <2>3
<1>6. \A j \in Forgotten(n) : log[j].time < Since(n.cursor)
  BY <1>2, <1>4 DEF Accounts, Money
<1> QED
  BY <1>2, <1>3, <1>4, <1>5, <1>6 DEF Accounts, Money

-----------------------------------------------------------------------------
(* The places of the tasks. *)
Placed(c) == InTurn(c) /\ Apart(c) /\ Behind(c) /\ Left(c) /\ Keeps(c)

(* A deal that the books forget, from where task d stands. *)
Hidden(d, i) == task[d].pc # "idle" => log[i].time < Since(task[d].cursor) /\ ~ToDo(d, i)

LEMMA OthersStay ==
    ASSUME IInv, TInv, AInv, ~lull, NEW d \in Tasks, task'[d] = task[d], UNCHANGED <<now, log>>,
           mem.ever \subseteq mem'.ever,
           \A i \in Forgotten(mem') : i \in Forgotten(mem) \/ Hidden(d, i),
           mem'.cursor = mem.cursor \/ \A i \in Position \ mem.ever : log[i].time = now,
           \A i \in mem'.seen : i \in mem.seen \/ i \in Ids \ mem.ever
    PROVE  Placed(d)'
<1>0. InTurn(d) /\ Apart(d) /\ Behind(d) /\ Left(d) /\ Keeps(d)
  BY DEF AInv, Good, Places
<1>1. /\ Ids' = Ids /\ Position' = Position /\ (\A j : Earlier(j)' = Earlier(j))
  BY SameDeals
<1>2. \A i : ToDo(d, i)' <=> ToDo(d, i)
  BY DEF ToDo
<1>3. InTurn(d)'
  BY <1>0, <1>1 DEF InTurn
<1>4. Apart(d)'
  BY <1>0, <1>2 DEF Apart, Hidden, Forgotten, Since
<1>5. Behind(d)'
  BY <1>0, <1>1 DEF Behind
<1>6. Left(d)'
  BY <1>0, <1>1, <1>2 DEF Left, Late, Since
<1>7. Keeps(d)'
  <2> SUFFICES ASSUME task[d].pc = "confirm", NEW i \in mem'.seen, ~ToDo(d, i), ~(log[i].time < Since(task[d].cursor))
               PROVE  log[i].time >= now - Retention
    BY <1>2 DEF Keeps, Since
  <2>1. CASE i \in mem.seen
    BY <1>0, <2>1 DEF Keeps
  <2>2. CASE i \in Ids \ mem.ever
    <3>1. Late(d, i)
      BY <1>0, <2>2 DEF Left
    <3>2. log[i].time = now \/ log[i].time >= now - MaxDelay
      BY <3>1 DEF Late
    <3>3. /\ log[i].time \in Int /\ now \in Nat /\ MaxDelay \in Nat /\ Retention \in Nat /\ Lookback \in Nat
          /\ MaxDelay <= Lookback /\ Lookback < Retention
      BY <2>2, TimeOf, Facts DEF AInv
    <3> QED
      BY <3>2, <3>3
  <2> QED
    BY <2>1, <2>2
<1> QED
  BY <1>3, <1>4, <1>5, <1>6, <1>7 DEF Placed

(* What a save drops is hidden from every task that waits for an answer or its stop. *)
LEMMA DropHidden ==
    ASSUME IInv, TInv, AInv, ~lull, NEW n, NEW i \in Ids, Dropped(n, i), NEW d \in Tasks, task[d].pc # "apply",
           i \in mem.seen \/ i \notin mem.ever
    PROVE  Hidden(d, i)
<1>0. Left(d) /\ Keeps(d) /\ ~ToDo(d, i) /\ log[i].time < now - Retention
  BY DEF AInv, Good, Places, Dropped
<1>1. /\ log[i].time \in Int /\ now \in Nat /\ MaxDelay \in Nat /\ Retention \in Nat /\ Lookback \in Nat
      /\ MaxDelay <= Lookback /\ Lookback < Retention
  BY TimeOf, Facts DEF AInv
<1>2. CASE task[d].pc = "deals"
  BY <1>0, <1>2 DEF Dropped, Hidden
<1>3. CASE task[d].pc = "confirm"
  <2>1. ~(log[i].time >= now - Retention) /\ log[i].time # now /\ ~(log[i].time >= now - MaxDelay)
    BY <1>0, <1>1
  <2>2. CASE i \in mem.seen
    BY <1>0, <1>3, <2>1, <2>2 DEF Keeps, Hidden
  <2>3. CASE i \notin mem.ever
    <3>1. Late(d, i)
      BY <1>0, <1>3, <2>3 DEF Left
    <3> QED
      BY <1>0, <2>1, <3>1 DEF Late, Hidden
  <2> QED
    BY <2>2, <2>3
<1> QED
  BY <1>2, <1>3, TaskOf DEF IInv, Shapes, Hidden

(* What was to do and is no longer was at the head. *)
LEMMA TailHas ==
    ASSUME NEW S, NEW s \in Seq(S), s # <<>>, NEW k \in DOMAIN Tail(s)
    PROVE  k + 1 \in DOMAIN s /\ Tail(s)[k] = s[k + 1] /\ k \in Nat
  OBVIOUS

Sooner(s, k, i) == \E j \in DOMAIN s : j < k /\ s[j] = i
Has(s, i) == \E k \in DOMAIN s : s[k] = i

LEMMA TailTurn ==
    ASSUME NEW s \in Seq(Nat), s # <<>>, NEW k \in DOMAIN Tail(s), NEW i, Sooner(s, k + 1, i), i # Head(s)
    PROVE  Sooner(Tail(s), k, i)
<1>1. PICK j \in DOMAIN s : j < k + 1 /\ s[j] = i
  BY DEF Sooner
<1>2. j # 1 /\ j - 1 \in DOMAIN Tail(s) /\ Tail(s)[j - 1] = s[j] /\ j - 1 < k
  BY <1>1
<1> QED
  BY <1>1, <1>2 DEF Sooner

LEMMA TailHolds ==
    ASSUME NEW s \in Seq(Nat), s # <<>>, NEW i, Has(s, i), i # Head(s)
    PROVE  Has(Tail(s), i)
<1>1. PICK k \in DOMAIN s : s[k] = i
  BY DEF Has
<1>2. k # 1 /\ k - 1 \in DOMAIN Tail(s) /\ Tail(s)[k - 1] = s[k]
  BY <1>1
<1> QED
  BY <1>1, <1>2 DEF Has

(* The task that has counted its head, or skipped it. *)
LEMMA OwnStays ==
    ASSUME IInv, TInv, AInv, ~lull, NEW c \in Tasks, UNCHANGED <<now, log>>,
           task[c].pc = "apply", task[c].todo # <<>>, Head(task[c].todo) \in mem'.ever, mem.ever \subseteq mem'.ever,
           NEW t, task'[c] = t, t.todo = Tail(task[c].todo), t.cursor \in Int, t.cursor >= task[c].cursor,
           mem'.cursor = mem.cursor,
           \A i \in Forgotten(mem') : i \in Ids /\ (i \in Forgotten(mem) \/ (log[i].time < Since(t.cursor) /\ ~ToDo(c, i))),
           \/ t.pc = "apply"
           \/ t.pc = "confirm" /\ \A i \in mem'.seen : log[i].time >= now - Retention
    PROVE  Placed(c)'
<1>0. InTurn(c) /\ Apart(c) /\ Behind(c) /\ Left(c) /\ Keeps(c)
  BY DEF AInv, Good, Places
<1>1. /\ Ids' = Ids /\ Position' = Position /\ (\A j : Earlier(j)' = Earlier(j))
  BY SameDeals
<1> DEFINE s == task[c].todo
<1>2. s \in Seq(Nat) /\ s # <<>> /\ task[c].cursor \in Int /\ now \in Int /\ mem.cursor \in Int /\ Lookback \in Int /\ MaxDelay \in Int
  BY TaskParts, TaskOf, Facts DEF AInv
<1>3. ASSUME NEW i, ToDo(c, i), i # Head(s) PROVE ToDo(c, i)'
  <2>1. Has(s, i)
    BY <1>3 DEF ToDo, Has
  <2>2. Has(Tail(s), i)
    BY <1>2, <1>3, <2>1, TailHolds
  <2> QED
    BY <2>2 DEF ToDo, Has
<1>4. ASSUME NEW i, ToDo(c, i)' PROVE ToDo(c, i)
  <2>1. PICK k \in DOMAIN Tail(s) : Tail(s)[k] = i
    BY <1>4 DEF ToDo
  <2>2. k + 1 \in DOMAIN s /\ s[k + 1] = i
    BY <1>2, <2>1, TailHas
  <2> QED
    BY <2>2 DEF ToDo
<1>5. InTurn(c)'
  <2> SUFFICES ASSUME NEW k \in DOMAIN Tail(s)
               PROVE  /\ Tail(s)[k] \in Ids
                      /\ Tail(s)[k] \in Position =>
                            \A i \in Earlier(Tail(s)[k]) :
                                i \in mem'.ever \/ \E j \in DOMAIN Tail(s) : j < k /\ Tail(s)[j] = i
    BY <1>1 DEF InTurn
  <2>1. k + 1 \in DOMAIN s /\ Tail(s)[k] = s[k + 1] /\ k \in Nat
    BY <1>2, TailHas
  <2>2. s[k + 1] \in Ids
    BY <1>0, <2>1 DEF InTurn
  <2>3. ASSUME s[k + 1] \in Position, NEW i \in Earlier(s[k + 1]), i \notin mem'.ever
        PROVE  \E j \in DOMAIN Tail(s) : j < k /\ Tail(s)[j] = i
    <3>1. i \notin mem.ever /\ i # Head(s)
      BY <2>3
    <3>2. Sooner(s, k + 1, i)
      BY <1>0, <2>1, <2>3, <3>1 DEF InTurn, Sooner
    <3>3. Sooner(Tail(s), k, i)
      BY <1>2, <2>1, <3>1, <3>2, TailTurn
    <3> QED
      BY <3>3 DEF Sooner
  <2> QED
    BY <2>1, <2>2, <2>3
<1>6. ASSUME NEW i \in Ids, log[i].time < Since(task[c].cursor) PROVE log[i].time < Since(t.cursor)
  BY <1>2, <1>6, TimeOf DEF Since
<1>7. Apart(c)'
  <2> SUFFICES ASSUME NEW i \in Forgotten(mem') PROVE log[i].time < Since(t.cursor) /\ ~ToDo(c, i)'
    BY DEF Apart, Forgotten, Since
  <2>1. CASE i \in Forgotten(mem)
    BY <1>0, <1>4, <1>6, <2>1 DEF Apart
  <2>2. CASE log[i].time < Since(t.cursor) /\ ~ToDo(c, i)
    BY <1>4, <2>2
  <2> QED
    BY <2>1, <2>2
<1>8. Behind(c)'
  <2>1. t.cursor < mem'.cursor => task[c].cursor < mem.cursor
    BY <1>2
  <2> QED
    BY <1>0, <1>1, <2>1 DEF Behind
<1>9. Left(c)'
  <2> SUFFICES ASSUME NEW i \in Ids \ mem'.ever, ~ToDo(c, i)' PROVE Late(c, i)'
    BY <1>1 DEF Left
  <2>1. i # Head(s) /\ i \notin mem.ever
    OBVIOUS
  <2>2. ~ToDo(c, i)
    BY <1>3, <2>1
  <2>3. Late(c, i)
    BY <1>0, <2>1, <2>2 DEF Left
  <2> QED
    BY <1>1, <1>6, <2>3 DEF Late, Since
<1>10. Keeps(c)'
  BY DEF Keeps
<1> QED
  BY <1>5, <1>7, <1>8, <1>9, <1>10 DEF Placed

-----------------------------------------------------------------------------
(* An answer lists the deals of its window by time: what the position had before one of them is counted or
   listed before it. *)
LEMMA Sorted ==
    ASSUME IInv, NEW W \in SUBSET Ids, NEW ids \in InOrder(W), NEW p \in DOMAIN ids, NEW q \in DOMAIN ids,
           Before(ids[p], ids[q]), DOMAIN ids \subseteq Nat
    PROVE  p < q
<1>1. ids[p] \in Ids /\ ids[q] \in Ids /\ p \in Nat /\ q \in Nat
  BY DEF InOrder
<1>2. log[ids[p]].time \in Int /\ log[ids[q]].time \in Int /\ ids[p] \in Nat /\ ids[q] \in Nat
  BY <1>1, TimeOf DEF Ids
<1>3. CASE p = q
  BY <1>2, <1>3 DEF Before
<1>4. CASE q < p
  <2>1. Before(ids[q], ids[p])
    BY <1>4 DEF InOrder
  <2> QED
    BY <1>2, <2>1 DEF Before
<1> QED
  BY <1>1, <1>3, <1>4

LEMMA AnswerPlaced == ASSUME IInv, TInv, AInv, ~lull, NEW c \in Tasks, GotDeals(c) PROVE Placed(c)'
<1> DEFINE W == Window(Since(task[c].cursor))
<1>1. PICK ids \in InOrder(W) : \E s \in {ids, ids \o ids} : task' = [task EXCEPT ![c].pc = "apply", ![c].todo = s]
  BY DEF GotDeals
<1>2. PICK s \in {ids, ids \o ids} : task' = [task EXCEPT ![c].pc = "apply", ![c].todo = s]
  BY <1>1
<1>3. /\ UNCHANGED <<now, log, mem>> /\ task[c].pc = "deals"
      /\ task'[c].pc = "apply" /\ task'[c].todo = s /\ task'[c].cursor = task[c].cursor
  BY <1>2, TaskParts DEF GotDeals, TaskType
<1>4. /\ Ids' = Ids /\ Position' = Position /\ (\A j : Earlier(j)' = Earlier(j))
  BY <1>3, SameDeals
<1>5. W \in SUBSET Ids /\ \A i \in Ids : i \in W <=> log[i].time >= Since(task[c].cursor)
  BY DEF Window
<1>6. ids \in Seq(W) /\ DOMAIN ids = 1..Len(ids) /\ Len(ids) \in Nat /\ DOMAIN ids \subseteq Nat /\ Range(ids) = W
  <2>1. ids \in [1..Cardinality(W) -> W] /\ Range(ids) = W
    BY DEF InOrder
  <2>2. Cardinality(W) \in Nat
    BY <1>5, Totals, FS_CardinalityType DEF TInv
  <2> QED
    BY <2>1, <2>2
<1> HIDE DEF W
<1>7. \A i \in W : \E p \in DOMAIN ids : ids[p] = i
  BY <1>6 DEF Range
<1>8. ASSUME NEW k \in DOMAIN s
      PROVE  \E q \in DOMAIN ids : q <= k /\ s[k] = ids[q] /\ k \in Nat
  <2>1. CASE s = ids
    BY <1>6, <1>8, <2>1
  <2>2. CASE s = ids \o ids
    <3>1. k \in 1..(Len(ids) + Len(ids)) /\ s[k] = IF k <= Len(ids) THEN ids[k] ELSE ids[k - Len(ids)]
      BY <1>6, <1>8, <2>2
    <3>2. CASE k <= Len(ids)
      BY <1>6, <3>1, <3>2
    <3>3. CASE ~(k <= Len(ids))
      <4>1. k - Len(ids) \in DOMAIN ids /\ k - Len(ids) <= k /\ s[k] = ids[k - Len(ids)] /\ k \in Nat
        BY <1>6, <3>1, <3>3
      <4> QED
        BY <4>1
    <3> QED
      BY <3>2, <3>3
  <2> QED
    BY <1>2, <2>1, <2>2
<1>9. ASSUME NEW p \in DOMAIN ids PROVE p \in DOMAIN s /\ s[p] = ids[p]
  <2>1. p \in DOMAIN (ids \o ids) /\ (ids \o ids)[p] = ids[p]
    BY <1>6, <1>9
  <2> QED
    BY <1>2, <1>9, <2>1
<1>10. \A k \in DOMAIN s : s[k] \in W
  BY <1>6, <1>8
<1>11. Asking(c) /\ Apart(c) /\ Behind(c) /\ Booked
  BY DEF IInv, Syncs, AInv, Good, Places
<1>12. InTurn(c)'
  <2> SUFFICES ASSUME NEW k \in DOMAIN s, s[k] \in Position, NEW i \in Earlier(s[k]), i \notin mem.ever
               PROVE  \E j \in DOMAIN s : j < k /\ s[j] = i
    BY <1>3, <1>4, <1>5, <1>10 DEF InTurn
  <2>1. i \in Position /\ i < s[k] /\ i \in Ids
    BY DEF Earlier, Position
  <2>2. log[i].time <= log[s[k]].time /\ log[i].time >= mem.since
    BY <1>11, <2>1 DEF Booked
  <2>3. log[i].time >= Since(task[c].cursor)
    <3>1. In(i, mem, task[c].cursor)
      BY <1>3, <1>11, <2>1 DEF Asking
    <3>2. log[i].time \in Int /\ mem.since \in Int
      BY <2>1, TimeOf, TaskOf DEF Books
    <3> QED
      BY <2>2, <3>1, <3>2 DEF In, Since
  <2>4. i \in W
    BY <1>5, <2>1, <2>3
  <2>5. PICK p \in DOMAIN ids : ids[p] = i
    BY <1>7, <2>4
  <2>6. PICK q \in DOMAIN ids : q <= k /\ s[k] = ids[q] /\ k \in Nat
    BY <1>8
  <2>7. Before(ids[p], ids[q])
    <3>1. log[i].time \in Int /\ log[s[k]].time \in Int
      BY <1>5, <1>10, <2>1, TimeOf
    <3> QED
      BY <2>1, <2>2, <2>5, <2>6, <3>1 DEF Before
  <2>8. p < q
    BY <1>5, <1>6, <2>7, Sorted
  <2>9. p < k
    BY <1>6, <2>6, <2>8
  <2> QED
    BY <1>9, <2>5, <2>9
<1>13. Apart(c)'
  <2> SUFFICES ASSUME NEW i \in Forgotten(mem) PROVE log[i].time < Since(task[c].cursor) /\ ~(\E k \in DOMAIN s : s[k] = i)
    BY <1>3 DEF Apart, Forgotten, Since, ToDo
  <2>1. log[i].time < Since(task[c].cursor)
    BY <1>3, <1>11 DEF Apart
  <2>2. i \in Ids => log[i].time \in Int
    BY TimeOf
  <2>3. task[c].cursor \in Int /\ Lookback \in Int
    BY TaskOf, Bounds
  <2>4. i \notin W
    BY <1>5, <2>1, <2>2, <2>3 DEF Since
  <2> QED
    BY <1>10, <2>1, <2>4
<1>14. Behind(c)'
  BY <1>3, <1>4, <1>11 DEF Behind
<1>15. Left(c)'
  <2> SUFFICES ASSUME NEW i \in Ids \ mem.ever, ~(\E k \in DOMAIN s : s[k] = i)
               PROVE  i \notin Position /\ log[i].time < Since(task[c].cursor)
    BY <1>3, <1>4 DEF Left, Late, ToDo, Since
  <2>1. i \notin W
    BY <1>7, <1>9
  <2>2. log[i].time \in Int /\ mem.since \in Int /\ task[c].cursor \in Int /\ Lookback \in Int
    BY TimeOf, TaskOf, Bounds DEF Books
  <2>3. log[i].time < Since(task[c].cursor)
    BY <1>5, <2>1, <2>2 DEF Since
  <2>4. log[i].time < mem.since
    <3>1. In(i, mem, task[c].cursor)
      BY <1>3, <1>11 DEF Asking
    <3> QED
      BY <2>2, <2>3, <3>1 DEF In, Since
  <2>5. i \notin Position
    BY <1>11, <2>2, <2>4 DEF Booked
  <2> QED
    BY <2>3, <2>5
<1>16. Keeps(c)'
  BY <1>3 DEF Keeps
<1> QED
  BY <1>12, <1>13, <1>14, <1>15, <1>16 DEF Placed

-----------------------------------------------------------------------------
(* The steps of one task. *)
LEMMA SameBooked ==
    ASSUME Booked, UNCHANGED <<now, log, held, start>>, mem'.since = mem.since, journal'.since = mem.since
    PROVE  Booked'
<1>1. /\ Ids' = Ids /\ Position' = Position /\ (\A j : Earlier(j)' = Earlier(j))
      /\ \A s : OutLots(s)' = OutLots(s)
  BY SameDeals
<1> QED
  BY <1>1 DEF Booked

LEMMA SamePublished == ASSUME Published, UNCHANGED <<log, held, trades>> PROVE Published'
  BY SameDeals DEF Published

LEMMA TaskAlone ==
    ASSUME TInv, Alone, NEW c \in Tasks, NEW t, task' = [task EXCEPT ![c] = t],
           t.pc = "apply" => task[c].pc = "apply" \/ Turn(c)
    PROVE  Alone'
<1>1. task'[c] = t /\ \A d \in Tasks \ {c} : task'[d] = task[d]
  BY TaskParts
<1> QED
  BY <1>1 DEF Alone, Turn

(* All the tasks have their places when the one that moves has. *)
LEMMA AllPlaced ==
    ASSUME IInv, TInv, AInv, ~lull, NEW c \in Tasks, NEW t, task' = [task EXCEPT ![c] = t], UNCHANGED <<now, log>>,
           Placed(c)',
           mem.ever \subseteq mem'.ever,
           \A d \in Tasks \ {c} : \A i \in Forgotten(mem') : i \in Forgotten(mem) \/ Hidden(d, i),
           mem'.cursor = mem.cursor \/ \A i \in Position \ mem.ever : log[i].time = now,
           \A i \in mem'.seen : i \in mem.seen \/ i \in Ids \ mem.ever
    PROVE  Places'
<1>1. ASSUME NEW d \in Tasks PROVE Placed(d)'
  <2>1. CASE d = c
    BY <2>1
  <2>2. CASE d # c
    <3>1. task'[d] = task[d]
      BY <2>2, TaskParts
    <3>2. \A i \in Forgotten(mem') : i \in Forgotten(mem) \/ Hidden(d, i)
      BY <2>2
    <3> QED
      BY <3>1, <3>2, OthersStay
  <2> QED
    BY <2>1, <2>2
<1> QED
  BY <1>1 DEF Places, Placed

LEMMA StillTask ==
    ASSUME IInv, TInv, AInv, NEW c \in Tasks, NEW t, task' = [task EXCEPT ![c] = t],
           UNCHANGED <<now, log, held, mem, journal, start, trades, lull>>,
           t.pc = "apply" => task[c].pc = "apply" \/ Turn(c),
           ~lull => Placed(c)'
    PROVE  AInv'
<1>1. Booked' /\ Alone'
  BY SameBooked, TaskAlone DEF AInv, Booked
<1>2. ASSUME ~lull PROVE Good'
  <2>1. Accounts(mem) /\ Accounts(journal) /\ Published
    BY <1>2 DEF AInv, Good
  <2>2. Accounts(mem)' /\ Accounts(journal)' /\ Published'
    BY <2>1, AccountsNext, SamePublished
  <2>3. Places'
    <3>1. Forgotten(mem') = Forgotten(mem)
      BY DEF Forgotten
    <3> QED
      BY <1>2, <3>1, AllPlaced
  <2> QED
    BY <2>2, <2>3 DEF Good
<1> QED
  BY <1>1, <1>2 DEF AInv

LEMMA AskAgrees == ASSUME IInv, TInv, AInv, NEW c \in Tasks, AskDeals(c) PROVE AInv'
<1> DEFINE t == [pc |-> "deals", todo |-> <<>>, cursor |-> mem.cursor, new |-> FALSE]
<1>1. /\ task' = [task EXCEPT ![c] = t] /\ t.pc = "deals" /\ t.todo = <<>> /\ t.cursor = mem.cursor
      /\ UNCHANGED <<now, log, held, mem, journal, start, trades, lull>>
  BY DEF AskDeals
<1> HIDE DEF t
<1>2. task'[c] = t
  BY <1>1, TaskParts
<1>3. ASSUME ~lull PROVE Placed(c)'
  <2>1. Accounts(mem)
    BY <1>3 DEF AInv, Good
  <2>2. ~(mem.cursor < mem.cursor)
    BY Facts DEF AInv
  <2>3. \A i : ~ToDo(c, i)'
    BY <1>1, <1>2 DEF ToDo
  <2>4. \A i \in Forgotten(mem) : log[i].time < Since(mem.cursor)
    BY <2>1 DEF Accounts, Money
  <2>5. Apart(c)'
    BY <1>1, <1>2, <2>3, <2>4 DEF Apart, Forgotten, Since
  <2> QED
    BY <1>1, <1>2, <2>2, <2>5 DEF Placed, InTurn, Behind, Left, Keeps
<1> QED
  BY <1>1, <1>3, StillTask

LEMMA GotAgrees == ASSUME IInv, TInv, AInv, NEW c \in Tasks, GotDeals(c) PROVE AInv'
<1>1. PICK s : task' = [task EXCEPT ![c].pc = "apply", ![c].todo = s]
  BY DEF GotDeals
<1> DEFINE t == [task[c] EXCEPT !.pc = "apply", !.todo = s]
<1>2. task' = [task EXCEPT ![c] = t]
  BY <1>1, TaskParts
<1> HIDE DEF t
<1>3. UNCHANGED <<now, log, held, mem, journal, start, trades, lull>> /\ Turn(c)
  BY DEF GotDeals
<1> QED
  BY <1>2, <1>3, AnswerPlaced, StillTask

LEMMA IdlePlaced == ASSUME NEW c \in Tasks, task'[c].pc = "idle" PROVE Placed(c)'
  BY DEF Placed, InTurn, Apart, Behind, Left, Keeps

LEMMA LostAgrees == ASSUME IInv, TInv, AInv, NEW c \in Tasks, DealsLost(c) PROVE AInv'
<1> DEFINE t == Idle(task[c])
<1>1. /\ task' = [task EXCEPT ![c] = t] /\ UNCHANGED <<now, log, held, mem, journal, start, trades, lull>>
  BY DEF DealsLost
<1>2. t.pc = "idle" /\ task'[c] = t
  BY <1>1, TaskParts, IdleTask
<1> HIDE DEF t
<1> QED
  BY <1>1, <1>2, IdlePlaced, StillTask

LEMMA SkipAgrees == ASSUME IInv, TInv, AInv, NEW c \in Tasks, SkipSeen(c) PROVE AInv'
<1> DEFINE t == [task[c] EXCEPT !.todo = Tail(task[c].todo)]
<1>1. /\ task' = [task EXCEPT ![c] = t] /\ UNCHANGED <<now, log, held, mem, journal, start, trades, lull>>
      /\ task[c].pc = "apply" /\ task[c].todo # <<>> /\ Head(task[c].todo) \in mem.seen
  BY TaskParts DEF SkipSeen
<1>2. t.pc = "apply" /\ t.todo = Tail(task[c].todo) /\ t.cursor = task[c].cursor
  BY <1>1, TaskParts DEF TaskType
<1> HIDE DEF t
<1>3. task'[c] = t
  BY <1>1, TaskParts
<1>4. Head(task[c].todo) \in mem.ever /\ t.cursor \in Int /\ t.cursor >= task[c].cursor
  BY <1>1, <1>2, Facts, TaskOf DEF AInv
<1>5. ASSUME ~lull PROVE Placed(c)'
  <2>1. \A i \in Forgotten(mem') : i \in Ids /\ i \in Forgotten(mem)
    BY <1>1, <1>5 DEF Forgotten, AInv, Good, Accounts, Money
  <2> QED
    BY <1>1, <1>2, <1>3, <1>4, <1>5, <2>1, OwnStays
<1> QED
  BY <1>1, <1>5, StillTask

LEMMA ConfirmAgrees == ASSUME IInv, TInv, AInv, NEW c \in Tasks, StopConfirmed(c) PROVE AInv'
<1> DEFINE t == [task[c] EXCEPT !.pc = "apply"]
<1>1. /\ task' = [task EXCEPT ![c] = t] /\ UNCHANGED <<now, log, held, mem, journal, start, trades, lull>>
      /\ task[c].pc = "confirm" /\ Turn(c)
  BY TaskParts DEF StopConfirmed
<1>2. t.pc = "apply" /\ t.todo = task[c].todo /\ t.cursor = task[c].cursor
  BY <1>1, TaskParts DEF TaskType
<1> HIDE DEF t
<1>3. task'[c] = t
  BY <1>1, TaskParts
<1>4. ASSUME ~lull PROVE Placed(c)'
  <2>1. InTurn(c) /\ Apart(c) /\ Behind(c) /\ Left(c)
    BY <1>4 DEF AInv, Good, Places
  <2>2. Ids' = Ids /\ Position' = Position /\ (\A j : Earlier(j)' = Earlier(j)) /\ \A i : ToDo(c, i)' <=> ToDo(c, i)
    BY <1>1, <1>2, <1>3, SameDeals DEF ToDo
  <2>3. InTurn(c)'
    BY <1>1, <1>2, <1>3, <2>1, <2>2 DEF InTurn
  <2>4. Apart(c)'
    BY <1>1, <1>2, <1>3, <2>1, <2>2 DEF Apart, Forgotten, Since
  <2>5. Behind(c)'
    BY <1>1, <1>2, <1>3, <2>1, <2>2 DEF Behind
  <2>6. Left(c)'
    BY <1>1, <1>2, <1>3, <2>1, <2>2 DEF Left, Late, Since
  <2> QED
    BY <1>2, <1>3, <2>3, <2>4, <2>5, <2>6 DEF Placed, Keeps
<1> QED
  BY <1>1, <1>4, StillTask

LEMMA AppliedPlace ==
    ASSUME IInv, TInv, NEW c \in Tasks, NEW i \in Ids, Unseen(c, i)
    PROVE  /\ Applied(c, i).pc = "apply" /\ Applied(c, i).todo = Tail(task[c].todo)
           /\ Applied(c, i).cursor \in Int /\ Applied(c, i).cursor >= task[c].cursor
           /\ Applied(c, i).cursor >= log[i].time /\ Applied(c, i) \in TaskType
           /\ task[c].pc = "apply" /\ task[c].todo # <<>> /\ Head(task[c].todo) = i
<1>1. task[c] \in TaskType /\ task[c].pc = "apply" /\ task[c].todo # <<>> /\ Head(task[c].todo) = i
  BY TaskParts DEF Unseen
<1>2. log[i].time \in Int /\ task[c].cursor \in Int
  BY TimeOf, TaskOf
<1>3. Applied(c, i).cursor = IF log[i].time > task[c].cursor THEN log[i].time ELSE task[c].cursor
  BY <1>1 DEF Applied, TaskType
<1> QED
  BY <1>1, <1>2, <1>3, AppliedTask, AppliedType

(* What counting deal i makes of the books but for the order. *)
Counts(n, i) ==
    /\ n.ever = mem.ever \union {i} /\ n.seen = mem.seen \union {i} /\ n.since = mem.since /\ n.cursor = mem.cursor
    /\ n.expected = IF log[i].time >= mem.since THEN mem.expected + log[i].cash ELSE mem.expected

LEMMA CountedAgrees ==
    ASSUME IInv, TInv, AInv, NEW c \in Tasks, NEW i \in Ids, Unseen(c, i),
           task' = [task EXCEPT ![c] = Applied(c, i)],
           UNCHANGED <<now, log, held, journal, start, lull>>, Counts(mem', i),
           ~lull => Tracks(mem') /\ Published'
    PROVE  AInv'
<1> DEFINE t == Applied(c, i)
<1>1. /\ t.pc = "apply" /\ t.todo = Tail(task[c].todo) /\ t.cursor \in Int /\ t.cursor >= task[c].cursor
      /\ task[c].pc = "apply" /\ task[c].todo # <<>> /\ Head(task[c].todo) = i
  BY AppliedPlace
<1> HIDE DEF t
<1>2. task' = [task EXCEPT ![c] = t] /\ task'[c] = t
  BY TaskParts DEF t
<1>3. Booked' /\ Alone'
  <2>1. Booked /\ Alone /\ journal.since = mem.since
    BY DEF AInv, Booked
  <2>2. mem'.since = mem.since /\ journal'.since = journal.since
    BY DEF Counts
  <2>3. Booked'
    BY <2>1, <2>2, SameBooked
  <2>4. Alone'
    BY <1>1, <1>2, <2>1, TaskAlone
  <2> QED
    BY <2>3, <2>4
<1>4. ASSUME ~lull PROVE Good'
  <2>1. Accounts(mem) /\ Accounts(journal)
    BY <1>4 DEF AInv, Good
  <2>2. Accounts(mem') /\ Forgotten(mem') \subseteq Forgotten(mem)
    BY <1>4, CountedAccounts DEF Counts
  <2>3. Accounts(mem)' /\ Accounts(journal)'
    BY <2>1, <2>2, AccountsNext DEF Counts
  <2>4. i \notin mem.ever
    BY <1>4, HeadFirst
  <2>5. \A j \in Forgotten(mem') : j \in Ids /\ j \in Forgotten(mem)
    BY <2>1, <2>2 DEF Forgotten, Accounts, Money
  <2>6. mem'.ever = mem.ever \union {i} /\ mem'.seen = mem.seen \union {i} /\ mem'.cursor = mem.cursor
    BY DEF Counts
  <2>7. Placed(c)'
    BY <1>1, <1>2, <1>4, <2>5, <2>6, OwnStays
  <2>8. Places'
    BY <1>2, <1>4, <2>4, <2>5, <2>6, <2>7, AllPlaced
  <2> QED
    BY <1>4, <2>3, <2>8 DEF Good
<1> QED
  BY <1>3, <1>4 DEF AInv

LEMMA CountOnlyAgrees == ASSUME IInv, TInv, AInv, NEW c \in Tasks, CountOnly(c) PROVE AInv'
<1>1. PICK i \in Ids : /\ Unseen(c, i)
                       /\ log[i].kind = "balance" \/ (log[i].kind = "out" /\ mem.st # "open")
                       /\ mem' = Counted(mem, i)
                       /\ task' = [task EXCEPT ![c] = Applied(c, i)]
  BY DEF CountOnly
<1>2. UNCHANGED <<now, log, held, journal, start, trades, lull>>
  BY DEF CountOnly
<1>3. mem \in State
  BY DEF TInv, Synced
<1>4. /\ Counts(mem', i) /\ mem'.st = mem.st /\ mem'.lots = mem.lots /\ mem'.entered = mem.entered
      /\ mem'.net = mem.net /\ mem'.out = mem.out
  BY <1>1, <1>3 DEF Counted, Counts, State
<1>5. ASSUME ~lull PROVE Tracks(mem') /\ Published'
  <2>1. Booked /\ Tracks(mem) /\ Published
    BY <1>5 DEF AInv, Good, Accounts, Money
  <2>2. i \notin mem.ever /\ (i \in Position => Earlier(i) \subseteq mem.ever)
    BY <1>1, <1>5, HeadFirst
  <2>3. CASE log[i].kind = "balance"
    <3>1. i \notin Position
      BY <2>3 DEF Position
    <3>2. Tracks(mem')
      BY <1>4, <2>1, <3>1, TracksOther DEF Counts
    <3> QED
      BY <1>2, <2>1, <3>2, SamePublished
  <2>4. CASE log[i].kind = "out" /\ mem.st # "open"
    <3>1. i \in Position
      BY <2>4 DEF Position
    <3>2. PICK j \in Earlier(i) : TRUE
      BY <2>1, <2>4, <3>1 DEF Booked
    <3>3. j \in Pos(mem)
      BY <2>2, <3>1, <3>2 DEF Pos, Earlier
    <3>4. mem.st = "closed"
      BY <1>3, <2>1, <2>4, <3>3 DEF Tracks, State
    <3>5. i \in Pos(mem)
      BY <2>1, <3>1, <3>4 DEF Tracks
    <3> QED
      BY <2>2, <3>5 DEF Pos
  <2> QED
    BY <1>1, <2>3, <2>4
<1> QED
  BY <1>1, <1>2, <1>4, <1>5, CountedAgrees

LEMMA OutAgrees == ASSUME IInv, TInv, AInv, NEW c \in Tasks, ApplyOut(c) PROVE AInv'
<1>1. PICK i \in Ids :
        LET m == [Counted(mem, i) EXCEPT !.net = @ + log[i].cash, !.out = @ + log[i].lots,
                                         !.lots = @ - log[i].lots] IN
        /\ Unseen(c, i) /\ log[i].kind = "out" /\ mem.st = "open"
        /\ IF StillOpen(m)
           THEN mem' = m /\ UNCHANGED trades
           ELSE /\ mem' = [m EXCEPT !.st = "closed", !.lots = 0]
                /\ trades' = trades \union ClosedTrade(m)
        /\ task' = [task EXCEPT ![c] = Applied(c, i)]
  BY DEF ApplyOut
<1> DEFINE m == [Counted(mem, i) EXCEPT !.net = @ + log[i].cash, !.out = @ + log[i].lots, !.lots = @ - log[i].lots]
<1>2. UNCHANGED <<now, log, held, journal, start, lull>>
  BY DEF ApplyOut
<1>3. mem \in State
  BY DEF TInv, Synced
<1>4. /\ Counts(m, i) /\ m.st = mem.st /\ m.lots = mem.lots - log[i].lots /\ m.entered = mem.entered
      /\ m.net = mem.net + log[i].cash /\ m.out = mem.out + log[i].lots
      /\ DOMAIN m = MemFields
  BY <1>3 DEF Counted, Counts, State, MemFields
<1>5. /\ StillOpen(m) => mem' = m /\ UNCHANGED trades
      /\ ~StillOpen(m) => mem' = [m EXCEPT !.st = "closed", !.lots = 0] /\ trades' = trades \union ClosedTrade(m)
  BY <1>1
<1>6. ~StillOpen(m) => /\ mem'.st = "closed" /\ mem'.lots = 0 /\ mem'.entered = m.entered /\ mem'.net = m.net
                       /\ mem'.out = m.out /\ mem'.ever = m.ever /\ mem'.seen = m.seen /\ mem'.since = m.since
                       /\ mem'.cursor = m.cursor /\ mem'.expected = m.expected
  <2>1. ~StillOpen(m) => mem' = Ended(m)
    BY <1>5 DEF Ended
  <2> HIDE DEF m
  <2> QED
    BY <1>4, <2>1, EndedFields
<1> HIDE DEF m
<1>7. Counts(mem', i) /\ mem'.net = mem.net + log[i].cash /\ mem'.out = mem.out + log[i].lots /\ mem'.entered = mem.entered
  BY <1>4, <1>5, <1>6 DEF Counts
<1>8. StillOpen(m) <=> mem.lots - log[i].lots > 0
  BY <1>4 DEF StillOpen
<1>9. IF mem.lots - log[i].lots > 0 THEN mem'.st = "open" /\ mem'.lots = mem.lots - log[i].lots
                                    ELSE mem'.st = "closed" /\ mem'.lots = 0
  BY <1>1, <1>4, <1>5, <1>6, <1>8
<1>10. ASSUME ~lull PROVE Tracks(mem') /\ Published'
  <2>1. Booked /\ Tracks(mem) /\ Published
    BY <1>10 DEF AInv, Good, Accounts, Money
  <2>2. i \notin mem.ever /\ Earlier(i) \subseteq mem.ever
    BY <1>1, <1>10, HeadFirst DEF Position
  <2>3. mem.net \in Int /\ mem.out \in Int /\ mem.lots \in Int
    BY <1>3 DEF State
  <2>4. /\ Tracks(mem')
        /\ ~(mem.lots - log[i].lots > 0) =>
               mem.entered /\ mem'.out = Lots /\ mem'.net = Total(Position) /\ held = 0 /\ Position # {}
    BY <1>1, <1>7, <1>9, <2>1, <2>2, <2>3, TracksOut DEF Counts
  <2>5. Published'
    <3>1. CASE StillOpen(m)
      BY <1>2, <1>5, <2>1, <3>1, SamePublished
    <3>2. CASE ~StillOpen(m)
      <4>1. /\ m.out = Lots /\ m.net = Total(Position) /\ held = 0 /\ Position # {}
        BY <1>4, <1>7, <1>8, <2>4, <3>2
      <4>2. \A t \in ClosedTrade(m) : t.out = Lots /\ t.net = Total(Position)
        BY <4>1 DEF ClosedTrade
      <4>3. \A t \in trades' : t.out = Lots /\ t.net = Total(Position)
        BY <1>5, <2>1, <3>2, <4>2 DEF Published
      <4>4. Total(Position)' = Total(Position) /\ Position' = Position
        BY <1>2 DEF Total, Position, Ids
      <4> QED
        BY <1>2, <4>1, <4>3, <4>4 DEF Published
    <3> QED
      BY <3>1, <3>2
  <2> QED
    BY <2>4, <2>5
<1> QED
  BY <1>1, <1>2, <1>7, <1>10, CountedAgrees

LEMMA InAgrees == ASSUME IInv, TInv, AInv, NEW c \in Tasks, ApplyIn(c) PROVE AInv'
<1>1. PICK i \in Ids :
        LET m == [Counted(mem, i) EXCEPT !.net = NetOfEntry(mem, i)] IN
        /\ Unseen(c, i) /\ log[i].kind = "in"
        /\ IF mem.st = "sending"
           THEN /\ Save([m EXCEPT !.st = "open", !.lots = log[i].lots, !.entered = TRUE])
                /\ task' = [task EXCEPT ![c] = [Applied(c, i) EXCEPT !.pc = "confirm"]]
           ELSE /\ mem' = m
                /\ task' = [task EXCEPT ![c] = Applied(c, i)]
                /\ UNCHANGED <<journal, lull>>
  BY DEF ApplyIn
<1>2. UNCHANGED <<now, log, held, start, trades>>
  BY DEF ApplyIn
<1>3. mem \in State /\ mem.net \in Int /\ mem.out \in Int /\ mem.st \in {"sending", "open", "closed"} /\ mem.seen \subseteq Ids
  <2>1. mem \in State /\ mem.seen \subseteq Ids
    BY DEF TInv, Synced
  <2> QED
    BY <2>1 DEF State
<1> DEFINE m == [Counted(mem, i) EXCEPT !.net = NetOfEntry(mem, i)]
           n == [m EXCEPT !.st = "open", !.lots = log[i].lots, !.entered = TRUE]
           t == [Applied(c, i) EXCEPT !.pc = "confirm"]
<1>4. /\ Counts(m, i) /\ m.st = mem.st /\ m.lots = mem.lots /\ m.entered = mem.entered
      /\ m.net = mem.net + log[i].cash /\ m.out = mem.out
  BY <1>3 DEF Counted, Counts, State, NetOfEntry
<1>5. /\ Counts(n, i) /\ n.st = "open" /\ n.lots = log[i].lots /\ n.entered
      /\ n.net = mem.net + log[i].cash /\ n.out = mem.out
  BY <1>3 DEF Counted, Counts, State, NetOfEntry
<1>6. n \in State
  <2> DEFINE C == Counted(mem, i)
  <2>1. C \in State
    BY CountedType
  <2>2. NetOfEntry(mem, i) \in Int /\ log[i].lots \in 0..Lots
    BY <1>3, DealOf DEF NetOfEntry, TInv
  <2> HIDE DEF C
  <2>3. [C EXCEPT !.net = NetOfEntry(mem, i), !.st = "open", !.lots = log[i].lots, !.entered = TRUE] \in State
    BY <2>1, <2>2 DEF State
  <2>4. n = [C EXCEPT !.net = NetOfEntry(mem, i), !.st = "open", !.lots = log[i].lots, !.entered = TRUE]
    BY <2>1 DEF State, C
  <2> QED
    BY <2>3, <2>4
<1>7. ASSUME ~lull
      PROVE  /\ Booked /\ Tracks(mem) /\ Published /\ i \notin mem.ever /\ i \in Position
             /\ mem.st = "sending" => Tracks(n)
             /\ mem.st # "sending" => Tracks(m)
  <2>1. Booked /\ Tracks(mem) /\ Published
    BY <1>7 DEF AInv, Good, Accounts, Money
  <2>2. i \notin mem.ever /\ i \in Position
    BY <1>1, <1>7, HeadFirst DEF Position
  <2> HIDE DEF m, n
  <2>3. mem.st = "sending" => Tracks(n)
    BY <1>1, <1>3, <1>5, <2>1, <2>2, TracksIn DEF Counts
  <2>4. mem.st # "sending" => Tracks(m)
    BY <1>1, <1>3, <1>4, <2>1, <2>2, TracksIn DEF Counts
  <2> QED
    BY <2>1, <2>2, <2>3, <2>4
<1>8. CASE mem.st # "sending"
  <2>1. mem' = m /\ task' = [task EXCEPT ![c] = Applied(c, i)] /\ UNCHANGED <<journal, lull>>
    BY <1>1, <1>8
  <2> HIDE DEF m
  <2>2. ~lull => Tracks(mem') /\ Published'
    BY <1>2, <1>7, <1>8, <2>1, SamePublished
  <2>3. Counts(mem', i)
    BY <1>4, <2>1
  <2> QED
    BY <1>1, <1>2, <2>1, <2>2, <2>3, CountedAgrees
<1>9. CASE mem.st = "sending"
  <2>1. Save(n) /\ task' = [task EXCEPT ![c] = t]
    BY <1>1, <1>9
  <2>2. /\ t.pc = "confirm" /\ t.todo = Tail(task[c].todo) /\ t.cursor = Applied(c, i).cursor
        /\ t.cursor \in Int /\ t.cursor >= task[c].cursor /\ t.cursor >= log[i].time
        /\ task[c].pc = "apply" /\ task[c].todo # <<>> /\ Head(task[c].todo) = i
    BY <1>1, AppliedPlace DEF TaskType
  <2> HIDE DEF m, n, t
  <2>3. Saved(n) /\ journal' = mem'
    BY <1>6, <2>1, SavedBooks
  <2>4. /\ mem'.ever = mem.ever \union {i} /\ mem'.since = mem.since /\ mem'.cursor = mem.cursor
        /\ mem'.seen \subseteq mem.seen \union {i} /\ \A j \in mem'.seen : log[j].time >= now - Retention
    BY <1>5, <2>3 DEF Counts, Saved
  <2>5. Booked' /\ Alone'
    BY <1>2, <2>1, <2>2, <2>3, <2>4, SameBooked, TaskAlone DEF AInv
  <2>6. ASSUME ~lull' PROVE Good'
    <3>1. n.seen \subseteq Ids /\ n.seen = mem.seen \union {i} /\ n.cursor = mem.cursor
      BY <1>3, <1>5 DEF Counts
    <3>2. ~lull /\ \A j \in Forgotten(mem') : j \in Forgotten(n) \/ Dropped(n, j)
      BY <1>6, <2>1, <2>6, <3>1, Drops
    <3>3. Tracks(n) /\ i \notin mem.ever /\ Published /\ Accounts(mem) /\ i \in Position
      BY <1>7, <1>9, <3>2 DEF AInv, Good
    <3>4. Accounts(n) /\ Forgotten(n) \subseteq Forgotten(mem)
      BY <1>1, <1>5, <3>2, <3>3, CountedAccounts DEF Counts
    <3>5. Accounts(mem')
      BY <1>6, <2>3, <3>2, <3>4, SavedAccounts
    <3>6. Accounts(mem)' /\ Accounts(journal)' /\ Published'
      BY <1>2, <2>3, <2>4, <3>3, <3>5, AccountsNext, SamePublished
    <3>7. \A j \in Forgotten(mem') : j \in Ids /\ (j \in Forgotten(mem) \/ Dropped(n, j))
      BY <3>2, <3>4, <3>5 DEF Forgotten, Accounts, Money
    <3>8. t.cursor >= mem.cursor
      <4>1. Behind(c) /\ mem.cursor \in Int /\ task[c].cursor \in Int /\ mem.cursor <= now /\ now \in Int
        BY <3>2, TaskOf DEF AInv, Good, Places, Books
      <4>2. CASE task[c].cursor < mem.cursor
        <5>1. log[i].time = now
          BY <2>2, <3>3, <4>1, <4>2 DEF Behind
        <5> QED
          BY <2>2, <4>1, <5>1
      <4> QED
        BY <2>2, <4>1, <4>2
    <3>9. ASSUME NEW j \in Forgotten(mem'), Dropped(n, j) PROVE log[j].time < Since(t.cursor) /\ ~ToDo(c, j)
      <4>1. ~ToDo(c, j) /\ log[j].time < Since(mem.cursor) /\ j \in Ids
        BY <3>1, <3>7, <3>9 DEF Dropped
      <4>2. log[j].time \in Int /\ mem.cursor \in Int /\ Lookback \in Int
        BY <4>1, TimeOf, TaskOf, Bounds DEF Books
      <4> QED
        BY <2>2, <3>8, <4>1, <4>2 DEF Since
    <3>10. Placed(c)'
      <4>1. \A j \in Forgotten(mem') : j \in Ids /\ (j \in Forgotten(mem) \/ (log[j].time < Since(t.cursor) /\ ~ToDo(c, j)))
        BY <3>7, <3>9
      <4>2. task'[c] = t
        BY <2>1, TaskParts
      <4> QED
        BY <1>2, <2>2, <2>4, <3>2, <4>1, <4>2, OwnStays
    <3>11. ASSUME NEW d \in Tasks \ {c}, NEW j \in Forgotten(mem'), j \notin Forgotten(mem) PROVE Hidden(d, j)
      <4>1. Dropped(n, j) /\ j \in Ids
        BY <3>7, <3>11
      <4>2. j \in mem.seen \/ j \notin mem.ever
        BY <3>1, <3>3, <4>1 DEF Dropped
      <4>3. task[d].pc # "apply"
        BY <2>2, <3>11 DEF AInv, Alone
      <4> QED
        BY <3>2, <4>1, <4>2, <4>3, DropHidden
    <3>12. Places'
      <4>1. \A j \in mem'.seen : j \in mem.seen \/ j \in Ids \ mem.ever
        BY <2>4, <3>3
      <4> QED
        BY <1>2, <2>1, <2>4, <3>2, <3>10, <3>11, <4>1, AllPlaced
    <3> QED
      BY <3>6, <3>12 DEF Good
  <2> QED
    BY <2>5, <2>6 DEF AInv
<1> QED
  BY <1>8, <1>9

LEMMA DoneAgrees == ASSUME IInv, TInv, AInv, NEW c \in Tasks, SyncDone(c) PROVE AInv'
<1> DEFINE t == Idle(task[c])
           n == [mem EXCEPT !.cursor = task[c].cursor]
<1>1. /\ task' = [task EXCEPT ![c] = t] /\ UNCHANGED <<now, log, held, start, trades>>
      /\ task[c].pc = "apply" /\ task[c].todo = <<>>
      /\ Save(n) \/ UNCHANGED <<mem, journal, lull>>
  BY DEF SyncDone, Cursor
<1>2. t.pc = "idle" /\ task'[c] = t
  BY <1>1, TaskParts, IdleTask
<1>3. Placed(c)'
  BY <1>2, IdlePlaced
<1>4. n \in State /\ Same(n, mem) /\ n.seen = mem.seen /\ n.since = mem.since /\ n.cursor = task[c].cursor
      /\ n.expected = mem.expected /\ mem.seen \subseteq Ids
  <2>1. mem \in State /\ task[c].cursor \in None..MaxTime /\ mem.seen \subseteq Ids
    BY TaskParts, DealSyncAssumption DEF TInv, Synced, None
  <2>2. n \in State
    BY <2>1 DEF State
  <2> QED
    BY <2>1, <2>2 DEF State, Same
<1> HIDE DEF t, n
<1>5. CASE UNCHANGED <<mem, journal, lull>>
  BY <1>1, <1>2, <1>3, <1>5, StillTask
<1>6. CASE Save(n)
  <2>1. Saved(n) /\ journal' = mem'
    BY <1>4, <1>6, SavedBooks
  <2>2. /\ mem'.ever = mem.ever /\ mem'.since = mem.since /\ mem'.seen \subseteq mem.seen
    BY <1>4, <2>1 DEF Same, Saved
  <2>3. Booked' /\ Alone'
    BY <1>1, <1>2, <2>1, <2>2, SameBooked, TaskAlone DEF AInv
  <2>4. ASSUME ~lull' PROVE Good'
    <3>1. ~lull /\ \A j \in Forgotten(mem') : j \in Forgotten(n) \/ Dropped(n, j)
      BY <1>4, <1>6, <2>4, Drops
    <3>2. Accounts(mem) /\ Published /\ Apart(c) /\ Left(c)
      BY <3>1 DEF AInv, Good, Places
    <3>3. Forgotten(n) = Forgotten(mem) /\ After(n) = After(mem)
      BY <1>4 DEF Forgotten, After, Same
    <3>4. Accounts(n)
      <4>1. Tracks(n)
        BY <1>4, <3>2, SameTracks DEF Accounts, Money
      <4>2. \A j \in Forgotten(n) : log[j].time < Since(n.cursor)
        BY <1>1, <1>4, <3>2, <3>3 DEF Apart
      <4> QED
        BY <1>4, <3>2, <3>3, <4>1, <4>2 DEF Accounts, Money, Same
    <3>5. Accounts(mem')
      BY <1>4, <2>1, <3>1, <3>4, SavedAccounts
    <3>6. Accounts(mem)' /\ Accounts(journal)' /\ Published'
      BY <1>1, <2>1, <2>2, <3>2, <3>5, AccountsNext, SamePublished
    <3>7. ASSUME NEW d \in Tasks \ {c}, NEW j \in Forgotten(mem'), j \notin Forgotten(mem) PROVE Hidden(d, j)
      <4>1. Dropped(n, j) /\ j \in Ids /\ j \in mem.seen
        BY <1>4, <3>1, <3>3, <3>7 DEF Dropped
      <4>2. task[d].pc # "apply"
        BY <1>1, <3>7 DEF AInv, Alone
      <4> QED
        BY <3>1, <4>1, <4>2, DropHidden
    <3>8. \A j \in Position \ mem.ever : log[j].time = now
      <4> SUFFICES ASSUME NEW j \in Position \ mem.ever PROVE log[j].time = now
        OBVIOUS
      <4>1. j \in Ids /\ ~ToDo(c, j)
        BY <1>1 DEF Position, ToDo
      <4>2. Late(c, j)
        BY <1>1, <3>2, <4>1 DEF Left
      <4> QED
        BY <4>2 DEF Late
    <3>9. Places'
      BY <1>1, <1>3, <2>2, <3>1, <3>7, <3>8, AllPlaced
    <3> QED
      BY <3>6, <3>9 DEF Good
  <2> QED
    BY <2>3, <2>4 DEF AInv
<1> QED
  BY <1>1, <1>5, <1>6

-----------------------------------------------------------------------------
(* The broker books deal N. *)
Adding(N, e) == N = Len(log) + 1 /\ e \in Deal /\ log' = Append(log, e)

LEMMA Appended ==
    ASSUME TInv, NEW N, NEW e, Adding(N, e)
    PROVE  /\ Ids' = Ids \union {N} /\ N \notin Ids /\ N \in Nat /\ Ids \subseteq Nat
           /\ log'[N] = e /\ log' \in Seq(Deal)
           /\ \A i \in Ids : i < N /\ log'[i] = log[i]
           /\ Position' = IF e.kind = "balance" THEN Position ELSE Position \union {N}
           /\ Position \subseteq Ids
           /\ \A j \in Ids : Earlier(j)' = Earlier(j)
           /\ Earlier(N)' = Position
           /\ \A s \in SUBSET Ids : Total(s)' = Total(s) /\ OutLots(s)' = OutLots(s)
<1>1. /\ Ids' = Ids \union {N} /\ N \notin Ids /\ N \in Nat /\ Ids \subseteq Nat
      /\ log'[N] = e /\ log' \in Seq(Deal)
      /\ \A i \in Ids : i < N /\ log'[i] = log[i]
  BY DEF TInv, Ids, Adding
<1>2. Position' = (IF e.kind = "balance" THEN Position ELSE Position \union {N}) /\ Position \subseteq Ids
  BY <1>1 DEF Position
<1>3. \A j \in Ids : Earlier(j)' = Earlier(j)
  <2> SUFFICES ASSUME NEW j \in Ids PROVE Earlier(j)' = Earlier(j)
    OBVIOUS
  <2>1. ~(N < j)
    BY <1>1
  <2> QED
    BY <1>2, <2>1 DEF Earlier
<1>4. Earlier(N)' = Position
  <2>1. ~(N < N) /\ \A i \in Position : i < N
    BY <1>1, <1>2
  <2> QED
    BY <1>2, <2>1 DEF Earlier
<1>5. ASSUME NEW s \in SUBSET Ids PROVE Total(s)' = Total(s) /\ OutLots(s)' = OutLots(s)
  <2>1. \A i \in s : log'[i] = log[i]
    BY <1>1
  <2>2. [i \in s |-> log'[i].cash] = [i \in s |-> log[i].cash]
    BY <2>1
  <2>3. [i \in s |-> IF log'[i].kind = "out" THEN log'[i].lots ELSE 0] = [i \in s |-> IF log[i].kind = "out" THEN log[i].lots ELSE 0]
    BY <2>1
  <2> QED
    BY <2>2, <2>3 DEF Total, OutLots
<1> QED
  BY <1>1, <1>2, <1>3, <1>4, <1>5

(* The lots of the closing deals, with the new one. *)
LEMMA AppendedLots ==
    ASSUME TInv, NEW N, NEW e, Adding(N, e), e.kind # "balance"
    PROVE  OutLots(Position)' = OutLots(Position) + (IF e.kind = "out" THEN e.lots ELSE 0)
<1>1. /\ N \notin Ids /\ log'[N] = e /\ (\A i \in Ids : log'[i] = log[i]) /\ Position' = Position \union {N}
      /\ Position \subseteq Ids
  BY Appended
<1>2. IsFiniteSet(Position) /\ OutLots(Position) \in Int
  BY <1>1, Totals DEF TInv
<1> DEFINE R == Position \union {N}
           g == [i \in Position |-> IF log[i].kind = "out" THEN log[i].lots ELSE 0]
           h == [i \in R |-> IF log'[i].kind = "out" THEN log'[i].lots ELSE 0]
           w == IF e.kind = "out" THEN e.lots ELSE 0
<1>3. IsFiniteSet(R) /\ N \in R /\ R \ {N} = Position
  BY <1>1, <1>2, FS_AddElement
<1>4. e.lots \in Int /\ 0 \in Int
  BY DealSyncAssumption DEF Adding, Deal
<1>5. h \in [R -> Int]
  <2>1. ASSUME NEW i \in R PROVE log'[i].lots \in Int
    <3>1. CASE i = N
      BY <1>1, <1>4, <3>1
    <3>2. CASE i \in Ids
      BY <1>1, <3>2, DealOf, DealSyncAssumption DEF TInv
    <3> QED
      BY <1>1, <2>1, <3>1, <3>2
  <2> QED
    BY <1>4, <2>1
<1>6. Without(g, h, R, N)
  <2>1. [y \in Position |-> h[y]] = g
    BY <1>1
  <2> QED
    BY <1>3, <2>1 DEF Without
<1>7. h[N] = w
  BY <1>1
<1>8. OutLots(Position)' = SumFunction(h)
  BY <1>1 DEF OutLots
<1>9. OutLots(Position) = SumFunction(g)
  BY DEF OutLots
<1>10. w \in Int
  BY <1>4
<1> HIDE DEF R, g, h, w
<1>11. SumFunction(h) = h[N] + SumFunction(g)
  BY <1>3, <1>5, <1>6, SumMore
<1>12. SumFunction(h) = SumFunction(g) + w
  <2>1. SumFunction(g) \in Int
    BY <1>2, <1>9
  <2> QED
    BY <1>7, <1>10, <1>11, <2>1
<1> QED
  BY <1>8, <1>9, <1>12 DEF w

(* The order stays tracked: no deal of the position follows the last one, and what is new is not counted. *)
LEMMA TracksNext ==
    ASSUME IInv, TInv, Booked, NEW N, NEW e, Adding(N, e), NEW n, n.ever \subseteq Ids, Tracks(n),
           held = 0 /\ Position # {} => e.kind = "balance"
    PROVE  Tracks(n)'
<1>1. /\ N \notin Ids /\ Position \subseteq Ids /\ (\A j \in Ids : Earlier(j)' = Earlier(j))
      /\ Position' = (IF e.kind = "balance" THEN Position ELSE Position \union {N})
      /\ \A s \in SUBSET Ids : Total(s)' = Total(s) /\ OutLots(s)' = OutLots(s)
  BY Appended
<1>2. Pos(n)' = Pos(n) /\ Pos(n) \in SUBSET Ids
  BY <1>1 DEF Pos
<1>3. \A j \in Pos(n)' : Earlier(j)' \subseteq n.ever
  BY <1>1, <1>2 DEF Tracks
<1>4. n.net = Total(Pos(n))' /\ n.out = OutLots(Pos(n))'
  <2>1. PICK s \in SUBSET Ids : s = Pos(n)
    BY <1>2
  <2>2. Total(Pos(n))' = Total(s)' /\ OutLots(Pos(n))' = OutLots(s)'
    BY <1>2, <2>1 DEF Total, OutLots
  <2> QED
    BY <1>1, <2>1, <2>2 DEF Tracks
<1>5. Position # {} => Position' # {}
  BY <1>1
<1>6. n.st = "closed" => Position' = Position
  <2> SUFFICES ASSUME n.st = "closed" PROVE e.kind = "balance"
    BY <1>1
  <2>1. OutLots(Position) = Lots /\ Position # {}
    BY DEF Tracks
  <2>2. held = Lots - OutLots(Position) /\ Lots \in Nat
    BY <2>1, Facts DEF Booked
  <2> QED
    BY <2>1, <2>2
<1> QED
  BY <1>2, <1>3, <1>4, <1>5, <1>6 DEF Tracks

LEMMA BookedAccounts ==
    ASSUME IInv, TInv, Booked, NEW N, NEW e, Adding(N, e), start' = start, mem'.since = mem.since,
           NEW n, Money(n), Tracks(n)'
    PROVE  Accounts(n)'
<1>1. /\ Ids' = Ids \union {N} /\ (\A i \in Ids : log'[i] = log[i])
      /\ \A s \in SUBSET Ids : Total(s)' = Total(s)
  BY Appended
<1>2. n.ever \subseteq Ids /\ start.known \subseteq Ids
  BY DEF Accounts, Money, Booked
<1>3. After(n)' = After(n) /\ After(n) \subseteq Ids
  BY <1>1, <1>2 DEF After
<1>4. CleanStart' => CleanStart
  BY <1>1 DEF CleanStart
<1>5. Total(start.known \union After(n))' = Total(start.known \union After(n))
  <2>1. PICK s \in SUBSET Ids : s = start.known \union After(n)
    BY <1>2, <1>3
  <2>2. Total(start.known \union After(n))' = Total(s)'
    BY <1>3, <2>1 DEF Total
  <2> QED
    BY <1>1, <2>1, <2>2
<1>6. n.since # None /\ CleanStart' => n.expected = Total(start.known \union After(n))'
  BY <1>4, <1>5 DEF Accounts, Money
<1>7. \A i \in Forgotten(n) : log'[i].time < Since(n.cursor)
  BY <1>1, <1>2 DEF Forgotten, Accounts, Money
<1> QED
  BY <1>1, <1>2, <1>6, <1>7 DEF Accounts, Money, Forgotten, Since

(* The books are those of mem and the journal. *)
LEMMA AccountsOf ==
    ASSUME NEW n
    PROVE  /\ mem' = n => (Accounts(mem)' <=> Accounts(n)') /\ (Tracks(mem)' <=> Tracks(n)')
           /\ journal' = n => (Accounts(journal)' <=> Accounts(n)') /\ (Tracks(journal)' <=> Tracks(n)')
<1>1. mem' = n => (Tracks(mem)' <=> Tracks(n)')
  BY DEF Tracks, Pos, Total, OutLots
<1>2. journal' = n => (Tracks(journal)' <=> Tracks(n)')
  BY DEF Tracks, Pos, Total, OutLots
<1>3. mem' = n => (Accounts(mem)' <=> Accounts(n)')
  BY <1>1 DEF Accounts, Money, Forgotten, After, Total
<1>4. journal' = n => (Accounts(journal)' <=> Accounts(n)')
  BY <1>2 DEF Accounts, Money, Forgotten, After, Total
<1> QED
  BY <1>1, <1>2, <1>3, <1>4

(* Nobody is in the way of a deal that the broker books. *)
LEMMA BookedPlaces ==
    ASSUME IInv, TInv, AInv, ~lull, NEW N, NEW e, Adding(N, e), UNCHANGED <<now, task>>,
           IF e.kind = "balance" THEN e.time >= now - MaxDelay ELSE e.time = now,
           mem'.ever = mem.ever, mem'.cursor = mem.cursor, mem'.seen \subseteq mem.seen,
           \A d \in Tasks : \A i \in Forgotten(mem') : i \in Forgotten(mem) \/ Hidden(d, i)
    PROVE  Places'
<1> SUFFICES ASSUME NEW d \in Tasks PROVE (InTurn(d) /\ Apart(d) /\ Behind(d) /\ Left(d) /\ Keeps(d))'
  BY DEF Places
<1>0. InTurn(d) /\ Apart(d) /\ Behind(d) /\ Left(d) /\ Keeps(d) /\ mem.ever \subseteq Ids /\ mem.seen \subseteq Ids
  BY DEF AInv, Good, Places, Accounts, Money, TInv, Synced
<1>1. /\ Ids' = Ids \union {N} /\ N \notin Ids /\ log'[N] = e /\ (\A i \in Ids : log'[i] = log[i]) /\ Position \subseteq Ids
      /\ Position' = (IF e.kind = "balance" THEN Position ELSE Position \union {N})
      /\ \A j \in Ids : Earlier(j)' = Earlier(j)
  BY Appended
<1>2. \A i : ToDo(d, i)' <=> ToDo(d, i)
  BY DEF ToDo
<1>3. \A i \in Ids : i \in Position' <=> i \in Position
  BY <1>1
<1>4. InTurn(d)'
  BY <1>0, <1>1, <1>3 DEF InTurn
<1>5. Apart(d)'
  <2>1. \A i \in Forgotten(mem') : i \in Ids
    BY <1>0 DEF Forgotten
  <2> QED
    BY <1>0, <1>1, <1>2, <2>1 DEF Apart, Hidden, Forgotten, Since
<1>6. Behind(d)'
  BY <1>0, <1>1 DEF Behind
<1>7. Left(d)'
  <2> SUFFICES ASSUME task[d].pc \in {"apply", "confirm"}, NEW i \in Ids' \ mem.ever
               PROVE  ToDo(d, i) \/ Late(d, i)'
    BY <1>2 DEF Left
  <2>1. CASE i \in Ids
    <3>1. ToDo(d, i) \/ Late(d, i)
      BY <1>0, <2>1 DEF Left
    <3>2. Late(d, i) => Late(d, i)'
      BY <1>1, <1>3, <2>1 DEF Late, Since
    <3> QED
      BY <3>1, <3>2
  <2>2. CASE i = N
    <3>1. Late(d, i)'
      BY <1>1, <2>2 DEF Late, Since
    <3> QED
      BY <3>1
  <2> QED
    BY <1>1, <2>1, <2>2
<1>8. Keeps(d)'
  BY <1>0, <1>1, <1>2 DEF Keeps, Since
<1> QED
  BY <1>4, <1>5, <1>6, <1>7, <1>8

(* The broker's position is still one that was opened once and closed by its lots. *)
LEMMA StillBooked ==
    ASSUME IInv, TInv, Booked, NEW N, NEW e, Adding(N, e), UNCHANGED <<now, start>>,
           mem'.since = mem.since, journal'.since = mem.since,
           \/ e.kind = "balance" /\ held' = held
           \/ e.kind = "in" /\ e.time = now /\ e.lots = Lots /\ held' = Lots /\ Position = {} /\ mem.since # None
           \/ e.kind = "out" /\ e.time = now /\ held > 0 /\ held' = held - e.lots
    PROVE  Booked'
<1>1. /\ Ids' = Ids \union {N} /\ N \notin Ids /\ N \in Nat /\ Ids \subseteq Nat /\ log'[N] = e
      /\ (\A i \in Ids : i < N /\ log'[i] = log[i]) /\ Position \subseteq Ids
      /\ Position' = (IF e.kind = "balance" THEN Position ELSE Position \union {N})
      /\ (\A j \in Ids : Earlier(j)' = Earlier(j)) /\ Earlier(N)' = Position
      /\ \A s \in SUBSET Ids : OutLots(s)' = OutLots(s)
  BY Appended
<1>2. /\ now \in Nat /\ held \in 0..Lots /\ Lots \in Nat /\ Lots > 0 /\ mem.since \in Int /\ mem.since <= now
      /\ start.known \subseteq Ids
  BY Facts DEF Booked
<1>3. e.lots \in Nat
  BY DealSyncAssumption DEF Adding, Deal
<1>4. OutLots(Position) \in Int /\ OutLots({}) = 0
  BY <1>1, Totals DEF TInv
<1>5. held = IF Position = {} THEN 0 ELSE Lots - OutLots(Position)
  BY DEF Booked
<1>6. e.kind = "out" => mem.since # None /\ Position # {} /\ OutLots(Position) < Lots
  BY <1>2, <1>4, <1>5 DEF Booked
<1>7. journal'.since = mem'.since /\ mem'.since <= now' /\ start'.known \subseteq Ids' /\ (start'.at = None => mem'.since = None)
  BY <1>1, <1>2 DEF Booked
<1>8. Position' # {} => mem'.since # None
  BY <1>1, <1>6 DEF Booked
<1>9. \A i \in Position' : log'[i].time >= mem'.since /\ (log'[i].kind = "in" => log'[i].lots = Lots)
  <2>1. \A i \in Position : log'[i].time >= mem'.since /\ (log'[i].kind = "in" => log'[i].lots = Lots)
    BY <1>1 DEF Booked
  <2>2. e.kind # "balance" => e.time >= mem'.since /\ (e.kind = "in" => e.lots = Lots)
    BY <1>2
  <2> QED
    BY <1>1, <2>1, <2>2
<1>10. ASSUME NEW i \in Position', NEW j \in Position', i < j
       PROVE  log'[i].time <= log'[j].time /\ log'[j].kind = "out"
  <2>1. CASE j \in Ids
    <3>1. i \in Position /\ j \in Position
      <4>1. i # N
        <5>1. j < N /\ j \in Nat /\ N \in Nat
          BY <1>1, <2>1
        <5>2. ~(N < j)
          BY <5>1
        <5> QED
          BY <1>10, <5>2
      <4> QED
        BY <1>1, <2>1, <4>1
    <3> QED
      BY <1>1, <1>10, <3>1 DEF Booked
  <2>2. CASE j = N
    <3>1. i \in Position /\ e.kind = "out" /\ i \in Ids
      BY <1>1, <1>10, <2>2
    <3>2. log[i].time <= now
      BY <3>1, TimeOf
    <3> QED
      BY <1>1, <2>2, <3>1, <3>2
  <2> QED
    BY <1>1, <2>1, <2>2
<1>11. ASSUME NEW j \in Position', log'[j].kind = "out" PROVE Earlier(j)' # {} /\ OutLots(Earlier(j))' < Lots
  <2>1. CASE j \in Ids
    <3>1. j \in Position /\ log[j].kind = "out"
      BY <1>1, <1>11, <2>1
    <3>2. Earlier(j) # {} /\ OutLots(Earlier(j)) < Lots /\ Earlier(j) \in SUBSET Ids
      BY <1>1, <3>1 DEF Booked, Earlier
    <3>3. PICK s \in SUBSET Ids : s = Earlier(j)
      BY <3>2
    <3>4. OutLots(Earlier(j))' = OutLots(s)'
      BY <1>1, <2>1, <3>3 DEF OutLots
    <3> QED
      BY <1>1, <2>1, <3>2, <3>3, <3>4
  <2>2. CASE j = N
    <3>1. e.kind = "out"
      BY <1>1, <1>11, <2>2
    <3>2. PICK s \in SUBSET Ids : s = Position
      BY <1>1
    <3>3. OutLots(Earlier(j))' = OutLots(s)'
      BY <1>1, <2>2, <3>2 DEF OutLots
    <3> QED
      BY <1>1, <1>6, <2>2, <3>1, <3>2, <3>3
  <2> QED
    BY <1>1, <2>1, <2>2
<1>12. held' = IF Position' = {} THEN 0 ELSE Lots - OutLots(Position)'
  <2>1. CASE e.kind = "balance"
    <3>1. Position' = Position /\ held' = held
      BY <1>1, <2>1
    <3>2. PICK s \in SUBSET Ids : s = Position
      BY <1>1
    <3>3. OutLots(Position)' = OutLots(s)'
      BY <3>1, <3>2 DEF OutLots
    <3> QED
      BY <1>1, <1>5, <3>1, <3>2, <3>3
  <2>2. CASE e.kind # "balance"
    <3>1. OutLots(Position)' = OutLots(Position) + (IF e.kind = "out" THEN e.lots ELSE 0) /\ Position' # {}
      BY <1>1, <2>2, AppendedLots
    <3>2. CASE e.kind = "in"
      BY <1>2, <1>4, <3>1, <3>2
    <3>3. CASE e.kind = "out"
      BY <1>2, <1>3, <1>4, <1>5, <1>6, <3>1, <3>3
    <3> QED
      BY <2>2, <3>2, <3>3
  <2> QED
    BY <2>1, <2>2
<1> QED
  BY <1>7, <1>8, <1>9, <1>10, <1>11, <1>12 DEF Booked

(* What a booking leaves of the invariant, when the order is still tracked. *)
LEMMA BookingAgrees ==
    ASSUME IInv, TInv, AInv, NEW N, NEW e, Adding(N, e), UNCHANGED <<now, task, start>>,
           IF e.kind = "balance" THEN e.time >= now - MaxDelay ELSE e.time = now,
           Booked', mem'.ever = mem.ever, mem'.cursor = mem.cursor, mem'.since = mem.since,
           mem'.expected = mem.expected, mem'.seen \subseteq mem.seen,
           journal' = journal \/ journal' = mem',
           ~lull' => /\ ~lull
                     /\ \A d \in Tasks : \A i \in Forgotten(mem') : i \in Forgotten(mem) \/ Hidden(d, i)
                     /\ \A i \in Forgotten(mem') : log[i].time < Since(mem.cursor)
                     /\ Tracks(mem)' /\ Tracks(journal)' /\ Published'
    PROVE  AInv'
<1>1. Alone'
  BY DEF AInv, Alone
<1>2. ASSUME ~lull' PROVE Good'
  <2>1. Booked /\ Money(mem) /\ Money(journal) /\ ~lull
    BY <1>2 DEF AInv, Good, Accounts
  <2>2. Places'
    BY <1>2, <2>1, BookedPlaces
  <2>3. Money(mem')
    <3>1. After(mem') = After(mem)
      BY DEF After
    <3> QED
      BY <1>2, <2>1, <3>1 DEF Money
  <2>4. PICK m, j : mem' = m /\ journal' = j
    OBVIOUS
  <2>5. Tracks(m)' /\ Tracks(j)'
    BY <1>2, <2>4, AccountsOf
  <2>6. Money(m) /\ Money(j)
    BY <2>1, <2>3, <2>4
  <2>7. Accounts(m)' /\ Accounts(j)'
    BY <2>1, <2>5, <2>6, BookedAccounts
  <2>8. Accounts(mem)' /\ Accounts(journal)'
    BY <2>4, <2>7, AccountsOf
  <2> QED
    BY <1>2, <2>2, <2>8 DEF Good
<1> QED
  BY <1>1, <1>2 DEF AInv

(* Before its entry the books have nothing of the position and no trade. *)
LEMMA NothingYet ==
    ASSUME IInv, TInv, Booked, Position = {}, NEW n, Tracks(n), n.st \in {"sending", "open", "closed"}
    PROVE  n.st = "sending" /\ n.lots = Lots /\ Pos(n) = {} /\ n.net = 0 /\ n.out = 0
<1>1. Total({}) = 0 /\ OutLots({}) = 0
  BY Totals DEF TInv
<1> QED
  BY <1>1 DEF Tracks, Pos

LEMMA FillAgrees == ASSUME IInv, TInv, AInv, Fill PROVE AInv'
<1> DEFINE e == Entry("in", Lots, now)
<1>1. /\ log' = Append(log, e) /\ held' = Lots /\ Position = {} /\ mem.since # None
      /\ UNCHANGED <<now, task, start, trades, mem, journal, lull>>
  BY DEF Fill, Unsent, Book, Untouched, Entry
<1>2. Lots \in 0..Lots /\ now \in 0..MaxTime
  BY DealSyncAssumption DEF TInv
<1>3. e \in Deal /\ e.kind = "in" /\ e.time = now /\ e.lots = Lots
  BY <1>2, EntryDeal
<1> HIDE DEF e
<1>4. PICK N : N = Len(log) + 1
  OBVIOUS
<1>5. Adding(N, e)
  BY <1>1, <1>3, <1>4 DEF Adding
<1>6. mem.since = journal.since
  BY DEF AInv, Booked
<1>7. Booked'
  BY <1>1, <1>3, <1>5, <1>6, StillBooked DEF AInv
<1>8. ASSUME ~lull' PROVE Tracks(mem)' /\ Tracks(journal)' /\ Published'
  <2>1. Booked /\ Money(mem) /\ Money(journal) /\ Tracks(mem) /\ Tracks(journal) /\ Published
    BY <1>1, <1>8 DEF AInv, Good, Accounts
  <2>2. Tracks(mem)' /\ Tracks(journal)'
    <3>1. PICK m, j : mem = m /\ journal = j
      OBVIOUS
    <3>2. Tracks(m)' /\ Tracks(j)'
      BY <1>1, <1>5, <2>1, <3>1, TracksNext DEF Money
    <3>3. mem' = m /\ journal' = j
      BY <1>1, <3>1
    <3> QED
      BY <3>2, <3>3, AccountsOf
  <2>3. Published'
    BY <1>1, <2>1 DEF Published
  <2> QED
    BY <2>2, <2>3
<1>9. ~lull' => \A i \in Forgotten(mem') : i \in Forgotten(mem) /\ log[i].time < Since(mem.cursor)
  BY <1>1 DEF Forgotten, AInv, Good, Accounts, Money
<1> QED
  BY <1>1, <1>3, <1>5, <1>7, <1>8, <1>9, BookingAgrees

LEMMA AnsweredAgrees == ASSUME IInv, TInv, AInv, FillAnswered PROVE AInv'
<1> DEFINE e == Entry("in", Lots, now)
           n == [mem EXCEPT !.st = "open", !.entered = TRUE]
<1>1. /\ log' = Append(log, e) /\ held' = Lots /\ Position = {} /\ mem.since # None /\ Save(n) /\ Quiet
      /\ UNCHANGED <<now, task, start, trades>>
  BY DEF FillAnswered, Unsent, Book, Entry
<1>2. Lots \in 0..Lots /\ now \in 0..MaxTime /\ Lots \in Nat /\ Lots > 0 /\ mem \in State /\ mem.seen \subseteq Ids
  BY DealSyncAssumption DEF TInv, Synced
<1>3. e \in Deal /\ e.kind = "in" /\ e.time = now /\ e.lots = Lots
  BY <1>2, EntryDeal
<1>4. /\ n \in State /\ n.st = "open" /\ n.entered /\ n.lots = mem.lots /\ n.net = mem.net /\ n.out = mem.out
      /\ n.ever = mem.ever /\ n.seen = mem.seen /\ n.cursor = mem.cursor /\ n.since = mem.since /\ n.expected = mem.expected
  BY <1>2 DEF State
<1> HIDE DEF e, n
<1>5. PICK N : N = Len(log) + 1
  OBVIOUS
<1>6. Adding(N, e)
  BY <1>1, <1>3, <1>5 DEF Adding
<1>7. Saved(n) /\ journal' = mem'
  BY <1>1, <1>4, SavedBooks
<1>8. /\ mem'.ever = mem.ever /\ mem'.cursor = mem.cursor /\ mem'.since = mem.since /\ mem'.expected = mem.expected
      /\ mem'.seen \subseteq mem.seen /\ mem'.st = "open" /\ mem'.entered /\ mem'.lots = mem.lots
      /\ mem'.net = mem.net /\ mem'.out = mem.out
  BY <1>4, <1>7 DEF Saved
<1>9. Booked'
  BY <1>1, <1>3, <1>6, <1>7, <1>8, StillBooked DEF AInv
<1>10. ASSUME ~lull'
       PROVE  /\ ~lull /\ \A d \in Tasks : \A i \in Forgotten(mem') : i \in Forgotten(mem) \/ Hidden(d, i)
              /\ \A i \in Forgotten(mem') : log[i].time < Since(mem.cursor)
              /\ Tracks(mem)' /\ Tracks(journal)' /\ Published'
  <2>1. ~lull /\ \A i \in Forgotten(mem') : i \in Forgotten(mem) \/ Dropped(n, i)
    <3>1. Forgotten(n) = Forgotten(mem)
      BY <1>4 DEF Forgotten
    <3> QED
      BY <1>1, <1>2, <1>4, <1>10, <3>1, Drops
  <2>2. Booked /\ Money(mem) /\ Tracks(mem) /\ Published
    BY <2>1 DEF AInv, Good, Accounts
  <2>3. ASSUME NEW d \in Tasks, NEW i \in Forgotten(mem'), i \notin Forgotten(mem) PROVE Hidden(d, i)
    <3>1. Dropped(n, i) /\ i \in Ids /\ i \in mem.seen
      BY <1>2, <1>4, <2>1, <2>3 DEF Dropped
    <3>2. task[d].pc # "apply"
      BY <1>1 DEF Quiet
    <3> QED
      BY <2>1, <3>1, <3>2, DropHidden
  <2>4. \A i \in Forgotten(mem') : log[i].time < Since(mem.cursor)
    BY <1>4, <2>1, <2>2 DEF Money, Dropped
  <2>5. Tracks(mem)'
    <3>1. mem.st = "sending" /\ mem.lots = Lots /\ Pos(mem) = {} /\ mem.net = 0 /\ mem.out = 0
      BY <1>1, <1>2, <2>2, NothingYet DEF State
    <3>2. /\ N \notin Ids /\ Position' = Position \union {N}
          /\ \A s \in SUBSET Ids : Total(s)' = Total(s) /\ OutLots(s)' = OutLots(s)
      BY <1>3, <1>6, Appended
    <3>3. Pos(mem)' = {}
      BY <1>1, <1>8, <2>2, <3>2 DEF Pos, Money
    <3>4. Total({}) = 0 /\ OutLots({}) = 0
      BY Totals DEF TInv
    <3>5. Total(Pos(mem))' = 0 /\ OutLots(Pos(mem))' = 0
      <4>1. PICK s \in SUBSET Ids : s = {}
        OBVIOUS
      <4>2. Total(Pos(mem))' = Total(s)' /\ OutLots(Pos(mem))' = OutLots(s)'
        BY <3>3, <4>1 DEF Total, OutLots
      <4> QED
        BY <3>2, <3>4, <4>1, <4>2
    <3> QED
      BY <1>2, <1>8, <3>1, <3>2, <3>3, <3>5 DEF Tracks
  <2>6. Tracks(journal)'
    BY <1>7, <2>5 DEF Tracks, Pos, Total, OutLots
  <2>7. Published'
    BY <1>1, <2>2 DEF Published
  <2> QED
    BY <2>1, <2>3, <2>4, <2>5, <2>6, <2>7
<1> QED
  BY <1>1, <1>3, <1>6, <1>7, <1>8, <1>9, <1>10, BookingAgrees

LEMMA ReduceAgrees == ASSUME IInv, TInv, AInv, Reduce PROVE AInv'
<1>1. PICK lots \in 0..held :
         /\ log' = Append(log, Entry("out", lots, now)) /\ held' = held - lots /\ held > 0
         /\ UNCHANGED <<now, task, start, trades, mem, journal, lull>>
  BY DEF Reduce, Book, Untouched, Entry
<1> DEFINE e == Entry("out", lots, now)
<1>2. lots \in 0..Lots /\ now \in 0..MaxTime
  BY DealSyncAssumption DEF TInv
<1>3. e \in Deal /\ e.kind = "out" /\ e.time = now /\ e.lots = lots /\ log' = Append(log, e)
  BY <1>1, <1>2, EntryDeal
<1> HIDE DEF e
<1>4. PICK N : N = Len(log) + 1
  OBVIOUS
<1>5. Adding(N, e)
  BY <1>3, <1>4 DEF Adding
<1>6. mem.since = journal.since /\ held # 0
  BY <1>1 DEF AInv, Booked
<1>7. Booked'
  BY <1>1, <1>3, <1>5, <1>6, StillBooked DEF AInv
<1>8. ASSUME ~lull' PROVE Tracks(mem)' /\ Tracks(journal)' /\ Published'
  <2>1. Booked /\ Money(mem) /\ Money(journal) /\ Tracks(mem) /\ Tracks(journal) /\ Published
    BY <1>1, <1>8 DEF AInv, Good, Accounts
  <2>2. PICK m, j : mem = m /\ journal = j
    OBVIOUS
  <2>3. Tracks(m)' /\ Tracks(j)'
    BY <1>5, <1>6, <2>1, <2>2, TracksNext DEF Money
  <2>4. Tracks(mem)' /\ Tracks(journal)'
    BY <1>1, <2>2, <2>3, AccountsOf
  <2>5. Published'
    BY <1>1, <1>6, <2>1 DEF Published
  <2> QED
    BY <2>4, <2>5
<1>9. ~lull' => \A i \in Forgotten(mem') : i \in Forgotten(mem) /\ log[i].time < Since(mem.cursor)
  BY <1>1 DEF Forgotten, AInv, Good, Accounts, Money
<1> QED
  BY <1>1, <1>3, <1>5, <1>7, <1>8, <1>9, BookingAgrees

LEMMA PayAgrees == ASSUME IInv, TInv, AInv, Pay PROVE AInv'
<1>1. PICK time \in (now - MaxDelay)..now :
         /\ time >= 0 /\ log' = Append(log, Entry("balance", 0, time))
         /\ UNCHANGED <<now, held, task, start, trades, mem, journal, lull>>
  BY DEF Pay, Book, Untouched, Entry
<1> DEFINE e == Entry("balance", 0, time)
<1>2. 0 \in 0..Lots /\ time \in 0..MaxTime /\ time >= now - MaxDelay
  BY <1>1, DealSyncAssumption DEF TInv
<1>3. e \in Deal /\ e.kind = "balance" /\ e.time = time /\ log' = Append(log, e)
  BY <1>1, <1>2, EntryDeal
<1> HIDE DEF e
<1>4. PICK N : N = Len(log) + 1
  OBVIOUS
<1>5. Adding(N, e)
  BY <1>3, <1>4 DEF Adding
<1>6. mem.since = journal.since
  BY DEF AInv, Booked
<1>7. Booked'
  BY <1>1, <1>3, <1>5, <1>6, StillBooked DEF AInv
<1>8. ASSUME ~lull' PROVE Tracks(mem)' /\ Tracks(journal)' /\ Published'
  <2>1. Booked /\ Money(mem) /\ Money(journal) /\ Tracks(mem) /\ Tracks(journal) /\ Published
    BY <1>1, <1>8 DEF AInv, Good, Accounts
  <2>2. PICK m, j : mem = m /\ journal = j
    OBVIOUS
  <2>3. Tracks(m)' /\ Tracks(j)'
    BY <1>3, <1>5, <2>1, <2>2, TracksNext DEF Money
  <2>4. Tracks(mem)' /\ Tracks(journal)'
    BY <1>1, <2>2, <2>3, AccountsOf
  <2>5. Position' = Position /\ Position \subseteq Ids /\ \A s \in SUBSET Ids : Total(s)' = Total(s)
    BY <1>3, <1>5, Appended
  <2>6. Total(Position)' = Total(Position)
    <3>1. PICK s \in SUBSET Ids : s = Position
      BY <2>5
    <3>2. Total(Position)' = Total(s)'
      BY <2>5, <3>1 DEF Total
    <3> QED
      BY <2>5, <3>1, <3>2
  <2>7. Published'
    BY <1>1, <2>1, <2>5, <2>6 DEF Published
  <2> QED
    BY <2>4, <2>7
<1>9. ~lull' => \A i \in Forgotten(mem') : i \in Forgotten(mem) /\ log[i].time < Since(mem.cursor)
  BY <1>1 DEF Forgotten, AInv, Good, Accounts, Money
<1>10. ~lull' => ~lull /\ \A d \in Tasks : \A i \in Forgotten(mem') : i \in Forgotten(mem) \/ Hidden(d, i)
  BY <1>1, <1>9
<1> QED
  BY <1>1, <1>2, <1>3, <1>5, <1>7, <1>8, <1>9, <1>10, BookingAgrees

-----------------------------------------------------------------------------
(* The other steps. *)
LEMMA AllIdle == ASSUME \A c \in Tasks : task'[c].pc = "idle" PROVE Alone' /\ Places'
<1>1. Alone'
  BY DEF Alone
<1>2. \A c \in Tasks : Placed(c)'
  BY IdlePlaced
<1> QED
  BY <1>1, <1>2 DEF Places, Placed

LEMMA OtherAgrees == ASSUME IInv, TInv, AInv, OtherSave PROVE AInv'
<1>1. Save(mem) /\ Quiet /\ UNCHANGED <<now, log, held, task, start, trades>> /\ mem \in State /\ mem.seen \subseteq Ids
  BY DEF OtherSave, TInv, Synced
<1>2. Saved(mem) /\ journal' = mem'
  BY <1>1, SavedBooks
<1>3. mem'.ever = mem.ever /\ mem'.since = mem.since /\ mem'.cursor = mem.cursor /\ mem'.seen \subseteq mem.seen
  BY <1>2 DEF Saved
<1>4. Booked' /\ Alone'
  BY <1>1, <1>2, <1>3, SameBooked DEF AInv, Alone
<1>5. ASSUME ~lull' PROVE Good'
  <2>1. ~lull /\ \A j \in Forgotten(mem') : j \in Forgotten(mem) \/ Dropped(mem, j)
    BY <1>1, <1>5, Drops
  <2>2. Accounts(mem) /\ Published
    BY <2>1 DEF AInv, Good
  <2>3. Accounts(mem')
    BY <1>1, <1>2, <2>1, <2>2, SavedAccounts
  <2>4. Accounts(mem)' /\ Accounts(journal)' /\ Published'
    BY <1>1, <1>2, <1>3, <2>2, <2>3, AccountsNext, SamePublished
  <2>5. ASSUME NEW d \in Tasks, NEW j \in Forgotten(mem'), j \notin Forgotten(mem) PROVE Hidden(d, j)
    <3>1. Dropped(mem, j) /\ j \in Ids /\ j \in mem.seen
      BY <1>1, <2>1, <2>5 DEF Dropped
    <3>2. task[d].pc # "apply"
      BY <1>1 DEF Quiet
    <3> QED
      BY <2>1, <3>1, <3>2, DropHidden
  <2>6. ASSUME NEW d \in Tasks PROVE Placed(d)'
    <3>1. \A j \in Forgotten(mem') : j \in Forgotten(mem) \/ Hidden(d, j)
      BY <2>5
    <3> QED
      BY <1>1, <1>3, <2>1, <3>1, OthersStay
  <2> QED
    BY <2>4, <2>6 DEF Good, Places, Placed
<1> QED
  BY <1>4, <1>5 DEF AInv

(* The clock and the broker's deals are read, with nothing of the books. *)
LEMMA ReadAgrees == ASSUME IInv, TInv, AInv, ReadBalance PROVE AInv'
<1>1. start.at = None /\ start' = [at |-> now, known |-> Ids] /\ UNCHANGED <<now, log, held, mem, journal, task, trades, lull>>
  BY DEF ReadBalance
<1>2. mem.since = None /\ journal.since = None
  BY <1>1 DEF AInv, Booked
<1>3. /\ Ids' = Ids /\ Position' = Position /\ (\A j : Earlier(j)' = Earlier(j))
      /\ (\A s : OutLots(s)' = OutLots(s)) /\ (Tracks(mem)' <=> Tracks(mem')) /\ (Tracks(journal)' <=> Tracks(journal'))
  BY <1>1, SameDeals
<1>4. Booked'
  BY <1>1, <1>2, <1>3 DEF AInv, Booked
<1>5. Alone'
  BY <1>1 DEF AInv, Alone
<1>6. \A c \in Tasks : task'[c].pc = "idle"
  BY <1>1, <1>2, TaskOf DEF Running, IInv, Shapes
<1>7. ASSUME ~lull PROVE Good'
  <2>1. Money(mem) /\ Money(journal) /\ Tracks(mem) /\ Tracks(journal) /\ Published
    BY <1>7 DEF AInv, Good, Accounts
  <2>2. Money(mem)' /\ Money(journal)'
    BY <1>1, <1>2, <1>3, <2>1 DEF Money, Forgotten, Since
  <2> QED
    BY <1>1, <1>3, <1>6, <2>1, <2>2, AllIdle, SamePublished DEF Good, Accounts
<1> QED
  BY <1>1, <1>4, <1>5, <1>7 DEF AInv

(* The books begin with the balance that was read. *)
LEMMA InitializeAgrees == ASSUME IInv, TInv, AInv, Initialize PROVE AInv'
<1> DEFINE n == [mem EXCEPT !.since = now, !.cursor = now, !.expected = Total(start.known)]
<1>1. Save(n) /\ start.at # None /\ mem.since = None /\ UNCHANGED <<now, log, held, task, start, trades>>
  BY DEF Initialize
<1>2. mem \in State /\ mem.seen \subseteq Ids /\ mem.seen \subseteq mem.ever /\ now \in Nat /\ now \in None..MaxTime /\ log \in Seq(Deal)
      /\ start.known \subseteq Ids
  <2>1. mem \in State /\ mem.seen \subseteq mem.ever /\ now \in Nat /\ log \in Seq(Deal)
    BY Facts DEF AInv
  <2>2. now \in 0..MaxTime /\ mem.seen \subseteq Ids /\ start.known \subseteq Ids
    BY DEF TInv, Synced
  <2>3. now \in None..MaxTime
    BY <2>2, DealSyncAssumption DEF None
  <2> QED
    BY <2>1, <2>2, <2>3
<1>3. /\ n \in State /\ Same(n, mem) /\ n.seen = mem.seen /\ n.since = now /\ n.cursor = now /\ n.expected = Total(start.known)
  <2>1. Total(start.known) \in Int
    BY <1>2, Totals
  <2>2. n \in State
    BY <1>2, <2>1 DEF State
  <2> QED
    BY <1>2, <2>2 DEF State, Same
<1> HIDE DEF n
<1>4. Saved(n) /\ journal' = mem'
  BY <1>1, <1>3, SavedBooks
<1>5. mem'.since = now /\ journal'.since = now /\ now # None
  BY <1>2, <1>3, <1>4 DEF Saved, None
<1>6. /\ Ids' = Ids /\ Position' = Position /\ (\A j : Earlier(j)' = Earlier(j)) /\ (\A s : OutLots(s)' = OutLots(s))
      /\ (\A s : Total(s)' = Total(s)) /\ (Tracks(mem)' <=> Tracks(mem'))
  BY <1>1, SameDeals
<1>7. Position = {}
  BY <1>1 DEF AInv, Booked
<1>8. Booked'
  BY <1>1, <1>2, <1>5, <1>6, <1>7 DEF AInv, Booked
<1>9. \A c \in Tasks : task'[c].pc = "idle"
  BY <1>1, TaskOf DEF Running, IInv, Shapes
<1>10. Alone' /\ Places'
  BY <1>9, AllIdle
<1>11. ASSUME ~lull' PROVE Good'
  <2>1. ~lull
    BY <1>1, <1>11 DEF Save
  <2>2. Money(mem) /\ Tracks(mem) /\ Published
    BY <2>1 DEF AInv, Good, Accounts
  <2>3. mem.ever = {} /\ mem'.ever = {} /\ mem'.expected = Total(start.known)
    BY <1>1, <1>3, <1>4, <2>2 DEF Money, Saved, Same
  <2>4. Tracks(mem')
    <3>1. Same(mem', mem)
      BY <1>3, <1>4 DEF Same, Saved
    <3> QED
      BY <2>2, <3>1, SameTracks
  <2>5. Money(mem)'
    <3>1. After(mem)' = {} /\ Forgotten(mem)' = {}
      BY <2>3 DEF After, Forgotten
    <3>2. start.known \union {} = start.known
      OBVIOUS
    <3>3. Total(start.known \union After(mem))' = Total(start.known)'
      BY <1>1, <3>1, <3>2 DEF Total
    <3>4. Total(start.known)' = Total(start.known)
      BY <1>1 DEF Total
    <3> QED
      BY <2>3, <3>1, <3>3, <3>4 DEF Money
  <2>6. Accounts(mem)'
    BY <1>6, <2>4, <2>5 DEF Accounts
  <2>7. Accounts(journal)'
    <3>1. PICK m : m = mem'
      OBVIOUS
    <3> QED
      BY <1>4, <2>6, <3>1, AccountsOf
  <2>8. Published'
    BY <1>1, <2>2, SamePublished
  <2> QED
    BY <1>10, <2>6, <2>7, <2>8 DEF Good
<1> QED
  BY <1>8, <1>10, <1>11 DEF AInv

LEMMA TickAgrees == ASSUME IInv, TInv, AInv, Tick PROVE AInv'
<1>1. /\ \A c \in Tasks : task[c].pc = "idle"
      /\ now' = now + 1 /\ UNCHANGED <<log, held, mem, journal, task, start, trades, lull>>
  BY DEF Tick
<1>2. /\ Ids' = Ids /\ Position' = Position /\ (\A j : Earlier(j)' = Earlier(j)) /\ (\A s : OutLots(s)' = OutLots(s))
  BY <1>1, SameDeals
<1>3. mem'.since <= now'
  BY <1>1, Facts DEF AInv
<1>4. Booked'
  BY <1>1, <1>2, <1>3 DEF AInv, Booked
<1>5. Alone' /\ Places'
  BY <1>1, AllIdle
<1>6. ASSUME ~lull PROVE Good'
  <2>1. Accounts(mem) /\ Accounts(journal) /\ Published
    BY <1>6 DEF AInv, Good
  <2> QED
    BY <1>1, <1>5, <2>1, AccountsNext, SamePublished DEF Good
<1> QED
  BY <1>1, <1>4, <1>5, <1>6 DEF AInv

(* After a crash the books are those of the journal. *)
LEMMA CrashAgrees == ASSUME IInv, TInv, AInv, Crash PROVE AInv'
<1>1. /\ mem' = journal /\ UNCHANGED <<now, log, held, journal, trades, lull>>
      /\ \A c \in Tasks : task'[c].pc = "idle"
      /\ start' = IF journal.since = None THEN [at |-> None, known |-> {}] ELSE start
  BY DEF Crash, Idle, IInv, Shapes, TInv, TaskType
<1>2. mem.since = journal.since
  BY DEF AInv, Booked
<1>3. /\ Ids' = Ids /\ Position' = Position /\ (\A j : Earlier(j)' = Earlier(j)) /\ (\A s : OutLots(s)' = OutLots(s))
      /\ (Tracks(mem)' <=> Tracks(mem')) /\ (Tracks(journal)' <=> Tracks(journal'))
  BY <1>1, SameDeals
<1>4. Booked'
  BY <1>1, <1>2, <1>3 DEF AInv, Booked
<1>5. Alone' /\ Places'
  BY <1>1, AllIdle
<1>6. ASSUME ~lull PROVE Good'
  <2>1. Accounts(journal) /\ Published
    BY <1>6 DEF AInv, Good
  <2>2. CASE journal.since = None
    <3>1. Money(mem)' /\ Money(journal)'
      BY <1>1, <1>3, <2>1, <2>2 DEF Accounts, Money, Forgotten, Since
    <3> QED
      BY <1>1, <1>3, <1>5, <2>1, <3>1, SamePublished DEF Good, Accounts
  <2>3. CASE journal.since # None
    BY <1>1, <1>2, <1>5, <2>1, <2>3, AccountsNext, SamePublished DEF Good
  <2> QED
    BY <2>2, <2>3
<1> QED
  BY <1>1, <1>4, <1>5, <1>6 DEF AInv

LEMMA InitAgrees == Init => AInv
<1> SUFFICES ASSUME Init PROVE AInv
  OBVIOUS
<1>1. /\ now = 0 /\ log = <<>> /\ held = 0 /\ start.at = None /\ start.known = {} /\ trades = {} /\ Len(log) = 0
      /\ mem.st = "sending" /\ mem.lots = Lots /\ mem.net = 0 /\ mem.out = 0 /\ mem.seen = {} /\ mem.ever = {}
      /\ mem.since = None /\ mem.since <= now /\ journal = mem
  BY DEF Init, None
<1>2. \A c \in Tasks : task[c].pc = "idle"
  BY DEF Init
<1>3. Ids = {} /\ Position = {}
  BY <1>1 DEF Ids, Position
<1>4. Total({}) = 0 /\ OutLots({}) = 0
  <2>1. log \in Seq(Deal)
    BY <1>1
  <2> QED
    BY <2>1, Totals
<1>5. Booked
  BY <1>1, <1>3 DEF Booked
<1>6. Accounts(mem) /\ Accounts(journal)
  <2>1. Pos(mem) = {} /\ Forgotten(mem) = {}
    BY <1>1 DEF Pos, Forgotten
  <2>2. Tracks(mem)
    BY <1>1, <1>4, <2>1 DEF Tracks
  <2>3. Money(mem)
    BY <1>1, <2>1 DEF Money
  <2> QED
    BY <1>1, <2>2, <2>3 DEF Accounts
<1>7. Alone /\ Places /\ Published
  BY <1>1, <1>2 DEF Alone, Places, InTurn, Apart, Behind, Left, Keeps, Published
<1> QED
  BY <1>5, <1>6, <1>7 DEF AInv, Good

LEMMA Agrees == ASSUME IInv, TInv, AInv, [Next]_vars PROVE AInv'
<1>1. CASE \E c \in Tasks : Sync(c)
  BY <1>1, AskAgrees, GotAgrees, LostAgrees, SkipAgrees, CountOnlyAgrees, InAgrees, ConfirmAgrees, OutAgrees, DoneAgrees
     DEF Sync
<1>2. CASE OtherSave \/ ReadBalance \/ Initialize
  BY <1>2, OtherAgrees, ReadAgrees, InitializeAgrees
<1>3. CASE Fill \/ FillAnswered \/ Reduce \/ Pay
  BY <1>3, FillAgrees, AnsweredAgrees, ReduceAgrees, PayAgrees
<1>4. CASE Tick \/ Crash
  BY <1>4, TickAgrees, CrashAgrees
<1>5. CASE UNCHANGED vars
  <2>1. UNCHANGED <<now, log, held, mem, journal, task, start, trades, lull>>
    BY <1>5 DEF vars
  <2>2. Booked' /\ Alone'
    BY <2>1, SameBooked DEF AInv, Booked, Alone
  <2>3. ASSUME ~lull PROVE Good'
    <3>1. Accounts(mem) /\ Accounts(journal) /\ Published
      BY <2>3 DEF AInv, Good
    <3>2. ASSUME NEW d \in Tasks PROVE Placed(d)'
      <4>1. Forgotten(mem') = Forgotten(mem)
        BY <2>1 DEF Forgotten
      <4> QED
        BY <2>1, <2>3, <4>1, OthersStay
    <3> QED
      BY <2>1, <3>1, <3>2, AccountsNext, SamePublished DEF Good, Places, Placed
  <2> QED
    BY <2>1, <2>2, <2>3 DEF AInv
<1> QED
  BY <1>1, <1>2, <1>3, <1>4, <1>5 DEF Next

-----------------------------------------------------------------------------
(* When nothing is left to apply every deal of the position is counted, and every deal since initialize. *)
LEMMA InvBooks == IInv /\ TInv /\ AInv => BooksMatch
<1> SUFFICES ASSUME IInv, TInv, AInv, Current, CleanStart, ~lull
             PROVE  mem.expected = Balance /\ (Position # {} => mem.lots = held /\ (mem.st = "open" <=> held > 0))
  BY DEF BooksMatch
<1>1. Booked /\ Money(mem) /\ Tracks(mem)
  BY DEF AInv, Good, Accounts
<1>2. /\ log \in Seq(Deal) /\ Lots \in Nat /\ Lots > 0 /\ mem.since \in Int /\ Position \subseteq Ids /\ mem \in State
      /\ held \in 0..Lots
  BY <1>1, Facts
<1>3. mem.since # None /\ \A i \in Ids : i \in mem.ever \/ log[i].time < mem.since
  BY DEF Current
<1>4. start.known \union After(mem) = Ids
  <2>1. ASSUME NEW i \in Ids PROVE i \in start.known \/ i \in After(mem)
    <3>1. log[i].time \in Int
      BY TimeOf
    <3> QED
      BY <1>2, <1>3, <3>1 DEF CleanStart, After
  <2>2. start.known \subseteq Ids /\ mem.ever \subseteq Ids
    BY <1>1 DEF Booked, Money
  <2> QED
    BY <2>1, <2>2 DEF After
<1>5. mem.expected = Balance
  BY <1>1, <1>3, <1>4 DEF Money, Balance
<1>6. ASSUME Position # {} PROVE mem.lots = held /\ (mem.st = "open" <=> held > 0)
  <2>1. Pos(mem) = Position
    <3>1. ASSUME NEW i \in Position PROVE i \in mem.ever
      <4>1. log[i].time \in Int /\ log[i].time >= mem.since /\ i \in Ids
        BY <1>1, <1>2, TimeOf DEF Booked
      <4> QED
        BY <1>2, <1>3, <4>1
    <3> QED
      BY <3>1 DEF Pos
  <2>2. held = Lots - mem.out /\ mem.out \in Int
    BY <1>1, <1>2, <1>6, <2>1 DEF Booked, Tracks, State
  <2>3. mem.st # "sending"
    BY <1>1, <1>6, <2>1 DEF Tracks
  <2>4. CASE mem.st = "open"
    BY <1>1, <2>2, <2>4 DEF Tracks
  <2>5. CASE mem.st = "closed"
    <3>1. mem.lots = 0 /\ mem.out = Lots
      BY <1>1, <2>5 DEF Tracks
    <3>2. held = 0
      BY <1>2, <2>2, <3>1
    <3> QED
      BY <2>5, <3>1, <3>2
  <2>6. mem.st \in {"sending", "open", "closed"}
    BY <1>2 DEF State
  <2> QED
    BY <2>3, <2>4, <2>5, <2>6
<1> QED
  BY <1>5, <1>6

LEMMA Invariants == Spec => [](IInv /\ TInv /\ AInv)
<1>1. Init => IInv /\ TInv /\ AInv
  BY InitInv, InitTypes, InitAgrees
<1>2. IInv /\ TInv /\ AInv /\ [Next]_vars => (IInv /\ TInv /\ AInv)'
  BY Inductive, TypesInductive, Agrees
<1> QED
  BY <1>1, <1>2, PTL DEF Spec

(* OrderManager.initialize and sync_deals: as long as no save drops a deal that a query still returns, and
   initialize's reading of the balance was clean, the balance that reconciliation compares with the broker's
   is the broker's whenever no deal is left to apply, and the tracked order has the position's lots and is
   open while it is: for any number of callers, and across crashes. *)
THEOREM BooksAgree == Spec => []BooksMatch
  BY Invariants, InvBooks, PTL

(* OrderManager.sync_deals and _closed_trade: every trade that is handed on has all the lots of its position and
   the money of every one of its deals, commissions and financing with it. *)
THEOREM TradesAreWhole == Spec => []TradeWhole
<1>1. IInv /\ TInv /\ AInv => TradeWhole
  BY DEF AInv, Good, Published, TradeWhole
<1> QED
  BY <1>1, Invariants, PTL
=============================================================================
