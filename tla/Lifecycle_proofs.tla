--------------------------- MODULE Lifecycle_proofs ---------------------------
(***************************************************************************)
(* The lifecycle, for any versions, limits and ledgers: the types, a       *)
(* version demoted out of the money has its positions closed, and the      *)
(* other services know the stages of the registry.                         *)
(*                                                                         *)
(* The argument for the close orders: in a handler's job nothing but       *)
(* records and orders stands before an order, so that a rollback that      *)
(* raises loses none; the record of a demotion is the next step of its     *)
(* job, of a version that still holds money, and has its close order       *)
(* behind it; and orders go out when no stage change is queued.  A swap    *)
(* and a rollback take a version out of the money too, without an order:   *)
(* those are the ones kept.  The argument for the stages: of every version *)
(* the last change queued says its stage, and without a queued change the  *)
(* others know it; only before the first snapshot of a start neither       *)
(* holds, and then that snapshot is due.                                   *)
(***************************************************************************)
EXTENDS Lifecycle, FiniteSetTheorems, SequenceTheorems, WellFoundedInduction, TLAPS

Steps ==
    [do : {"evaluate", "reviews", "review", "record", "order", "rollback", "flush", "snapshot"},
     v : Versions \union {NoVersion}, to : Stages \union {"none", "cancel", "close"}, why : Reasons \union {"none"}]
OrderRecords == [v : Versions \union {NoVersion}, close : BOOLEAN]

Types ==
    /\ ledger \in Seq(Records)
    /\ now \in 0..MaxTime /\ up \in BOOLEAN /\ crashes \in 0..MaxCrashes
    /\ job \in Seq(Steps) /\ changes \in Seq(Records) /\ orders \in Seq(OrderRecords)
    /\ due \subseteq Versions /\ closed \subseteq due /\ kept \subseteq due

(* A version is swapped in for one that the registry knows. *)
Dated ==
    \A i \in DOMAIN ledger :
        /\ ledger[i].at <= now
        /\ ledger[i].why = "swapped in" => Parent[ledger[i].v] \in Known

(* What a job's steps are about. *)
Named(j, K) ==
    \A a \in DOMAIN j :
        /\ j[a].do \in {"evaluate", "review", "record", "order", "rollback"} => j[a].v \in K
        /\ j[a].do = "record" => j[a].to \in Stages /\ j[a].why \in Reasons
        /\ j[a].do = "record" /\ j[a].why = "swapped in" => Parent[j[a].v] \in K

(* The record of a demotion out of the money. *)
Demotes(s) == s.do = "record" /\ s.why = "demoted" /\ s.to \notin MONEY_STAGES

(* Nothing but records and orders stands before an order. *)
OrdersAhead(j) ==
    \A a, b \in DOMAIN j : a < b /\ j[b].do = "order" => j[a].do \in {"record", "order"}

(* Such a record has its close order behind it. *)
CloseFollows(j) ==
    \A a \in DOMAIN j : Demotes(j[a]) => \E b \in DOMAIN j : a < b /\ j[b] = Order(j[a].v, "close")

(* A close order has its record before it, unless the record was made. *)
CloseIsDue(j, D) ==
    \A b \in DOMAIN j :
        j[b].do = "order" /\ j[b].to = "close" =>
            j[b].v \in D \/ \E a \in DOMAIN j : a < b /\ Demotes(j[a]) /\ j[a].v = j[b].v

(* A job j of the versions K, while those of D are out of the money. *)
GoodJob(j, K, D) == Named(j, K) /\ OrdersAhead(j) /\ CloseFollows(j) /\ CloseIsDue(j, D)

OrdersDue == \A i \in DOMAIN orders : orders[i].close => orders[i].v \in due

(* Only the next step of a job may be such a record, and its version still holds money then. *)
Moneyed == {v \in Known : Stage(v) \in MONEY_STAGES}
HeadOnly(j, M) == \A a \in DOMAIN j : Demotes(j[a]) => a = 1 /\ j[a].v \in M
DemotesFirst == HeadOnly(job, Moneyed)

(* A version demoted out of the money is closed, or its close order is on the way. *)
InJob(v, j) == \E a \in DOMAIN j : j[a] = Order(v, "close")
Queued(v) == \E i \in DOMAIN orders : orders[i] = [v |-> v, close |-> TRUE]
CloseUnderway == \A v \in due \ (closed \union kept) : InJob(v, job) \/ Queued(v)

(* A close order is not published before the stage change. *)
ClosedAfterChange ==
    \A v \in closed : \A i \in DOMAIN changes : ~(changes[i].v = v /\ TakesOut(changes[i]))

(* A process that is down has nothing queued. *)
DownIsIdle == ~up => job = <<>> /\ changes = <<>>

(* What is told of the versions, and what is queued about them. *)
ToldTypes ==
    /\ told = [v \in DOMAIN told |-> told[v]]
    /\ \A v \in DOMAIN told : v \in Known /\ told[v] \in Stages
ChangesKnown == \A i \in DOMAIN changes : changes[i].v \in Known
Told(v) == v \in DOMAIN told /\ told[v] = Stage(v)
Unqueued(v) == \A i \in DOMAIN changes : changes[i].v # v
LastQueued(v, i) == changes[i].v = v /\ \A j \in DOMAIN changes : j > i => changes[j].v # v
Agrees ==
    \A v \in Known :
        /\ Unqueued(v) => Told(v)
        /\ \A i \in DOMAIN changes : LastQueued(v, i) => changes[i].to = Stage(v)
Current == up => Agrees \/ (job = <<Snapshot>> /\ changes = <<>>)

IInv ==
    /\ Types /\ Dated /\ GoodJob(job, Known, due) /\ OrdersDue
    /\ CloseUnderway /\ ClosedAfterChange /\ DemotesFirst
    /\ DownIsIdle /\ ToldTypes /\ ChangesKnown /\ Current

-----------------------------------------------------------------------------
(* The ledger. *)

(* A set of natural numbers that are not greater than n has a greatest element. *)
LEMMA Greatest ==
    ASSUME NEW n \in Nat, NEW T \in SUBSET (0..n), T # {}
    PROVE  \E i \in T : \A k \in T : k <= i
<1> DEFINE U == {n - i : i \in T}
<1>0. \A i \in T : i \in Nat /\ i <= n
  OBVIOUS
<1>1. U \in SUBSET Nat /\ U # {}
  <2>1. \A i \in T : n - i \in Nat
    BY <1>0
  <2> QED
    BY <2>1
<1>2. PICK u \in U : \A m \in U : ~ (<<m, u>> \in OpToRel(<, Nat))
  BY Zenon, <1>1, NatLessThanWellFounded, WFMin
<1>3. ASSUME NEW m \in U PROVE u <= m
  <2>1. ~(<<m, u>> \in OpToRel(<, Nat))
    BY <1>2
  <2>2. m \in Nat /\ u \in Nat
    BY <1>1
  <2> QED
    BY <2>1, <2>2 DEF OpToRel
<1>4. PICK i \in T : u = n - i
  OBVIOUS
<1>5. \A k \in T : n - i <= n - k
  BY <1>3, <1>4
<1>6. \A k \in T : k <= i
  BY <1>0, <1>5
<1> QED
  BY <1>6

LEMMA LeastOf ==
    ASSUME NEW n \in Nat, NEW T \in SUBSET (0..n), T # {}
    PROVE  \E i \in T : \A k \in T : i <= k
<1> DEFINE U == {n - i : i \in T}
<1>0. \A i \in T : i \in Nat /\ i <= n
  OBVIOUS
<1>1. \A i \in T : n - i \in 0..n
  BY <1>0
<1>2. U \in SUBSET (0..n) /\ U # {}
  BY <1>1
<1>3. PICK u \in U : \A m \in U : m <= u
  BY <1>2, Greatest
<1>4. PICK i \in T : u = n - i
  OBVIOUS
<1>5. \A k \in T : n - k <= n - i
  BY <1>3, <1>4
<1>6. \A k \in T : i <= k
  BY <1>0, <1>5
<1> QED
  BY <1>6

(* The latest record of a known version is one of its records. *)
LEMMA LatestIsRecord ==
    ASSUME ledger \in Seq(Records), NEW v \in Known
    PROVE  v \in Versions /\ Latest(v) \in Records /\ Stage(v) \in Stages /\ Since(v) \in Nat
<1>1. RecordsOf(v) \subseteq 1..Len(ledger) /\ RecordsOf(v) # {} /\ Len(ledger) \in Nat
  BY DEF RecordsOf, Known
<1>2. RecordsOf(v) \in SUBSET (0..Len(ledger))
  BY <1>1
<1>3. \E i \in RecordsOf(v) : \A j \in RecordsOf(v) : j <= i
  BY <1>1, <1>2, Greatest
<1> DEFINE last == CHOOSE i \in RecordsOf(v) : \A j \in RecordsOf(v) : j <= i
<1>4. last \in RecordsOf(v)
  BY <1>3
<1>5. last \in 1..Len(ledger) /\ Latest(v) = ledger[last] /\ ledger[last].v = v
  BY <1>1, <1>4 DEF Latest, RecordsOf
<1> HIDE DEF last
<1>6. ledger[last] \in Records
  BY <1>5
<1> QED
  BY <1>5, <1>6 DEF Stage, Since, Records

LEMMA KnownVersions ==
    ASSUME ledger \in Seq(Records)
    PROVE  Known \subseteq Versions
  BY LatestIsRecord

(* An appended record is its version's latest; those of the other versions stay. *)
LEMMA StageAppended ==
    ASSUME ledger \in Seq(Records), NEW r \in Records, ledger' = Append(ledger, r)
    PROVE  /\ ledger' \in Seq(Records)
           /\ DOMAIN ledger' = 1..(Len(ledger) + 1) /\ ledger'[Len(ledger) + 1] = r
           /\ \A i \in 1..Len(ledger) : ledger'[i] = ledger[i]
           /\ Known' = Known \union {r.v}
           /\ Stage(r.v)' = r.to
           /\ \A v \in Known : v # r.v => Stage(v)' = Stage(v)
<1> DEFINE n == Len(ledger)
<1>1. n \in Nat /\ DOMAIN ledger = 1..n
  OBVIOUS
<1>2. /\ ledger' \in Seq(Records) /\ DOMAIN ledger' = 1..(n + 1)
      /\ ledger'[n + 1] = r
      /\ \A i \in 1..n : ledger'[i] = ledger[i]
  BY <1>1
<1>3. \A i \in DOMAIN ledger : ledger'[i] = ledger[i] /\ i \in DOMAIN ledger'
  BY <1>1, <1>2
<1>4. Known' = Known \union {r.v}
  <2>1. Known \subseteq Known'
    BY <1>3 DEF Known
  <2>2. r.v \in Known'
    BY <1>1, <1>2 DEF Known
  <2>3. ASSUME NEW i \in DOMAIN ledger' PROVE ledger'[i].v \in Known \union {r.v}
    <3>1. CASE i \in DOMAIN ledger
      BY <3>1, <1>3 DEF Known
    <3>2. CASE i \notin DOMAIN ledger
      BY <3>2, <1>1, <1>2
    <3> QED
      BY <3>1, <3>2
  <2> QED
    BY <2>1, <2>2, <2>3 DEF Known
<1>5. Stage(r.v)' = r.to
  <2>1. n + 1 \in RecordsOf(r.v)'
    BY <1>1, <1>2 DEF RecordsOf
  <2>2. \A j \in RecordsOf(r.v)' : j <= n + 1 /\ j \in Nat
    BY <1>1, <1>2 DEF RecordsOf
  <2>3. ASSUME NEW i \in RecordsOf(r.v)', \A j \in RecordsOf(r.v)' : j <= i
        PROVE  i = n + 1
    BY <2>1, <2>2, <2>3, <1>1
  <2>4. (CHOOSE i \in RecordsOf(r.v)' : \A j \in RecordsOf(r.v)' : j <= i) = n + 1
    BY <2>1, <2>2, <2>3
  <2> QED
    BY <2>4, <1>2 DEF Stage, Latest
<1>6. ASSUME NEW v \in Known, v # r.v PROVE Stage(v)' = Stage(v)
  <2>1. RecordsOf(v)' = RecordsOf(v)
    BY <1>1, <1>2, <1>3, <1>6 DEF RecordsOf
  <2> DEFINE last == CHOOSE i \in RecordsOf(v) : \A j \in RecordsOf(v) : j <= i
  <2>2. RecordsOf(v) \in SUBSET (0..n) /\ RecordsOf(v) # {}
    BY <1>1 DEF RecordsOf, Known
  <2>3. \E i \in RecordsOf(v) : \A j \in RecordsOf(v) : j <= i
    BY <1>1, <2>2, Greatest
  <2>4. last \in RecordsOf(v)
    BY <2>3
  <2>5. Latest(v) = ledger[last] /\ Latest(v)' = ledger'[last]
    BY <2>1 DEF Latest
  <2>6. last \in DOMAIN ledger
    BY <2>4 DEF RecordsOf
  <2> HIDE DEF last
  <2> QED
    BY <2>5, <2>6, <1>3 DEF Stage
<1> QED
  BY <1>2, <1>4, <1>5, <1>6

(* While the ledger stays, so does what is replayed from it. *)
LEMMA StageKept ==
    ASSUME ledger' = ledger
    PROVE  Known' = Known /\ Moneyed' = Moneyed /\ \A v : Stage(v)' = Stage(v)
<1>1. Known' = Known /\ \A v : Stage(v)' = Stage(v)
  BY DEF Known, Stage, Latest, RecordsOf
<1> QED
  BY <1>1 DEF Moneyed

(* The last swap is a record of one. *)
LEMMA LastSwapIsSwap ==
    ASSUME ledger \in Seq(Records), now \in Nat, Dated, Swaps # {}
    PROVE  LastSwap \in Records /\ LastSwap.v \in Known /\ Parent[LastSwap.v] \in Known
<1> DEFINE times == {ledger[i].at : i \in Swaps}
<1>1. Swaps \subseteq DOMAIN ledger
  BY DEF Swaps
<1>2. \A i \in DOMAIN ledger : ledger[i] \in Records
  OBVIOUS
<1>3. \A i \in Swaps : ledger[i].at \in 0..now
  <2> SUFFICES ASSUME NEW i \in Swaps PROVE ledger[i].at \in 0..now
    OBVIOUS
  <2>1. i \in DOMAIN ledger
    BY <1>1
  <2>2. ledger[i].at \in Nat
    BY <2>1, <1>2 DEF Records
  <2>3. ledger[i].at <= now
    BY <2>1 DEF Dated
  <2> QED
    BY <2>2, <2>3
<1>4. times \in SUBSET (0..now) /\ times # {}
  BY <1>3
<1>5. PICK t \in times : \A u \in times : u <= t
  BY <1>4, Greatest
<1>6. \E i \in Swaps : \A j \in Swaps : ledger[j].at <= ledger[i].at
  BY <1>5
<1> DEFINE i == CHOOSE i \in Swaps : \A j \in Swaps : ledger[j].at <= ledger[i].at
<1>7. i \in Swaps
  BY <1>6
<1>8. LastSwap = ledger[i]
  BY DEF LastSwap
<1> HIDE DEF i
<1> QED
  BY <1>1, <1>2, <1>7, <1>8 DEF Swaps, Dated, Known

(* As n grows by one, so does the number of the members up to n at most: there is a k-th one. *)
LEMMA KthMember ==
    ASSUME NEW n \in Nat, NEW S \in SUBSET (1..n), NEW k \in 1..Cardinality(S)
    PROVE  \E i \in S : Cardinality({j \in S : j <= i}) = k
<1> DEFINE Upto(m) == {j \in S : j <= m}
<1>1. IsFiniteSet(S) /\ Cardinality(S) \in Nat /\ k \in Nat /\ k > 0 /\ k <= Cardinality(S)
  <2>1. IsFiniteSet(1..n)
    BY FS_Interval
  <2>2. IsFiniteSet(S)
    BY <2>1, FS_Subset
  <2> QED
    BY <2>2, FS_CardinalityType
<1>2. \A m \in 0..n : IsFiniteSet(Upto(m)) /\ Cardinality(Upto(m)) \in Nat
  <2> SUFFICES ASSUME NEW m \in 0..n PROVE IsFiniteSet(Upto(m)) /\ Cardinality(Upto(m)) \in Nat
    OBVIOUS
  <2>1. IsFiniteSet(Upto(m))
    BY <1>1, FS_Subset
  <2> QED
    BY <2>1, FS_CardinalityType
<1>0. \A j \in S : j \in Nat /\ 1 <= j /\ j <= n
  OBVIOUS
<1>3. Upto(n) = S /\ Upto(0) = {}
  <2>1. \A j \in S : ~(j <= 0)
    BY <1>0
  <2> QED
    BY <1>0, <2>1
<1> DEFINE E == {m \in 0..n : Cardinality(Upto(m)) >= k}
<1>4. E \in SUBSET (0..n) /\ n \in E
  BY <1>1, <1>3
<1>5. PICK m \in E : \A x \in E : m <= x
  BY <1>4, LeastOf
<1>6. m \in 0..n /\ Cardinality(Upto(m)) >= k
  OBVIOUS
<1>7. m # 0
  <2>1. Cardinality(Upto(0)) = 0
    BY <1>3, FS_EmptySet
  <2> QED
    BY <2>1, <1>1, <1>6
<1>8. m - 1 \in 0..n /\ m - 1 \notin E
  <2>1. m \in Int /\ m - 1 \in 0..n /\ ~(m <= m - 1)
    BY <1>6, <1>7
  <2> QED
    BY <1>5, <2>1
<1>9. Cardinality(Upto(m - 1)) < k
  <2>1. ~(Cardinality(Upto(m - 1)) >= k)
    BY <1>8
  <2>2. Cardinality(Upto(m - 1)) \in Nat
    BY <1>2, <1>8
  <2> HIDE DEF Upto
  <2> QED
    BY <1>1, <2>1, <2>2
<1>10. m \in S
  <2> SUFFICES ASSUME m \notin S PROVE FALSE
    OBVIOUS
  <2>1. \A j \in S : j <= m <=> j <= m - 1
    BY <1>0, <1>6
  <2>2. Upto(m) = Upto(m - 1)
    BY <2>1
  <2>3. Cardinality(Upto(m)) \in Nat /\ Cardinality(Upto(m - 1)) \in Nat
    BY <1>2, <1>6, <1>8
  <2> HIDE DEF Upto
  <2> QED
    BY <2>2, <2>3, <1>1, <1>6, <1>9
<1>11. Upto(m) = Upto(m - 1) \union {m} /\ m \notin Upto(m - 1)
  <2>1. m \in Int /\ m <= m /\ ~(m <= m - 1)
    BY <1>6
  <2>2. \A j \in S : j <= m <=> (j <= m - 1 \/ j = m)
    BY <1>0, <1>6
  <2> QED
    BY <1>10, <2>1, <2>2
<1>12. Cardinality(Upto(m)) = Cardinality(Upto(m - 1)) + 1
  BY <1>2, <1>8, <1>11, FS_AddElement
<1>13. Cardinality(Upto(m)) = k
  <2>1. Cardinality(Upto(m)) \in Nat /\ Cardinality(Upto(m - 1)) \in Nat
    BY <1>2, <1>6, <1>8
  <2> HIDE DEF Upto
  <2> QED
    BY <2>1, <1>1, <1>6, <1>9, <1>12
<1> QED
  BY <1>10, <1>13

(* A list of versions is one of known versions. *)
LEMMA ListedKnown ==
    ASSUME ledger \in Seq(Records), NEW S \in SUBSET DOMAIN ledger
    PROVE  /\ Cardinality(S) \in Nat
           /\ Listed(S) = [k \in 1..Cardinality(S) |-> Listed(S)[k]]
           /\ DOMAIN Listed(S) = 1..Cardinality(S)
           /\ \A k \in 1..Cardinality(S) : Listed(S)[k] \in Known
<1>1. Len(ledger) \in Nat /\ S \in SUBSET (1..Len(ledger))
  OBVIOUS
<1>2. Cardinality(S) \in Nat
  <2>1. IsFiniteSet(1..Len(ledger))
    BY <1>1, FS_Interval
  <2>2. IsFiniteSet(S)
    BY <1>1, <2>1, FS_Subset
  <2> QED
    BY <2>2, FS_CardinalityType
<1>3. ASSUME NEW k \in 1..Cardinality(S) PROVE Listed(S)[k] \in Known
  <2> DEFINE i == CHOOSE i \in S : Cardinality({j \in S : j <= i}) = k
  <2>1. i \in S
    BY <1>1, KthMember
  <2>2. Listed(S)[k] = ledger[i].v
    BY DEF Listed
  <2> HIDE DEF i
  <2> QED
    BY <2>1, <2>2 DEF Known
<1>4. DOMAIN Listed(S) = 1..Cardinality(S) /\ Listed(S) = [k \in 1..Cardinality(S) |-> Listed(S)[k]]
  BY DEF Listed
<1> QED
  BY <1>2, <1>3, <1>4

-----------------------------------------------------------------------------
(* Jobs. *)

(* A job that neither sends orders nor takes a version out of the money is good. *)
LEMMA PlainJob ==
    ASSUME NEW j, NEW K, NEW D, Named(j, K),
           \A a \in DOMAIN j : j[a].do # "order" /\ ~Demotes(j[a])
    PROVE  GoodJob(j, K, D) /\ \A M : HeadOnly(j, M)
  BY DEF GoodJob, OrdersAhead, CloseFollows, CloseIsDue, HeadOnly

(* More known versions, and more that are out of the money, do no harm. *)
LEMMA GoodGrows ==
    ASSUME NEW j, NEW K, NEW L, NEW D, NEW E, K \subseteq L, D \subseteq E, GoodJob(j, K, D)
    PROVE  GoodJob(j, L, E)
<1>1. Named(j, L)
  BY DEF GoodJob, Named
<1>2. CloseIsDue(j, E)
  BY DEF GoodJob, CloseIsDue
<1> QED
  BY <1>1, <1>2 DEF GoodJob

(* The rest of a good job is good, once the record at its head is made. *)
LEMMA RestGood ==
    ASSUME NEW j \in Seq(Steps), j # <<>>, NEW K, NEW D, NEW E, GoodJob(j, K, D),
           D \subseteq E, Demotes(Head(j)) => Head(j).v \in E
    PROVE  /\ Tail(j) \in Seq(Steps) /\ Head(j) = j[1] /\ 1 \in DOMAIN j /\ j[1] \in Steps
           /\ GoodJob(Tail(j), K, E)
           /\ Head(j).do \notin {"record", "order"} =>
                  \A a \in DOMAIN Tail(j) : Tail(j)[a].do # "order"
           /\ \A v : InJob(v, j) => Head(j) = Order(v, "close") \/ InJob(v, Tail(j))
<1> DEFINE n == Len(j)
           r == Tail(j)
<1>1. /\ n \in Nat /\ n > 0 /\ DOMAIN j = 1..n
      /\ r \in Seq(Steps) /\ DOMAIN r = 1..(n - 1)
      /\ \A a \in 1..(n - 1) : r[a] = j[a + 1]
      /\ Head(j) = j[1] /\ j[1] \in Steps
  OBVIOUS
<1> HIDE DEF n, r
<1>2. \A a \in DOMAIN r : a \in Nat /\ a + 1 \in DOMAIN j /\ r[a] = j[a + 1]
  BY <1>1
<1>3. \A b \in DOMAIN j : b # 1 => b - 1 \in DOMAIN r /\ r[b - 1] = j[b] /\ b \in Nat
  <2> SUFFICES ASSUME NEW b \in DOMAIN j, b # 1
               PROVE  b - 1 \in DOMAIN r /\ r[b - 1] = j[b] /\ b \in Nat
    OBVIOUS
  <2>1. b \in Nat /\ b - 1 \in 1..(n - 1) /\ (b - 1) + 1 = b
    BY <1>1
  <2> QED
    BY <2>1, <1>1
<1>4. Named(r, K)
  BY <1>2 DEF GoodJob, Named
<1>5. OrdersAhead(r)
  <2> SUFFICES ASSUME NEW a \in DOMAIN r, NEW b \in DOMAIN r, a < b, r[b].do = "order"
               PROVE  r[a].do \in {"record", "order"}
    BY DEF OrdersAhead
  <2>1. a + 1 < b + 1
    BY <1>2
  <2> QED
    BY <2>1, <1>2 DEF GoodJob, OrdersAhead
<1>6. CloseFollows(r)
  <2> SUFFICES ASSUME NEW a \in DOMAIN r, Demotes(r[a])
               PROVE  \E b \in DOMAIN r : a < b /\ r[b] = Order(r[a].v, "close")
    BY DEF CloseFollows
  <2>1. PICK b \in DOMAIN j : a + 1 < b /\ j[b] = Order(r[a].v, "close")
    BY <1>2 DEF GoodJob, CloseFollows
  <2>2. a \in Nat /\ b \in Nat /\ b # 1 /\ a < b - 1
    BY <2>1, <1>1, <1>2
  <2> QED
    BY <2>1, <2>2, <1>3
<1>7. CloseIsDue(r, E)
  <2> SUFFICES ASSUME NEW b \in DOMAIN r, r[b].do = "order", r[b].to = "close", r[b].v \notin E
               PROVE  \E a \in DOMAIN r : a < b /\ Demotes(r[a]) /\ r[a].v = r[b].v
    BY DEF CloseIsDue
  <2>1. b \in Nat /\ b + 1 \in DOMAIN j /\ r[b] = j[b + 1] /\ r[b].v \notin D
    BY <1>2
  <2>2. PICK a \in DOMAIN j : a < b + 1 /\ Demotes(j[a]) /\ j[a].v = r[b].v
    BY <2>1 DEF GoodJob, CloseIsDue
  <2>3. a # 1
    BY <2>2, <1>1
  <2>4. a \in Nat /\ a - 1 < b
    BY <2>1, <2>2, <2>3, <1>1
  <2> QED
    BY <2>2, <2>3, <2>4, <1>3
<1>8. ASSUME Head(j).do \notin {"record", "order"}, NEW a \in DOMAIN r PROVE r[a].do # "order"
  <2>1. a + 1 \in DOMAIN j /\ r[a] = j[a + 1] /\ 1 < a + 1 /\ 1 \in DOMAIN j
    BY <1>1, <1>2
  <2> QED
    BY <2>1, <1>1, <1>8 DEF GoodJob, OrdersAhead
<1>9. ASSUME NEW v, InJob(v, j), Head(j) # Order(v, "close") PROVE InJob(v, r)
  <2>1. PICK b \in DOMAIN j : j[b] = Order(v, "close")
    BY <1>9 DEF InJob
  <2>2. b # 1
    BY <2>1, <1>1, <1>9
  <2> QED
    BY <2>1, <2>2, <1>3 DEF InJob
<1>10. 1 \in DOMAIN j
  BY <1>1
<1> QED
  BY <1>1, <1>4, <1>5, <1>6, <1>7, <1>8, <1>9, <1>10 DEF GoodJob, r

(* New steps in front of a job without orders. *)
LEMMA JobExtended ==
    ASSUME NEW s \in Seq(Steps), NEW r \in Seq(Steps), NEW K, NEW D,
           GoodJob(s, K, D), GoodJob(r, K, D), s = <<>> \/ \A a \in DOMAIN r : r[a].do # "order"
    PROVE  /\ s \o r \in Seq(Steps) /\ GoodJob(s \o r, K, D)
           /\ \A v : InJob(v, r) => InJob(v, s \o r)
<1> DEFINE n == Len(s)
           m == Len(r)
           j == s \o r
<1>1. /\ n \in Nat /\ m \in Nat /\ DOMAIN s = 1..n /\ DOMAIN r = 1..m
      /\ j \in Seq(Steps) /\ DOMAIN j = 1..(n + m)
      /\ \A a \in 1..n : j[a] = s[a]
      /\ \A a \in 1..m : j[n + a] = r[a]
  <2>1. n \in Nat /\ m \in Nat /\ DOMAIN s = 1..n /\ DOMAIN r = 1..m
    OBVIOUS
  <2>2. j \in Seq(Steps) /\ Len(j) = n + m
    BY ConcatProperties
  <2>3. \A a \in 1..(n + m) : j[a] = IF a <= n THEN s[a] ELSE r[a - n]
    BY <2>1, ConcatProperties
  <2>4. DOMAIN j = 1..(n + m)
    BY <2>1, <2>2
  <2> HIDE DEF n, m, j
  <2>5. \A a \in 1..n : j[a] = s[a]
    BY <2>1, <2>3
  <2>6. \A a \in 1..m : j[n + a] = r[a]
    <3> SUFFICES ASSUME NEW a \in 1..m PROVE j[n + a] = r[a]
      OBVIOUS
    <3>1. n + a \in 1..(n + m) /\ ~(n + a <= n) /\ (n + a) - n = a
      BY <2>1
    <3> QED
      BY <3>1, <2>3
  <2> QED
    BY <2>1, <2>2, <2>4, <2>5, <2>6
<1> HIDE DEF n, m, j
<1>2. \A a \in DOMAIN s : a \in Nat /\ a <= n /\ a \in DOMAIN j /\ j[a] = s[a]
  BY <1>1
<1>3. \A a \in DOMAIN r : a \in Nat /\ n + a > n /\ n + a \in DOMAIN j /\ j[n + a] = r[a]
  <2> SUFFICES ASSUME NEW a \in 1..m
               PROVE  a \in Nat /\ n + a > n /\ n + a \in 1..(n + m) /\ j[n + a] = r[a]
    BY <1>1
  <2>1. a \in Nat /\ a > 0 /\ a <= m
    BY <1>1
  <2> QED
    BY <2>1, <1>1
<1>4. ASSUME NEW b \in DOMAIN j, b \notin DOMAIN s
      PROVE  b \in Nat /\ b > n /\ b - n \in DOMAIN r /\ j[b] = r[b - n]
  <2>1. b \in Nat /\ b > n /\ b - n \in 1..m /\ n + (b - n) = b
    BY <1>1, <1>4
  <2> QED
    BY <2>1, <1>1
<1>5. Named(j, K)
  <2> SUFFICES ASSUME NEW a \in DOMAIN j
               PROVE  \/ \E b \in DOMAIN s : j[a] = s[b]
                      \/ \E b \in DOMAIN r : j[a] = r[b]
    <3>1. Named(s, K) /\ Named(r, K)
      BY DEF GoodJob
    <3> QED
      BY <3>1 DEF Named
  <2> QED
    BY <1>2, <1>4
<1>6. OrdersAhead(j)
  <2> SUFFICES ASSUME NEW a \in DOMAIN j, NEW b \in DOMAIN j, a < b, j[b].do = "order"
               PROVE  j[a].do \in {"record", "order"}
    BY DEF OrdersAhead
  <2>1. CASE b \in DOMAIN s
    <3>1. a \in DOMAIN s
      BY <2>1, <1>1
    <3> QED
      BY <2>1, <3>1, <1>2 DEF GoodJob, OrdersAhead
  <2>2. CASE b \notin DOMAIN s
    <3>1. b - n \in DOMAIN r /\ r[b - n].do = "order"
      BY <2>2, <1>4
    <3>2. s = <<>> /\ n = 0
      BY <3>1 DEF n
    <3>3. a \notin DOMAIN s
      BY <3>2, <1>1
    <3>4. a - n \in DOMAIN r /\ j[a] = r[a - n] /\ a - n < b - n
      BY <2>2, <3>3, <1>1, <1>4
    <3> QED
      BY <3>1, <3>4 DEF GoodJob, OrdersAhead
  <2> QED
    BY <2>1, <2>2
<1>7. CloseFollows(j)
  <2> SUFFICES ASSUME NEW a \in DOMAIN j, Demotes(j[a])
               PROVE  \E b \in DOMAIN j : a < b /\ j[b] = Order(j[a].v, "close")
    BY DEF CloseFollows
  <2>1. CASE a \in DOMAIN s
    <3>1. PICK b \in DOMAIN s : a < b /\ s[b] = Order(s[a].v, "close")
      BY <2>1, <1>2 DEF GoodJob, CloseFollows
    <3> QED
      BY <2>1, <3>1, <1>2
  <2>2. CASE a \notin DOMAIN s
    <3>1. a \in Nat /\ a - n \in DOMAIN r /\ j[a] = r[a - n]
      BY <2>2, <1>4
    <3>2. PICK b \in DOMAIN r : a - n < b /\ r[b] = Order(r[a - n].v, "close")
      BY <3>1 DEF GoodJob, CloseFollows
    <3>3. a < n + b
      BY <3>1, <3>2, <1>1, <1>3
    <3> QED
      BY <3>1, <3>2, <3>3, <1>3
  <2> QED
    BY <2>1, <2>2
<1>8. CloseIsDue(j, D)
  <2> SUFFICES ASSUME NEW b \in DOMAIN j, j[b].do = "order", j[b].to = "close", j[b].v \notin D
               PROVE  \E a \in DOMAIN j : a < b /\ Demotes(j[a]) /\ j[a].v = j[b].v
    BY DEF CloseIsDue
  <2>1. CASE b \in DOMAIN s
    <3>1. PICK a \in DOMAIN s : a < b /\ Demotes(s[a]) /\ s[a].v = s[b].v
      BY <2>1, <1>2 DEF GoodJob, CloseIsDue
    <3> QED
      BY <2>1, <3>1, <1>2
  <2>2. CASE b \notin DOMAIN s
    <3>1. b \in Nat /\ b - n \in DOMAIN r /\ j[b] = r[b - n]
      BY <2>2, <1>4
    <3>2. PICK a \in DOMAIN r : a < b - n /\ Demotes(r[a]) /\ r[a].v = r[b - n].v
      BY <3>1 DEF GoodJob, CloseIsDue
    <3>3. n + a < b
      BY <3>1, <3>2, <1>1, <1>3
    <3> QED
      BY <3>1, <3>2, <3>3, <1>3
  <2> QED
    BY <2>1, <2>2
<1>9. \A v : InJob(v, r) => InJob(v, j)
  BY <1>3 DEF InJob
<1> QED
  BY <1>1, <1>5, <1>6, <1>7, <1>8, <1>9 DEF GoodJob, j

(* Behind the head of such a job, and in front of what is left of it. *)
LEMMA RestPlain ==
    ASSUME NEW j \in Seq(Steps), j # <<>>, NEW M, HeadOnly(j, M)
    PROVE  \A a \in DOMAIN Tail(j) : ~Demotes(Tail(j)[a])
<1> SUFFICES ASSUME NEW a \in DOMAIN Tail(j), Demotes(Tail(j)[a]) PROVE FALSE
  OBVIOUS
<1>1. a + 1 \in DOMAIN j /\ Tail(j)[a] = j[a + 1] /\ a + 1 # 1
  OBVIOUS
<1> QED
  BY <1>1 DEF HeadOnly

LEMMA HeadExtended ==
    ASSUME NEW s \in Seq(Steps), NEW r \in Seq(Steps), NEW M, HeadOnly(s, M),
           \A a \in DOMAIN r : ~Demotes(r[a])
    PROVE  HeadOnly(s \o r, M)
<1> DEFINE j == s \o r
<1> SUFFICES ASSUME NEW a \in DOMAIN j, Demotes(j[a]) PROVE a = 1 /\ j[a].v \in M
  BY DEF HeadOnly
<1>1. Len(s) \in Nat /\ Len(r) \in Nat /\ DOMAIN s = 1..Len(s) /\ DOMAIN r = 1..Len(r)
  OBVIOUS
<1>2. DOMAIN j = 1..(Len(s) + Len(r))
  BY <1>1, ConcatProperties
<1>3. \A b \in 1..(Len(s) + Len(r)) : j[b] = IF b <= Len(s) THEN s[b] ELSE r[b - Len(s)]
  BY <1>1, ConcatProperties
<1> HIDE DEF j
<1>4. CASE a <= Len(s)
  <2>1. a \in DOMAIN s /\ j[a] = s[a]
    BY <1>1, <1>2, <1>3, <1>4
  <2> QED
    BY <2>1 DEF HeadOnly
<1>5. CASE ~(a <= Len(s))
  <2>1. a - Len(s) \in DOMAIN r /\ j[a] = r[a - Len(s)]
    BY <1>1, <1>2, <1>3, <1>5
  <2> QED
    BY <2>1
<1> QED
  BY <1>4, <1>5

(* The steps, and the jobs they make. *)
LEMMA StepTypes ==
    /\ \A v \in Versions : Evaluate(v) \in Steps /\ Review(v) \in Steps /\ Rollback(v) \in Steps
    /\ Reviews \in Steps /\ FlushAll \in Steps /\ Snapshot \in Steps
    /\ \A v \in Versions, to \in Stages, why \in Reasons : Record(v, to, why) \in Steps
    /\ \A v \in Versions : Order(v, "cancel") \in Steps /\ Order(v, "close") \in Steps
<1>1. \A v \in Versions : Evaluate(v) \in Steps /\ Review(v) \in Steps /\ Rollback(v) \in Steps
  BY DEF Steps, Evaluate, Review, Rollback
<1>2. Reviews \in Steps /\ FlushAll \in Steps /\ Snapshot \in Steps
  BY DEF Steps, Reviews, FlushAll, Snapshot
<1>3. \A v \in Versions, to \in Stages, why \in Reasons : Record(v, to, why) \in Steps
  BY DEF Steps, Record
<1>4. \A v \in Versions : Order(v, "cancel") \in Steps /\ Order(v, "close") \in Steps
  BY DEF Steps, Order
<1> QED
  BY <1>1, <1>2, <1>3, <1>4

(* One record, or two, of which none takes a version out of the money. *)
Harmless(s, K) ==
    /\ s \in Steps /\ s.do = "record" /\ s.v \in K /\ s.to \in Stages
    /\ s.why \in Reasons \ {"demoted"}
    /\ s.why = "swapped in" => Parent[s.v] \in K

LEMMA OneRecord ==
    ASSUME NEW s, NEW K, NEW D, Harmless(s, K)
    PROVE  <<s>> \in Seq(Steps) /\ GoodJob(<<s>>, K, D) /\ \A M : HeadOnly(<<s>>, M)
<1> DEFINE j == <<s>>
<1>1. s \in Steps /\ s.do # "order" /\ ~Demotes(s)
  BY DEF Harmless, Demotes
<1>2. j \in Seq(Steps) /\ \A a \in DOMAIN j : j[a] = s
  BY <1>1
<1> HIDE DEF j
<1>3. Named(j, K)
  BY <1>2 DEF Harmless, Named
<1>4. GoodJob(j, K, D) /\ \A M : HeadOnly(j, M)
  BY <1>1, <1>2, <1>3, PlainJob
<1> QED
  BY <1>2, <1>4 DEF j

LEMMA TwoRecords ==
    ASSUME NEW s, NEW r, NEW K, NEW D, Harmless(s, K), Harmless(r, K)
    PROVE  <<s, r>> \in Seq(Steps) /\ GoodJob(<<s, r>>, K, D) /\ \A M : HeadOnly(<<s, r>>, M)
<1> DEFINE j == <<s, r>>
<1>1. s \in Steps /\ s.do # "order" /\ ~Demotes(s) /\ r \in Steps /\ r.do # "order" /\ ~Demotes(r)
  BY DEF Harmless, Demotes
<1>2. j \in Seq(Steps) /\ \A a \in DOMAIN j : j[a] = s \/ j[a] = r
  BY <1>1
<1> HIDE DEF j
<1>3. Named(j, K)
  BY <1>2 DEF Harmless, Named
<1>4. GoodJob(j, K, D) /\ \A M : HeadOnly(j, M)
  BY <1>1, <1>2, <1>3, PlainJob
<1> QED
  BY <1>2, <1>4 DEF j

(* A record, and what a handler does in the end. *)
LEMMA RecordAndFlush ==
    ASSUME NEW s, NEW K, NEW D, Harmless(s, K)
    PROVE  <<s, FlushAll>> \in Seq(Steps) /\ GoodJob(<<s, FlushAll>>, K, D) /\ \A M : HeadOnly(<<s, FlushAll>>, M)
<1> DEFINE j == <<s, FlushAll>>
<1>1. s \in Steps /\ s.do # "order" /\ ~Demotes(s)
  BY DEF Harmless, Demotes
<1>2. FlushAll \in Steps /\ FlushAll.do = "flush" /\ ~Demotes(FlushAll)
  BY StepTypes DEF Demotes, FlushAll
<1>3. j \in Seq(Steps) /\ \A a \in DOMAIN j : j[a] = s \/ j[a] = FlushAll
  BY <1>1, <1>2
<1> HIDE DEF j
<1>4. Named(j, K)
  BY <1>2, <1>3 DEF Harmless, Named
<1>5. GoodJob(j, K, D) /\ \A M : HeadOnly(j, M)
  BY <1>1, <1>2, <1>3, <1>4, PlainJob
<1> QED
  BY <1>3, <1>5 DEF j

(* A demotion takes the version out of the money with its close order behind the record, or leaves it in. *)
LEMMA DemotionGood ==
    ASSUME ledger \in Seq(Records), NEW v \in Known, NEW to \in MONEY_STAGES \union {"shadow", "retired"},
           NEW D, NEW M, v \in M
    PROVE  Demotion(v, to) \in Seq(Steps) /\ GoodJob(Demotion(v, to), Known, D) /\ HeadOnly(Demotion(v, to), M)
<1>1. v \in Versions /\ to \in Stages
  BY KnownVersions DEF Stages
<1> DEFINE r == Record(v, to, "demoted")
           x == Order(v, "cancel")
           c == Order(v, "close")
           b == Rollback(v)
<1>2. r \in Steps /\ x \in Steps /\ c \in Steps /\ b \in Steps
  <2>1. "demoted" \in Reasons
    BY DEF Reasons
  <2>2. r \in Steps
    BY <1>1, <2>1, StepTypes
  <2>3. x \in Steps /\ c \in Steps /\ b \in Steps
    BY <1>1, StepTypes
  <2> QED
    BY <2>2, <2>3
<1>3. /\ r.do = "record" /\ r.v = v /\ r.to = to /\ r.why = "demoted"
      /\ x.do = "order" /\ x.v = v /\ x.to = "cancel"
      /\ c.do = "order" /\ c.v = v
      /\ b.do = "rollback" /\ b.v = v
  BY DEF Record, Order, Rollback
<1>4. Demotes(r) <=> to \in {"shadow", "retired"}
  BY <1>3 DEF Demotes, MONEY_STAGES
<1>5. ~Demotes(x) /\ ~Demotes(c) /\ ~Demotes(b)
  BY <1>3 DEF Demotes
<1>6. c = Order(r.v, "close")
  BY <1>3
<1> HIDE DEF r, x, c, b
<1>7. CASE to \in {"shadow", "retired"}
  <2> DEFINE j == <<r, x, c, b>>
  <2>1. /\ j \in Seq(Steps) /\ DOMAIN j = {1, 2, 3, 4}
        /\ j[1] = r /\ j[2] = x /\ j[3] = c /\ j[4] = b
    BY <1>2
  <2>2. Demotion(v, to) = j
    BY <1>7 DEF Demotion, r, x, c, b
  <2> HIDE DEF j
  <2>3. Named(j, Known)
    BY <2>1, <1>1, <1>3 DEF Named, Reasons
  <2>4. OrdersAhead(j)
    BY <2>1, <1>3 DEF OrdersAhead
  <2>5. CloseFollows(j)
    BY <2>1, <1>5, <1>6 DEF CloseFollows
  <2>6. CloseIsDue(j, D)
    BY <2>1, <1>3, <1>4, <1>7 DEF CloseIsDue
  <2>7. HeadOnly(j, M)
    BY <2>1, <1>3, <1>5 DEF HeadOnly
  <2> QED
    BY <2>1, <2>2, <2>3, <2>4, <2>5, <2>6, <2>7 DEF GoodJob
<1>8. CASE to \notin {"shadow", "retired"}
  <2> DEFINE j == <<r, x, b>>
  <2>1. j \in Seq(Steps) /\ DOMAIN j = {1, 2, 3} /\ j[1] = r /\ j[2] = x /\ j[3] = b
    BY <1>2
  <2>2. Demotion(v, to) = j
    BY <1>8 DEF Demotion, r, x, b
  <2> HIDE DEF j
  <2>3. Named(j, Known)
    BY <2>1, <1>1, <1>3 DEF Named, Reasons
  <2>4. OrdersAhead(j)
    BY <2>1, <1>3 DEF OrdersAhead
  <2>5. CloseFollows(j)
    BY <2>1, <1>4, <1>5, <1>8 DEF CloseFollows
  <2>6. CloseIsDue(j, D)
    BY <2>1, <1>3 DEF CloseIsDue
  <2>7. HeadOnly(j, M)
    BY <2>1, <1>3, <1>5 DEF HeadOnly
  <2> QED
    BY <2>1, <2>2, <2>3, <2>4, <2>5, <2>6, <2>7 DEF GoodJob
<1> QED
  BY <1>7, <1>8

-----------------------------------------------------------------------------
(* The steps of a handler keep the invariant. *)

(* A queued close order stays queued while the orders do. *)
LEMMA OrdersKept ==
    ASSUME orders' = orders, due' = due, OrdersDue
    PROVE  OrdersDue' /\ \A v : Queued(v) => Queued(v)'
  BY DEF OrdersDue, Queued

(* What the others know agrees with the registry while nothing of either changes. *)
LEMMA AgreesKept ==
    ASSUME ledger' = ledger, changes' = changes, told' = told
    PROVE  Agrees => Agrees'
  BY StageKept DEF Agrees, Told, Unqueued, LastQueued

LEMMA ToldKept ==
    ASSUME ledger' = ledger, told' = told, changes' = changes, ToldTypes, ChangesKnown
    PROVE  ToldTypes' /\ ChangesKnown'
  BY StageKept DEF ToldTypes, ChangesKnown

LEMMA DatedKept ==
    ASSUME ledger' = ledger, now' = now, Dated
    PROVE  Dated'
  BY StageKept DEF Dated

(* A step that only puts new ones in its place. *)
LEMMA ExtendKeeps ==
    ASSUME IInv, job # <<>>, Head(job).do \notin {"record", "order", "snapshot"},
           NEW s \in Seq(Steps), GoodJob(s, Known, due), HeadOnly(s, Moneyed), Then(s),
           UNCHANGED <<ledger, now, up, crashes, changes, orders, told, due, closed, kept>>
    PROVE  IInv'
<1> DEFINE r == Tail(job)
<1>0. /\ Types /\ Dated /\ GoodJob(job, Known, due) /\ OrdersDue /\ CloseUnderway /\ ClosedAfterChange
      /\ DemotesFirst /\ DownIsIdle /\ ToldTypes /\ ChangesKnown /\ Current
  BY DEF IInv
<1>1. job \in Seq(Steps) /\ ~Demotes(Head(job))
  BY <1>0 DEF Types, Demotes
<1>2. /\ r \in Seq(Steps) /\ GoodJob(r, Known, due)
      /\ \A a \in DOMAIN r : r[a].do # "order"
      /\ \A v : InJob(v, job) => Head(job) = Order(v, "close") \/ InJob(v, r)
  BY <1>0, <1>1, RestGood
<1> HIDE DEF r
<1>3. job' = s \o r
  BY DEF Then, r
<1>4. /\ job' \in Seq(Steps) /\ GoodJob(job', Known, due)
      /\ \A v : InJob(v, r) => InJob(v, job')
  BY <1>2, <1>3, JobExtended
<1>5. Known' = Known
  BY StageKept
<1>6. Types'
  BY <1>0, <1>4 DEF Types
<1>7. GoodJob(job, Known, due)'
  BY <1>4, <1>5
<1>8. \A v : Head(job) # Order(v, "close")
  BY DEF Order
<1>9. CloseUnderway'
  <2> SUFFICES ASSUME NEW v \in due' \ (closed' \union kept')
               PROVE  InJob(v, job)' \/ Queued(v)'
    BY DEF CloseUnderway
  <2>1. InJob(v, job) \/ Queued(v)
    BY <1>0 DEF CloseUnderway
  <2>2. InJob(v, job) => InJob(v, job')
    BY <1>2, <1>4, <1>8
  <2>3. Queued(v) => Queued(v)'
    BY <1>0, OrdersKept
  <2> QED
    BY <2>1, <2>2, <2>3 DEF InJob
<1>10. ClosedAfterChange' /\ OrdersDue'
  BY <1>0, OrdersKept DEF ClosedAfterChange
<1>11. up /\ DownIsIdle'
  BY <1>0 DEF DownIsIdle
<1>12. Agrees
  <2>1. job # <<Snapshot>>
    BY DEF Snapshot
  <2> QED
    BY <2>1, <1>0, <1>11 DEF Current
<1>13. Current'
  BY <1>12, AgreesKept DEF Current
<1>14. Dated' /\ ToldTypes' /\ ChangesKnown'
  BY <1>0, ToldKept, DatedKept
<1>15. DemotesFirst'
  <2>1. \A a \in DOMAIN r : ~Demotes(r[a])
    BY <1>0, <1>1, RestPlain DEF DemotesFirst, r
  <2>2. HeadOnly(job', Moneyed) /\ Moneyed' = Moneyed
    BY <2>1, <1>2, <1>3, HeadExtended, StageKept
  <2> QED
    BY <2>2 DEF DemotesFirst
<1> QED
  BY <1>6, <1>7, <1>9, <1>10, <1>11, <1>13, <1>14, <1>15 DEF IInv

LEMMA NowIsNat == ASSUME Types PROVE now \in Nat
<1>1. MaxTime \in Nat
  BY LifecycleAssumption
<1> QED
  BY <1>1 DEF Types

LEMMA AtMostItself == \A n \in Nat : n <= n
  OBVIOUS

LEMMA NewOrOld ==
    ASSUME NEW S, NEW s \in Seq(S), NEW i \in 1..(Len(s) + 1), i # Len(s) + 1
    PROVE  i \in 1..Len(s) /\ i \in DOMAIN s
  OBVIOUS

LEMMA EmptyJob == \A K, D : <<>> \in Seq(Steps) /\ GoodJob(<<>>, K, D) /\ HeadOnly(<<>>, K)
  BY DEF GoodJob, Named, OrdersAhead, CloseFollows, CloseIsDue, HeadOnly

(* A record of a known version is one that a job may hold. *)
LEMMA HarmlessRecord ==
    ASSUME ledger \in Seq(Records), NEW v \in Known, NEW to \in Stages, NEW why \in Reasons,
           why # "demoted", why = "swapped in" => Parent[v] \in Known
    PROVE  Harmless(Record(v, to, why), Known)
<1>1. v \in Versions
  BY KnownVersions
<1>2. Record(v, to, why) \in Steps
  BY <1>1, StepTypes
<1> QED
  BY <1>2 DEF Harmless, Record

(* What the evidence may lead to is a good job. *)
LEMMA OutcomesGood ==
    ASSUME ledger \in Seq(Records), NEW v \in Known, NEW s \in Outcomes(v), NEW D
    PROVE  s \in Seq(Steps) /\ GoodJob(s, Known, D) /\ HeadOnly(s, Moneyed)
<1>1. Stage(v) \in Stages
  BY LatestIsRecord
<1>2. DemotesTo(v) \in MONEY_STAGES \union {"shadow", "retired"}
  BY DEF DemotesTo, MONEY_STAGES
<1>3. "ladder" \in Reasons /\ "ladder" # "demoted" /\ "ladder" # "swapped in"
  BY DEF Reasons
<1>4. \A to \in Stages : Harmless(Record(v, to, "ladder"), Known)
  BY <1>3, HarmlessRecord
<1>5. \A to \in Stages :
          /\ <<Record(v, to, "ladder")>> \in Seq(Steps) /\ GoodJob(<<Record(v, to, "ladder")>>, Known, D)
          /\ HeadOnly(<<Record(v, to, "ladder")>>, Moneyed)
  BY <1>4, OneRecord
<1>6. ASSUME v \in Moneyed
      PROVE  /\ Demotion(v, DemotesTo(v)) \in Seq(Steps) /\ GoodJob(Demotion(v, DemotesTo(v)), Known, D)
             /\ HeadOnly(Demotion(v, DemotesTo(v)), Moneyed)
  BY <1>2, <1>6, DemotionGood
<1>7. {"micro", "retired", "live", "scaled"} \subseteq Stages
  BY DEF Stages, MONEY_STAGES
<1>8. \/ s = Demotion(v, DemotesTo(v)) /\ v \in Moneyed
      \/ \E to \in {"micro", "retired", "live", "scaled"} : s = <<Record(v, to, "ladder")>>
  <2>1. CASE Stage(v) = "shadow"
    BY <2>1 DEF Outcomes
  <2>2. CASE Stage(v) = "micro"
    BY <2>2 DEF Outcomes, Moneyed, MONEY_STAGES
  <2>3. CASE Stage(v) = "live"
    BY <2>3 DEF Outcomes, Moneyed, MONEY_STAGES
  <2>4. CASE Stage(v) = "scaled"
    BY <2>4 DEF Outcomes, Moneyed, MONEY_STAGES
  <2>5. CASE Stage(v) \notin {"shadow", "micro", "live", "scaled"}
    BY <2>5 DEF Outcomes
  <2> QED
    BY <2>1, <2>2, <2>3, <2>4, <2>5
<1> QED
  BY <1>5, <1>6, <1>7, <1>8

(* The head of a job. *)
LEMMA HeadNamed ==
    ASSUME IInv, job # <<>>
    PROVE  /\ Head(job) \in Steps /\ up
           /\ Head(job).do \in {"evaluate", "review", "record", "order", "rollback"} =>
                  Head(job).v \in Known /\ Head(job).v \in Versions
           /\ Head(job).do = "record" => Head(job).to \in Stages /\ Head(job).why \in Reasons
           /\ Head(job).do = "record" /\ Head(job).why = "swapped in" => Parent[Head(job).v] \in Known
<1>1. job \in Seq(Steps) /\ GoodJob(job, Known, due) /\ Known \subseteq Versions
  BY KnownVersions DEF IInv, Types
<1>2. 1 \in DOMAIN job /\ Head(job) = job[1] /\ job[1] \in Steps
  BY <1>1, RestGood
<1>3. up
  BY DEF IInv, DownIsIdle
<1> QED
  BY <1>1, <1>2, <1>3 DEF GoodJob, Named

LEMMA EvaluateKeeps ==
    ASSUME IInv, job # <<>>, Head(job).do = "evaluate", DoEvaluate(Head(job).v), UNCHANGED <<now, up, crashes>>
    PROVE  IInv'
<1>1. ledger \in Seq(Records) /\ Head(job).v \in Known
  BY HeadNamed DEF IInv, Types
<1>2. CASE Then(<<>>)
  BY <1>2, EmptyJob, ExtendKeeps DEF DoEvaluate
<1>3. ASSUME NEW s \in Outcomes(Head(job).v), Then(s) PROVE IInv'
  <2>1. s \in Seq(Steps) /\ GoodJob(s, Known, due) /\ HeadOnly(s, Moneyed)
    BY <1>1, OutcomesGood
  <2> QED
    BY <1>3, <2>1, ExtendKeeps DEF DoEvaluate
<1> QED
  BY <1>2, <1>3 DEF DoEvaluate

(* A job with a step for each of the versions listed. *)
LEMMA ReviewsGood ==
    ASSUME NEW n \in Nat, NEW j, j = [i \in 1..n |-> j[i]], ledger \in Seq(Records), NEW D,
           \A i \in 1..n : \E v \in Known : j[i] = Review(v) \/ j[i] = Evaluate(v)
    PROVE  j \in Seq(Steps) /\ GoodJob(j, Known, D) /\ DOMAIN j = 1..n /\ HeadOnly(j, Moneyed)
<1>1. \A i \in 1..n : j[i] \in Steps
  BY KnownVersions, StepTypes
<1>2. j \in Seq(Steps) /\ DOMAIN j = 1..n
  BY <1>1
<1>3. \A i \in 1..n : j[i].do \in {"evaluate", "review"} /\ j[i].v \in Known
  BY DEF Review, Evaluate
<1>4. Named(j, Known)
  BY <1>2, <1>3 DEF Named
<1>5. \A a \in DOMAIN j : j[a].do # "order" /\ ~Demotes(j[a])
  BY <1>2, <1>3 DEF Demotes
<1> QED
  BY <1>2, <1>4, <1>5, PlainJob

LEMMA ReviewsKeep ==
    ASSUME IInv, job # <<>>, Head(job).do = "reviews", DoReviews, UNCHANGED <<now, up, crashes>>
    PROVE  IInv'
<1> DEFINE C == {i \in Submissions : Stage(ledger[i].v) = "shadow" /\ Parent[ledger[i].v] # NoVersion}
           j == [i \in DOMAIN Challengers |-> Review(Challengers[i])]
<1>1. ledger \in Seq(Records)
  BY DEF IInv, Types
<1>2. C \in SUBSET DOMAIN ledger /\ Challengers = Listed(C)
  BY DEF Submissions, Challengers
<1> HIDE DEF C
<1>3. /\ Cardinality(C) \in Nat /\ DOMAIN Challengers = 1..Cardinality(C)
      /\ \A i \in 1..Cardinality(C) : Challengers[i] \in Known
  BY <1>1, <1>2, ListedKnown
<1>4. /\ j = [i \in 1..Cardinality(C) |-> j[i]]
      /\ \A i \in 1..Cardinality(C) : j[i] = Review(Challengers[i])
  BY <1>3
<1>5. Then(j)
  BY DEF DoReviews
<1> HIDE DEF j
<1>6. j \in Seq(Steps) /\ GoodJob(j, Known, due) /\ HeadOnly(j, Moneyed)
  BY <1>1, <1>3, <1>4, ReviewsGood
<1> QED
  BY <1>5, <1>6, ExtendKeeps DEF DoReviews

(* A handler that raises loses no close order: after a step that is neither a record nor an order there is none. *)
LEMMA RaiseKeeps ==
    ASSUME IInv, job # <<>>, Head(job).do \in {"review", "rollback"}, Raise,
           UNCHANGED <<ledger, now, up, crashes, changes, orders, told, due, closed, kept>>
    PROVE  IInv'
<1>0. /\ Types /\ Dated /\ GoodJob(job, Known, due) /\ OrdersDue /\ CloseUnderway /\ ClosedAfterChange
      /\ DemotesFirst /\ DownIsIdle /\ ToldTypes /\ ChangesKnown /\ Current
  BY DEF IInv
<1>1. job' = <<>>
  BY DEF Raise
<1>2. \A u : ~InJob(u, job)
  <2>1. job \in Seq(Steps) /\ ~Demotes(Head(job)) /\ \A u : Head(job) # Order(u, "close")
    BY <1>0 DEF Types, Demotes, Order
  <2>2. /\ \A a \in DOMAIN Tail(job) : Tail(job)[a].do # "order"
        /\ \A u : InJob(u, job) => Head(job) = Order(u, "close") \/ InJob(u, Tail(job))
    BY <1>0, <2>1, RestGood
  <2>3. \A u : ~InJob(u, Tail(job))
    BY <2>2 DEF InJob, Order
  <2> QED
    BY <2>1, <2>2, <2>3
<1>3. Types' /\ GoodJob(job, Known, due)' /\ DemotesFirst'
  <2>1. Types' /\ GoodJob(job, Known, due)'
    BY <1>0, <1>1, EmptyJob DEF Types
  <2> QED
    BY <2>1, <1>1 DEF DemotesFirst, HeadOnly
<1>4. CloseUnderway' /\ OrdersDue' /\ ClosedAfterChange'
  BY <1>0, <1>2, OrdersKept DEF CloseUnderway, ClosedAfterChange
<1>5. up /\ Agrees
  BY <1>0 DEF DownIsIdle, Current, Snapshot
<1>6. DownIsIdle' /\ Current'
  BY <1>5, AgreesKept DEF DownIsIdle, Current
<1>7. Dated' /\ ToldTypes' /\ ChangesKnown'
  BY <1>0, ToldKept, DatedKept
<1> QED
  BY <1>3, <1>4, <1>6, <1>7 DEF IInv

(* A swap: the challenger gets its champion's stage, the champion goes to shadow. *)
LEMMA ReviewKeeps ==
    ASSUME IInv, job # <<>>, Head(job).do = "review", DoReview(Head(job).v), UNCHANGED <<now, up, crashes>>
    PROVE  IInv'
<1> DEFINE v == Head(job).v
           s == <<Record(v, Stage(Parent[v]), "swapped in"), Record(Parent[v], "shadow", "swapped out")>>
<1>1. ledger \in Seq(Records) /\ v \in Known
  BY HeadNamed DEF IInv, Types
<1>2. CASE Then(<<>>)
  BY <1>2, EmptyJob, ExtendKeeps DEF DoReview
<1>3. CASE SwapDue(v) /\ Then(s)
  <2>1. Parent[v] \in Known
    BY <1>3 DEF SwapDue
  <2>2. Stage(Parent[v]) \in Stages /\ "shadow" \in Stages
    BY <1>1, <2>1, LatestIsRecord DEF Stages
  <2>3. "swapped in" \in Reasons /\ "swapped out" \in Reasons
    BY DEF Reasons
  <2>4. Harmless(Record(v, Stage(Parent[v]), "swapped in"), Known)
    BY <1>1, <2>1, <2>2, <2>3, HarmlessRecord
  <2>5. Harmless(Record(Parent[v], "shadow", "swapped out"), Known)
    BY <1>1, <2>1, <2>2, <2>3, HarmlessRecord
  <2>6. s \in Seq(Steps) /\ GoodJob(s, Known, due) /\ HeadOnly(s, Moneyed)
    BY <2>4, <2>5, TwoRecords
  <2> QED
    BY <1>3, <2>6, ExtendKeeps DEF DoReview
<1>4. CASE Raise
  BY <1>4, RaiseKeeps DEF DoReview
<1> QED
  BY <1>2, <1>3, <1>4 DEF DoReview

(* A rollback: its records, or nothing more of the job; the orders of the demotion are queued by then. *)
LEMMA RollbackKeeps ==
    ASSUME IInv, job # <<>>, Head(job).do = "rollback", DoRollback(Head(job).v), UNCHANGED <<now, up, crashes>>
    PROVE  IInv'
<1> DEFINE v == Head(job).v
           old == Parent[v]
           one == <<Record(old, LastSwap.to, "restored")>>
           two == <<Record(v, "shadow", "rolled back"), Record(old, LastSwap.to, "restored")>>
<1>0. ledger \in Seq(Records) /\ now \in Nat /\ Dated /\ v \in Known
  BY HeadNamed, NowIsNat DEF IInv, Types
<1>1. UNCHANGED <<ledger, now, up, crashes, changes, orders, told, due, closed, kept>>
  BY DEF DoRollback
<1>2. CASE Then(<<>>)
  BY <1>1, <1>2, EmptyJob, ExtendKeeps
<1>3. CASE Swaps # {} /\ LastSwap.v = v /\ (Then(one) \/ Then(two))
  <2>1. LastSwap \in Records /\ old \in Known
    BY <1>0, <1>3, LastSwapIsSwap
  <2>2. LastSwap.to \in Stages /\ "shadow" \in Stages /\ "restored" \in Reasons /\ "rolled back" \in Reasons
    BY <2>1 DEF Records, Stages, Reasons
  <2>3. Harmless(Record(old, LastSwap.to, "restored"), Known)
    BY <1>0, <2>1, <2>2, HarmlessRecord
  <2>4. Harmless(Record(v, "shadow", "rolled back"), Known)
    BY <1>0, <2>1, <2>2, HarmlessRecord
  <2>5. one \in Seq(Steps) /\ GoodJob(one, Known, due) /\ HeadOnly(one, Moneyed)
    BY <2>3, OneRecord
  <2>6. two \in Seq(Steps) /\ GoodJob(two, Known, due) /\ HeadOnly(two, Moneyed)
    BY <2>3, <2>4, TwoRecords
  <2> HIDE DEF one, two
  <2> QED
    BY <1>1, <1>3, <2>5, <2>6, ExtendKeeps
<1>4. CASE Raise
  BY <1>1, <1>4, RaiseKeeps
<1> QED
  <2>1. \/ Then(<<>>) \/ Raise
        \/ Swaps # {} /\ LastSwap.v = v /\ (Then(one) \/ Then(two))
    BY DEF DoRollback
  <2> QED
    BY <2>1, <1>2, <1>3, <1>4

(* What is left of a job whose head is done. *)
LEMMA Rest ==
    ASSUME IInv, job # <<>>, Then(<<>>), NEW L, NEW E, Known \subseteq L, due \subseteq E,
           Demotes(Head(job)) => Head(job).v \in E
    PROVE  /\ job' \in Seq(Steps) /\ GoodJob(job', L, E) /\ DemotesFirst'
           /\ \A v : InJob(v, job) => Head(job) = Order(v, "close") \/ InJob(v, job')
<1>1. job \in Seq(Steps) /\ GoodJob(job, Known, due)
  BY DEF IInv, Types
<1>2. /\ Tail(job) \in Seq(Steps) /\ GoodJob(Tail(job), Known, E)
      /\ \A v : InJob(v, job) => Head(job) = Order(v, "close") \/ InJob(v, Tail(job))
  BY <1>1, RestGood
<1>3. job' = <<>> \o Tail(job)
  BY DEF Then
<1>4. /\ job' \in Seq(Steps) /\ GoodJob(job', Known, E)
      /\ \A v : InJob(v, Tail(job)) => InJob(v, job')
  BY <1>2, <1>3, EmptyJob, JobExtended
<1>5. GoodJob(job', L, E)
  BY <1>4, GoodGrows
<1>6. DemotesFirst'
  <2>1. HeadOnly(job, Moneyed)
    BY DEF IInv, DemotesFirst
  <2>2. \A a \in DOMAIN Tail(job) : ~Demotes(Tail(job)[a])
    BY <2>1, <1>1, RestPlain
  <2>3. job' = Tail(job)
    BY <1>2, <1>3
  <2> QED
    BY <2>2, <2>3 DEF DemotesFirst, HeadOnly
<1> QED
  BY <1>2, <1>4, <1>5, <1>6

(* publish_snapshot: the others know all stages. *)
LEMMA SnapshotKeeps ==
    ASSUME IInv, job # <<>>, Head(job).do = "snapshot", DoSnapshot, UNCHANGED <<now, up, crashes>>
    PROVE  IInv'
<1>0. /\ Types /\ Dated /\ GoodJob(job, Known, due) /\ OrdersDue /\ CloseUnderway /\ ClosedAfterChange
      /\ DemotesFirst /\ DownIsIdle /\ ToldTypes /\ ChangesKnown /\ Current
  BY DEF IInv
<1>1. UNCHANGED <<ledger, now, up, crashes, changes, orders, due, closed, kept>> /\ Then(<<>>) /\ told' = StageMap
  BY DEF DoSnapshot
<1>2. ~Demotes(Head(job)) /\ \A v : Head(job) # Order(v, "close")
  BY DEF Demotes, Order
<1>3. /\ job' \in Seq(Steps) /\ GoodJob(job', Known, due) /\ DemotesFirst'
      /\ \A v : InJob(v, job) => InJob(v, job')
  BY <1>1, <1>2, Rest
<1>4. Known' = Known /\ \A v : Stage(v)' = Stage(v)
  BY <1>1, StageKept
<1>5. Types' /\ GoodJob(job, Known, due)'
  BY <1>0, <1>1, <1>3, <1>4 DEF Types
<1>6. OrdersDue' /\ \A v : Queued(v) => Queued(v)'
  BY <1>0, <1>1, OrdersKept
<1>7. CloseUnderway'
  <2> SUFFICES ASSUME NEW v \in due' \ (closed' \union kept')
               PROVE  InJob(v, job)' \/ Queued(v)'
    BY DEF CloseUnderway
  <2>1. InJob(v, job) \/ Queued(v)
    BY <1>0, <1>1 DEF CloseUnderway
  <2> QED
    BY <2>1, <1>3, <1>6 DEF InJob
<1>8. ClosedAfterChange'
  BY <1>0, <1>1 DEF ClosedAfterChange
<1>9. Dated'
  BY <1>0, <1>1, DatedKept
<1>10. ToldTypes' /\ ChangesKnown'
  <2>1. \A v \in Known : Stage(v) \in Stages
    BY <1>0, LatestIsRecord DEF Types
  <2>2. ToldTypes'
    BY <1>1, <1>4, <2>1 DEF ToldTypes, StageMap
  <2> QED
    BY <2>2, <1>0, <1>1, <1>4 DEF ChangesKnown
<1>11. up
  BY HeadNamed
<1>12. Agrees'
  <2> SUFFICES ASSUME NEW v \in Known
               PROVE  /\ Told(v)'
                      /\ \A i \in DOMAIN changes : LastQueued(v, i) => changes[i].to = Stage(v)
    BY <1>1, <1>4 DEF Agrees, LastQueued
  <2>1. Told(v)'
    BY <1>1, <1>4 DEF Told, StageMap
  <2>2. CASE Agrees
    BY <2>1, <2>2 DEF Agrees
  <2>3. CASE changes = <<>>
    BY <2>1, <2>3
  <2> QED
    BY <2>2, <2>3, <1>0, <1>11 DEF Current
<1>13. Current' /\ DownIsIdle'
  BY <1>1, <1>11, <1>12 DEF Current, DownIsIdle
<1> QED
  BY <1>3, <1>5, <1>6, <1>7, <1>8, <1>9, <1>10, <1>13 DEF IInv

(* _record: the version's stage, the change queued about it, and its close order that is due. *)
LEMMA RecordKeeps ==
    ASSUME IInv, job # <<>>, NEW s, s = Head(job), s.do = "record", DoRecord(s), UNCHANGED <<now, up, crashes>>,
           NEW r, r = [v |-> s.v, from |-> Stage(s.v), to |-> s.to, at |-> now, why |-> s.why]
    PROVE  IInv'
<1> DEFINE v == s.v
           n == Len(changes)
<1>0. /\ Types /\ Dated /\ GoodJob(job, Known, due) /\ OrdersDue /\ CloseUnderway /\ ClosedAfterChange
      /\ DemotesFirst /\ DownIsIdle /\ ToldTypes /\ ChangesKnown /\ Current
  BY DEF IInv
<1>1. /\ ledger' = Append(ledger, r) /\ changes' = Append(changes, r)
      /\ IF TakesOut(r)
         THEN /\ due' = due \union {v} /\ closed' = closed \ {v}
              /\ kept' = IF s.why = "demoted" THEN kept \ {v} ELSE kept \union {v}
         ELSE due' = due /\ closed' = closed /\ kept' = kept
      /\ Then(<<>>) /\ orders' = orders /\ told' = told /\ now' = now /\ up' = up /\ crashes' = crashes
  BY DEF DoRecord
<1>2. /\ v \in Known /\ v \in Versions /\ s.to \in Stages /\ s.why \in Reasons /\ up
      /\ s.why = "swapped in" => Parent[v] \in Known
  BY HeadNamed
<1>3. r \in Records /\ r.v = v /\ r.to = s.to /\ r.at = now /\ r.why = s.why
  <2>1. Stage(v) \in Stages /\ now \in Nat
    BY <1>0, <1>2, LatestIsRecord, NowIsNat DEF Types
  <2> QED
    BY <2>1, <1>2 DEF Records
<1>4. /\ ledger' \in Seq(Records)
      /\ DOMAIN ledger' = 1..(Len(ledger) + 1) /\ ledger'[Len(ledger) + 1] = r
      /\ \A i \in 1..Len(ledger) : ledger'[i] = ledger[i]
      /\ Known' = Known
      /\ Stage(v)' = r.to
      /\ \A u \in Known : u # v => Stage(u)' = Stage(u)
  <2>1. Known' = Known \union {r.v}
    BY <1>0, <1>1, <1>3, StageAppended DEF Types
  <2>2. Stage(r.v)' = r.to /\ \A u \in Known : u # r.v => Stage(u)' = Stage(u)
    BY <1>0, <1>1, <1>3, StageAppended DEF Types
  <2>3. /\ ledger' \in Seq(Records)
        /\ DOMAIN ledger' = 1..(Len(ledger) + 1) /\ ledger'[Len(ledger) + 1] = r
        /\ \A i \in 1..Len(ledger) : ledger'[i] = ledger[i]
    BY <1>0, <1>1, <1>3, StageAppended DEF Types
  <2>4. Known' = Known
    BY <2>1, <1>2, <1>3
  <2>5. Stage(v)' = r.to
    BY <2>2, <1>3
  <2> QED
    BY <2>2, <2>3, <2>4, <2>5, <1>3
<1>5. /\ changes' \in Seq(Records) /\ n \in Nat /\ DOMAIN changes = 1..n /\ DOMAIN changes' = 1..(n + 1)
      /\ changes'[n + 1] = r /\ \A i \in 1..n : changes'[i] = changes[i]
  <2>1. changes \in Seq(Records)
    BY <1>0 DEF Types
  <2> QED
    BY <2>1, <1>1, <1>3
<1> HIDE DEF n
<1>19. Demotes(s) <=> TakesOut(r) /\ s.why = "demoted"
  <2>1. job \in Seq(Steps) /\ HeadOnly(job, Moneyed)
    BY <1>0 DEF Types, DemotesFirst
  <2>2. 1 \in DOMAIN job /\ s = job[1]
    BY <2>1
  <2>3. Demotes(s) => r.from \in MONEY_STAGES
    BY <2>1, <2>2 DEF HeadOnly, Moneyed
  <2> QED
    BY <2>3 DEF Demotes, TakesOut
<1>6. /\ due \subseteq due' /\ closed' \subseteq closed
      /\ TakesOut(r) => v \in due' /\ v \notin closed'
  BY <1>1
<1>7. /\ job' \in Seq(Steps) /\ GoodJob(job', Known, due') /\ DemotesFirst'
      /\ \A u : InJob(u, job) => InJob(u, job')
  <2>1. \A u : s # Order(u, "close")
    BY DEF Order
  <2>2. Demotes(Head(job)) => Head(job).v \in due'
    BY <1>6, <1>19
  <2> QED
    BY <2>1, <2>2, <1>1, <1>6, Rest
<1>8. Types'
  <2>1. closed' \subseteq due' /\ due' \subseteq Versions /\ kept' \subseteq due'
    BY <1>0, <1>1, <1>2 DEF Types
  <2> QED
    BY <2>1, <1>0, <1>1, <1>4, <1>5, <1>7 DEF Types
<1>9. Dated'
  <2> SUFFICES ASSUME NEW i \in DOMAIN ledger'
               PROVE  /\ ledger'[i].at <= now'
                      /\ ledger'[i].why = "swapped in" => Parent[ledger'[i].v] \in Known
    BY <1>4 DEF Dated
  <2>1. CASE i = Len(ledger) + 1
    <3>1. now <= now
      BY <1>0, NowIsNat
    <3>2. ledger'[i] = r
      BY <2>1, <1>4
    <3>3. r.at <= now'
      BY <3>1, <1>1, <1>3
    <3>4. r.why = "swapped in" => Parent[r.v] \in Known
      BY <1>2, <1>3
    <3> QED
      BY <3>2, <3>3, <3>4
  <2>2. CASE i # Len(ledger) + 1
    <3>1. ledger \in Seq(Records)
      BY <1>0 DEF Types
    <3>2. i \in 1..Len(ledger) /\ i \in DOMAIN ledger
      BY <2>2, <3>1, <1>4
    <3>3. ledger'[i] = ledger[i]
      BY <3>2, <1>4
    <3> QED
      BY <3>2, <3>3, <1>0, <1>1 DEF Dated
  <2> QED
    BY <2>1, <2>2
<1>10. GoodJob(job, Known, due)'
  BY <1>4, <1>7
<1>11. OrdersDue' /\ \A u : Queued(u) => Queued(u)'
  BY <1>0, <1>1, <1>6 DEF OrdersDue, Queued
<1>12. CloseUnderway'
  <2> SUFFICES ASSUME NEW u \in due' \ (closed' \union kept')
               PROVE  InJob(u, job)' \/ Queued(u)'
    BY DEF CloseUnderway
  <2>1. InJob(u, job) \/ Queued(u)
    <3>1. CASE u \in due \ (closed \union kept)
      BY <3>1, <1>0 DEF CloseUnderway
    <3>2. CASE u \notin due \ (closed \union kept)
      <4>1. Demotes(s) /\ u = v
        BY <3>2, <1>1, <1>19
      <4>2. job \in Seq(Steps) /\ CloseFollows(job)
        BY <1>0 DEF Types, GoodJob
      <4>3. 1 \in DOMAIN job /\ s = job[1]
        BY <4>2
      <4>4. \E b \in DOMAIN job : job[b] = Order(v, "close")
        BY <4>1, <4>2, <4>3 DEF CloseFollows
      <4> QED
        BY <4>1, <4>4 DEF InJob
    <3> QED
      BY <3>1, <3>2
  <2> QED
    BY <2>1, <1>7, <1>11 DEF InJob
<1>13. ClosedAfterChange'
  <2> SUFFICES ASSUME NEW u \in closed', NEW i \in DOMAIN changes'
               PROVE  ~(changes'[i].v = u /\ TakesOut(changes'[i]))
    BY DEF ClosedAfterChange
  <2>1. CASE i = n + 1
    BY <2>1, <1>3, <1>5, <1>6
  <2>2. CASE i # n + 1
    <3>1. i \in DOMAIN changes /\ changes'[i] = changes[i]
      BY <2>2, <1>5
    <3> QED
      BY <3>1, <1>0, <1>6 DEF ClosedAfterChange
  <2> QED
    BY <2>1, <2>2
<1>14. ToldTypes'
  BY <1>0, <1>1, <1>4 DEF ToldTypes
<1>15. ChangesKnown'
  <2> SUFFICES ASSUME NEW i \in DOMAIN changes' PROVE changes'[i].v \in Known
    BY <1>4 DEF ChangesKnown
  <2>1. CASE i = n + 1
    BY <2>1, <1>2, <1>3, <1>5
  <2>2. CASE i # n + 1
    <3>1. i \in DOMAIN changes /\ changes'[i] = changes[i]
      BY <2>2, <1>5
    <3> QED
      BY <3>1, <1>0 DEF ChangesKnown
  <2> QED
    BY <2>1, <2>2
<1>16. Agrees
  <2>1. job # <<Snapshot>>
    BY DEF Snapshot
  <2> QED
    BY <2>1, <1>0, <1>2 DEF Current
<1>17. Agrees'
  <2> SUFFICES ASSUME NEW u \in Known
               PROVE  /\ Unqueued(u)' => Told(u)'
                      /\ \A i \in DOMAIN changes' : LastQueued(u, i)' => changes'[i].to = Stage(u)'
    BY <1>4 DEF Agrees, LastQueued
  <2>1. CASE u = v
    <3>1. ~Unqueued(u)'
      BY <2>1, <1>3, <1>5 DEF Unqueued
    <3>2. ASSUME NEW i \in DOMAIN changes', LastQueued(u, i)' PROVE changes'[i].to = Stage(u)'
      <4>1. i = n + 1
        <5>1. n + 1 \in DOMAIN changes' /\ changes'[n + 1].v = u
          BY <2>1, <1>3, <1>5
        <5>2. ~(n + 1 > i)
          BY <3>2, <5>1 DEF LastQueued
        <5> QED
          BY <5>2, <1>5
      <4> QED
        BY <4>1, <2>1, <1>4, <1>5
    <3> QED
      BY <3>1, <3>2
  <2>2. CASE u # v
    <3>1. Stage(u)' = Stage(u)
      BY <2>2, <1>4
    <3>2. \A i \in DOMAIN changes : i \in DOMAIN changes' /\ changes'[i] = changes[i]
      BY <1>5
    <3>3. Unqueued(u)' => Unqueued(u)
      BY <3>2 DEF Unqueued
    <3>4. Told(u) => Told(u)'
      BY <3>1, <1>1 DEF Told
    <3>5. ASSUME NEW i \in DOMAIN changes', LastQueued(u, i)' PROVE changes'[i].to = Stage(u)'
      <4>1. i # n + 1
        BY <3>5, <2>2, <1>3, <1>5 DEF LastQueued
      <4>2. i \in DOMAIN changes /\ changes'[i] = changes[i]
        BY <4>1, <1>5
      <4>3. LastQueued(u, i)
        BY <3>2, <3>5, <4>2 DEF LastQueued
      <4> QED
        BY <3>1, <4>2, <4>3, <1>16 DEF Agrees
    <3> QED
      BY <3>3, <3>4, <3>5, <1>16 DEF Agrees
  <2> QED
    BY <2>1, <2>2
<1>18. Current' /\ DownIsIdle'
  <2>1. up' = up
    BY <1>1
  <2>2. up
    BY <1>2
  <2> QED
    BY <2>1, <2>2, <1>17, Zenon DEF Current, DownIsIdle
<1> QED
  BY <1>7, <1>8, <1>9, <1>10, <1>11, <1>12, <1>13, <1>14, <1>15, <1>18 DEF IInv

(* BusDemotionActions: the order is queued. *)
LEMMA OrderKeeps ==
    ASSUME IInv, job # <<>>, NEW s, s = Head(job), s.do = "order", DoOrder(s), UNCHANGED <<now, up, crashes>>
    PROVE  IInv'
<1> DEFINE o == [v |-> s.v, close |-> s.to = "close"]
           n == Len(orders)
<1>0. /\ Types /\ Dated /\ GoodJob(job, Known, due) /\ OrdersDue /\ CloseUnderway /\ ClosedAfterChange
      /\ DemotesFirst /\ DownIsIdle /\ ToldTypes /\ ChangesKnown /\ Current
  BY DEF IInv
<1>1. UNCHANGED <<ledger, now, up, crashes, changes, told, due, closed, kept>> /\ Then(<<>>) /\ orders' = Append(orders, o)
  BY DEF DoOrder
<1>2. s.v \in Versions /\ up /\ ~Demotes(s)
  BY HeadNamed DEF Demotes
<1>3. o \in OrderRecords /\ o.v = s.v /\ (o.close <=> s.to = "close")
  BY <1>2 DEF OrderRecords
<1>4. s.to = "close" => o = [v |-> s.v, close |-> TRUE]
  OBVIOUS
<1> HIDE DEF o
<1>5. /\ orders' \in Seq(OrderRecords) /\ n \in Nat /\ DOMAIN orders = 1..n /\ DOMAIN orders' = 1..(n + 1)
      /\ orders'[n + 1] = o /\ \A i \in 1..n : orders'[i] = orders[i]
  <2>1. orders \in Seq(OrderRecords)
    BY <1>0 DEF Types
  <2> QED
    BY <2>1, <1>1, <1>3
<1> HIDE DEF n
<1>6. /\ job' \in Seq(Steps) /\ GoodJob(job', Known, due) /\ DemotesFirst'
      /\ \A v : InJob(v, job) => s = Order(v, "close") \/ InJob(v, job')
  BY <1>1, <1>2, Rest
<1>7. Known' = Known
  BY <1>1, StageKept
<1>8. Types' /\ GoodJob(job, Known, due)'
  BY <1>0, <1>1, <1>5, <1>6, <1>7 DEF Types
<1>9. OrdersDue'
  <2> SUFFICES ASSUME NEW i \in DOMAIN orders', orders'[i].close
               PROVE  orders'[i].v \in due
    BY <1>1 DEF OrdersDue
  <2>1. CASE i = n + 1
    <3>1. s.to = "close"
      BY <2>1, <1>3, <1>5
    <3>2. job \in Seq(Steps) /\ CloseIsDue(job, due)
      BY <1>0 DEF Types, GoodJob
    <3>3. 1 \in DOMAIN job /\ s = job[1] /\ \A a \in DOMAIN job : ~(a < 1)
      BY <3>2
    <3>4. s.v \in due
      BY <3>1, <3>2, <3>3 DEF CloseIsDue
    <3> QED
      BY <2>1, <3>4, <1>3, <1>5
  <2>2. CASE i # n + 1
    <3>1. i \in DOMAIN orders /\ orders'[i] = orders[i]
      BY <2>2, <1>5
    <3> QED
      BY <3>1, <1>0 DEF OrdersDue
  <2> QED
    BY <2>1, <2>2
<1>10. CloseUnderway'
  <2> SUFFICES ASSUME NEW v \in due' \ (closed' \union kept')
               PROVE  InJob(v, job)' \/ Queued(v)'
    BY DEF CloseUnderway
  <2>1. InJob(v, job) \/ Queued(v)
    BY <1>0, <1>1 DEF CloseUnderway
  <2>2. CASE InJob(v, job')
    BY <2>2 DEF InJob
  <2>3. CASE Queued(v)
    <3>1. \A i \in DOMAIN orders : i \in DOMAIN orders' /\ orders'[i] = orders[i]
      BY <1>5
    <3> QED
      BY <2>3, <3>1 DEF Queued
  <2>4. CASE s = Order(v, "close")
    <3>1. s.to = "close" /\ s.v = v
      BY <2>4 DEF Order
    <3>2. n + 1 \in DOMAIN orders' /\ orders'[n + 1] = [v |-> v, close |-> TRUE]
      BY <3>1, <1>4, <1>5
    <3> QED
      BY <3>2 DEF Queued
  <2> QED
    BY <2>1, <2>2, <2>3, <2>4, <1>6
<1>11. ClosedAfterChange' /\ Dated' /\ ToldTypes' /\ ChangesKnown'
  BY <1>0, <1>1, DatedKept, ToldKept DEF ClosedAfterChange
<1>12. Agrees
  <2>1. job # <<Snapshot>>
    BY DEF Snapshot
  <2> QED
    BY <2>1, <1>0, <1>2 DEF Current
<1>13. Current' /\ DownIsIdle'
  <2>1. up' = up
    BY <1>1
  <2>2. up
    BY <1>2
  <2>3. Agrees'
    BY <1>1, <1>12, AgreesKept
  <2> QED
    BY <2>1, <2>2, <2>3, Zenon DEF Current, DownIsIdle
<1> QED
  BY <1>6, <1>8, <1>9, <1>10, <1>11, <1>13 DEF IInv

(* The rest of a sequence. *)
LEMMA RestOfSeq ==
    ASSUME NEW S, NEW q \in Seq(S), q # <<>>
    PROVE  /\ Tail(q) \in Seq(S) /\ Head(q) = q[1] /\ 1 \in DOMAIN q /\ q[1] \in S
           /\ \A i \in DOMAIN Tail(q) : i \in Nat /\ i + 1 \in DOMAIN q /\ Tail(q)[i] = q[i + 1]
           /\ \A i \in DOMAIN q : i \in Nat /\ (i # 1 => i > 1 /\ i - 1 \in DOMAIN Tail(q) /\ Tail(q)[i - 1] = q[i])
<1> DEFINE n == Len(q)
           t == Tail(q)
<1>1. /\ n \in Nat /\ n > 0 /\ DOMAIN q = 1..n /\ t \in Seq(S) /\ DOMAIN t = 1..(n - 1)
      /\ \A i \in 1..(n - 1) : t[i] = q[i + 1]
      /\ Head(q) = q[1] /\ q[1] \in S
  OBVIOUS
<1> HIDE DEF n, t
<1>2. \A i \in DOMAIN t : i \in Nat /\ i + 1 \in DOMAIN q /\ t[i] = q[i + 1]
  BY <1>1
<1>3. ASSUME NEW i \in DOMAIN q, i # 1
      PROVE  i > 1 /\ i - 1 \in DOMAIN t /\ t[i - 1] = q[i]
  <2>1. i \in Nat /\ i > 1 /\ i - 1 \in 1..(n - 1) /\ (i - 1) + 1 = i
    BY <1>1, <1>3
  <2> QED
    BY <2>1, <1>1
<1>4. 1 \in DOMAIN q /\ \A i \in DOMAIN q : i \in Nat
  BY <1>1
<1> QED
  BY <1>1, <1>2, <1>3, <1>4 DEF t

(* flush: a stage change is published. *)
LEMMA PublishChangeKeeps ==
    ASSUME IInv, job # <<>>, Head(job).do = "flush", changes # <<>>, NEW r, r = Head(changes),
           changes' = Tail(changes),
           told' = [v \in {r.v} \union DOMAIN told |-> IF v = r.v THEN r.to ELSE told[v]],
           UNCHANGED <<ledger, now, up, crashes, job, orders, due, closed, kept>>
    PROVE  IInv'
<1>0. /\ Types /\ Dated /\ GoodJob(job, Known, due) /\ OrdersDue /\ CloseUnderway /\ ClosedAfterChange
      /\ DemotesFirst /\ DownIsIdle /\ ToldTypes /\ ChangesKnown /\ Current
  BY DEF IInv
<1>1. /\ changes' \in Seq(Records) /\ r = changes[1] /\ 1 \in DOMAIN changes /\ r \in Records
      /\ \A i \in DOMAIN changes' : i \in Nat /\ i + 1 \in DOMAIN changes /\ changes'[i] = changes[i + 1]
      /\ \A i \in DOMAIN changes :
             i \in Nat /\ (i # 1 => i > 1 /\ i - 1 \in DOMAIN changes' /\ changes'[i - 1] = changes[i])
  BY <1>0, RestOfSeq DEF Types
<1>2. r.v \in Known /\ r.to \in Stages
  BY <1>0, <1>1 DEF ChangesKnown, Records
<1>3. Known' = Known /\ \A v : Stage(v)' = Stage(v)
  BY StageKept
<1>4. /\ DOMAIN told' = {r.v} \union DOMAIN told
      /\ told' = [v \in DOMAIN told' |-> told'[v]]
      /\ \A v \in DOMAIN told' : told'[v] = IF v = r.v THEN r.to ELSE told[v]
  OBVIOUS
<1>5. Types' /\ GoodJob(job, Known, due)' /\ OrdersDue' /\ CloseUnderway'
  BY <1>0, <1>1, <1>3 DEF Types, OrdersDue, CloseUnderway, InJob, Queued
<1>6. ClosedAfterChange' /\ ChangesKnown'
  BY <1>0, <1>1, <1>3 DEF ClosedAfterChange, ChangesKnown
<1>7. ToldTypes'
  BY <1>0, <1>2, <1>3, <1>4 DEF ToldTypes
<1>8. up
  BY HeadNamed
<1>9. Agrees
  <2>1. job # <<Snapshot>>
    BY DEF Snapshot
  <2> QED
    BY <2>1, <1>0, <1>8 DEF Current
<1>10. Agrees'
  <2> SUFFICES ASSUME NEW v \in Known
               PROVE  /\ Unqueued(v)' => Told(v)'
                      /\ \A i \in DOMAIN changes' : LastQueued(v, i)' => changes'[i].to = Stage(v)
    BY <1>3 DEF Agrees, LastQueued
  <2>1. ASSUME NEW i \in DOMAIN changes', LastQueued(v, i)' PROVE changes'[i].to = Stage(v)
    <3>1. i \in Nat /\ i + 1 \in DOMAIN changes /\ changes'[i] = changes[i + 1]
      BY <1>1
    <3>2. ASSUME NEW j \in DOMAIN changes, j > i + 1 PROVE changes[j].v # v
      <4>1. j - 1 \in DOMAIN changes' /\ changes'[j - 1] = changes[j] /\ j - 1 > i
        BY <3>1, <3>2, <1>1
      <4> QED
        BY <4>1, <2>1 DEF LastQueued
    <3>3. LastQueued(v, i + 1)
      BY <3>1, <3>2, <2>1 DEF LastQueued
    <3> QED
      BY <3>1, <3>3, <1>9 DEF Agrees
  <2>2. ASSUME Unqueued(v)' PROVE Told(v)'
    <3>1. ASSUME NEW j \in DOMAIN changes, j # 1 PROVE changes[j].v # v
      <4>1. j - 1 \in DOMAIN changes' /\ changes'[j - 1] = changes[j]
        BY <3>1, <1>1
      <4>2. \A i \in DOMAIN changes' : changes'[i].v # v
        BY <2>2 DEF Unqueued
      <4> QED
        BY <4>1, <4>2
    <3>2. CASE r.v = v
      <4>1. LastQueued(v, 1)
        BY <3>1, <3>2, <1>1 DEF LastQueued
      <4>2. r.to = Stage(v)
        BY <4>1, <1>1, <1>9 DEF Agrees
      <4> QED
        BY <3>2, <4>2, <1>3, <1>4 DEF Told
    <3>3. CASE r.v # v
      <4>1. Unqueued(v)
        BY <3>1, <3>3, <1>1 DEF Unqueued
      <4>2. Told(v)
        BY <4>1, <1>9 DEF Agrees
      <4> QED
        BY <3>3, <4>2, <1>3, <1>4 DEF Told
    <3> QED
      BY <3>2, <3>3
  <2> QED
    BY <2>1, <2>2
<1>11. Current' /\ DownIsIdle'
  <2>1. up' = up
    OBVIOUS
  <2> QED
    BY <2>1, <1>8, <1>10, Zenon DEF Current, DownIsIdle
<1>12. Dated' /\ DemotesFirst'
  BY <1>0, DatedKept, StageKept DEF DemotesFirst
<1> QED
  BY <1>5, <1>6, <1>7, <1>11, <1>12 DEF IInv

(* flush: an order is published, when no stage change is queued. *)
LEMMA PublishOrderKeeps ==
    ASSUME IInv, job # <<>>, Head(job).do = "flush", changes = <<>>, orders # <<>>, NEW o, o = Head(orders),
           orders' = Tail(orders), closed' = IF o.close THEN closed \union {o.v} ELSE closed,
           UNCHANGED <<ledger, now, up, crashes, job, changes, told, due, kept>>
    PROVE  IInv'
<1>0. /\ Types /\ Dated /\ GoodJob(job, Known, due) /\ OrdersDue /\ CloseUnderway /\ ClosedAfterChange
      /\ DemotesFirst /\ DownIsIdle /\ ToldTypes /\ ChangesKnown /\ Current
  BY DEF IInv
<1>1. /\ orders' \in Seq(OrderRecords) /\ o = orders[1] /\ 1 \in DOMAIN orders /\ o \in OrderRecords
      /\ \A i \in DOMAIN orders' : i \in Nat /\ i + 1 \in DOMAIN orders /\ orders'[i] = orders[i + 1]
      /\ \A i \in DOMAIN orders :
             i \in Nat /\ (i # 1 => i > 1 /\ i - 1 \in DOMAIN orders' /\ orders'[i - 1] = orders[i])
  BY <1>0, RestOfSeq DEF Types
<1>2. o.close => o.v \in due
  BY <1>0, <1>1 DEF OrdersDue
<1>3. Known' = Known
  BY StageKept
<1>4. closed' \subseteq due
  BY <1>0, <1>2 DEF Types
<1>5. Types' /\ GoodJob(job, Known, due)'
  BY <1>0, <1>1, <1>3, <1>4 DEF Types
<1>6. OrdersDue'
  BY <1>0, <1>1 DEF OrdersDue
<1>7. CloseUnderway'
  <2> SUFFICES ASSUME NEW v \in due' \ (closed' \union kept')
               PROVE  InJob(v, job)' \/ Queued(v)'
    BY DEF CloseUnderway
  <2>1. v \in due \ (closed \union kept) /\ (o.close => o.v # v)
    OBVIOUS
  <2>2. CASE InJob(v, job)
    BY <2>2 DEF InJob
  <2>3. CASE Queued(v)
    <3>1. PICK i \in DOMAIN orders : orders[i] = [v |-> v, close |-> TRUE]
      BY <2>3 DEF Queued
    <3>2. i # 1
      BY <3>1, <2>1, <1>1
    <3>3. i - 1 \in DOMAIN orders' /\ orders'[i - 1] = [v |-> v, close |-> TRUE]
      BY <3>1, <3>2, <1>1
    <3> QED
      BY <3>3 DEF Queued
  <2> QED
    BY <2>1, <2>2, <2>3, <1>0 DEF CloseUnderway
<1>8. ClosedAfterChange' /\ ChangesKnown'
  BY DEF ClosedAfterChange, ChangesKnown
<1>9. Dated' /\ ToldTypes' /\ DemotesFirst'
  BY <1>0, DatedKept, ToldKept, StageKept DEF DemotesFirst
<1>10. up
  BY HeadNamed
<1>11. Agrees
  <2>1. job # <<Snapshot>>
    BY DEF Snapshot
  <2> QED
    BY <2>1, <1>0, <1>10 DEF Current
<1>12. Current' /\ DownIsIdle'
  <2>1. up' = up
    OBVIOUS
  <2>2. Agrees'
    BY <1>11, AgreesKept
  <2> QED
    BY <2>1, <2>2, <1>10, Zenon DEF Current, DownIsIdle
<1> QED
  BY <1>5, <1>6, <1>7, <1>8, <1>9, <1>12 DEF IInv

LEMMA FlushKeeps ==
    ASSUME IInv, job # <<>>, Head(job).do = "flush", DoFlush, UNCHANGED <<now, up, crashes>>
    PROVE  IInv'
<1>1. CASE changes # <<>>
  <2> DEFINE r == Head(changes)
  <2>1. /\ changes' = Tail(changes)
        /\ told' = [v \in {r.v} \union DOMAIN told |-> IF v = r.v THEN r.to ELSE told[v]]
        /\ UNCHANGED <<ledger, now, up, crashes, job, orders, due, closed, kept>>
    BY <1>1 DEF DoFlush
  <2> QED
    BY <1>1, <2>1, PublishChangeKeeps
<1>2. CASE changes = <<>> /\ orders # <<>>
  <2> DEFINE o == Head(orders)
  <2>1. /\ orders' = Tail(orders) /\ closed' = (IF o.close THEN closed \union {o.v} ELSE closed)
        /\ UNCHANGED <<ledger, now, up, crashes, job, changes, told, due, kept>>
    BY <1>2 DEF DoFlush
  <2> QED
    BY <1>2, <2>1, PublishOrderKeeps
<1>3. CASE changes = <<>> /\ orders = <<>>
  <2>1. Then(<<>>) /\ UNCHANGED <<ledger, now, up, crashes, changes, orders, told, due, closed, kept>>
    BY <1>3 DEF DoFlush
  <2> QED
    BY <2>1, EmptyJob, ExtendKeeps
<1> QED
  BY <1>1, <1>2, <1>3

LEMMA StepKeeps == ASSUME IInv, Step PROVE IInv'
<1> DEFINE s == Head(job)
<1>1. job # <<>> /\ UNCHANGED <<now, up, crashes>>
  BY DEF Step
<1>2. CASE s.do = "evaluate" /\ DoEvaluate(s.v)
  BY <1>1, <1>2, EvaluateKeeps
<1>3. CASE s.do = "reviews" /\ DoReviews
  BY <1>1, <1>3, ReviewsKeep
<1>4. CASE s.do = "review" /\ DoReview(s.v)
  BY <1>1, <1>4, ReviewKeeps
<1>5. CASE s.do = "record" /\ DoRecord(s)
  BY <1>1, <1>5, RecordKeeps
<1>6. CASE s.do = "order" /\ DoOrder(s)
  BY <1>1, <1>6, OrderKeeps
<1>7. CASE s.do = "rollback" /\ DoRollback(s.v)
  BY <1>1, <1>7, RollbackKeeps
<1>8. CASE s.do = "flush" /\ DoFlush
  BY <1>1, <1>8, FlushKeeps
<1>9. CASE s.do = "snapshot" /\ DoSnapshot
  BY <1>1, <1>9, SnapshotKeeps
<1> QED
  BY <1>2, <1>3, <1>4, <1>5, <1>6, <1>7, <1>8, <1>9 DEF Step

-----------------------------------------------------------------------------
(* What starts a handler, and what happens between them. *)
LEMMA StartsKeep ==
    ASSUME IInv, NEW s \in Seq(Steps), GoodJob(s, Known, due), HeadOnly(s, Moneyed), Starts(s)
    PROVE  IInv'
<1>0. /\ Types /\ Dated /\ GoodJob(job, Known, due) /\ OrdersDue /\ CloseUnderway /\ ClosedAfterChange
      /\ DemotesFirst /\ DownIsIdle /\ ToldTypes /\ ChangesKnown /\ Current
  BY DEF IInv
<1>1. /\ up /\ job = <<>> /\ job' = s
      /\ UNCHANGED <<ledger, now, up, crashes, changes, orders, told, due, closed, kept>>
  BY DEF Starts
<1>2. Known' = Known /\ DemotesFirst'
  BY <1>1, StageKept DEF DemotesFirst
<1>3. Types' /\ GoodJob(job, Known, due)'
  BY <1>0, <1>1, <1>2 DEF Types
<1>4. CloseUnderway' /\ OrdersDue' /\ ClosedAfterChange'
  BY <1>0, <1>1, OrdersKept DEF CloseUnderway, ClosedAfterChange, InJob
<1>5. Dated' /\ ToldTypes' /\ ChangesKnown'
  BY <1>0, <1>1, DatedKept, ToldKept
<1>6. Agrees'
  <2>1. Agrees
    BY <1>0, <1>1 DEF Current
  <2> QED
    BY <2>1, <1>1, AgreesKept
<1>7. Current' /\ DownIsIdle'
  <2>1. up' = up /\ up
    BY <1>1
  <2> QED
    BY <2>1, <1>6, Zenon DEF Current, DownIsIdle
<1> QED
  BY <1>2, <1>3, <1>4, <1>5, <1>7 DEF IInv

LEMMA HourlyKeeps == ASSUME IInv, Hourly PROVE IInv'
<1> DEFINE e == [i \in DOMAIN InOrder |-> Evaluate(InOrder[i])]
           r == <<Reviews, FlushAll, Snapshot>>
           n == Cardinality(Submissions)
<1>1. ledger \in Seq(Records)
  BY DEF IInv, Types
<1>2. Submissions \in SUBSET DOMAIN ledger /\ InOrder = Listed(Submissions)
  BY DEF Submissions, InOrder
<1>3. n \in Nat /\ DOMAIN InOrder = 1..n /\ \A i \in 1..n : InOrder[i] \in Known
  BY <1>1, <1>2, ListedKnown
<1>4. e = [i \in 1..n |-> e[i]] /\ \A i \in 1..n : e[i] = Evaluate(InOrder[i])
  BY <1>3
<1>5. Starts(e \o r)
  BY DEF Hourly
<1> HIDE DEF e, n
<1>6. e \in Seq(Steps) /\ GoodJob(e, Known, due) /\ HeadOnly(e, Moneyed)
  BY <1>1, <1>3, <1>4, ReviewsGood
<1>7. r \in Seq(Steps) /\ \A a \in DOMAIN r : r[a] = Reviews \/ r[a] = FlushAll \/ r[a] = Snapshot
  BY StepTypes
<1> HIDE DEF r
<1>8. \A a \in DOMAIN r : r[a].do \in {"reviews", "flush", "snapshot"}
  BY <1>7 DEF Reviews, FlushAll, Snapshot
<1>9. Named(r, Known) /\ \A a \in DOMAIN r : r[a].do # "order" /\ ~Demotes(r[a])
  BY <1>8 DEF Named, Demotes
<1>10. GoodJob(r, Known, due)
  BY <1>9, PlainJob
<1>11. e \o r \in Seq(Steps) /\ GoodJob(e \o r, Known, due) /\ HeadOnly(e \o r, Moneyed)
  BY <1>6, <1>7, <1>9, <1>10, JobExtended, HeadExtended
<1> QED
  BY <1>5, <1>11, StartsKeep

LEMMA OnTradeKeeps == ASSUME IInv, OnTrade PROVE IInv'
<1>1. PICK v \in Known : Starts(<<Evaluate(v), FlushAll>>)
  BY DEF OnTrade
<1> DEFINE j == <<Evaluate(v), FlushAll>>
<1>2. Evaluate(v) \in Steps /\ FlushAll \in Steps
  BY KnownVersions, StepTypes DEF IInv, Types
<1>3. j \in Seq(Steps) /\ \A a \in DOMAIN j : j[a] = Evaluate(v) \/ j[a] = FlushAll
  BY <1>2
<1> HIDE DEF j
<1>4. \A a \in DOMAIN j : j[a].do \in {"evaluate", "flush"} /\ (j[a].do = "evaluate" => j[a].v \in Known)
  BY <1>3 DEF Evaluate, FlushAll
<1>5. Named(j, Known) /\ \A a \in DOMAIN j : j[a].do # "order" /\ ~Demotes(j[a])
  BY <1>4 DEF Named, Demotes
<1>6. GoodJob(j, Known, due) /\ HeadOnly(j, Moneyed)
  BY <1>5, PlainJob
<1> QED
  BY <1>1, <1>3, <1>6, StartsKeep DEF j

LEMMA PaperTradeKeeps == ASSUME IInv, PaperTrade PROVE IInv'
<1>1. PICK v \in Known, to \in {"demo_only", "shadow"} : Starts(<<Record(v, to, "owner"), FlushAll>>)
  BY DEF PaperTrade
<1>2. ledger \in Seq(Records) /\ to \in Stages /\ "owner" \in Reasons
  BY DEF IInv, Types, Stages, Reasons
<1>3. Harmless(Record(v, to, "owner"), Known)
  BY <1>2, HarmlessRecord
<1>4. /\ <<Record(v, to, "owner"), FlushAll>> \in Seq(Steps)
      /\ GoodJob(<<Record(v, to, "owner"), FlushAll>>, Known, due)
      /\ HeadOnly(<<Record(v, to, "owner"), FlushAll>>, Moneyed)
  BY <1>3, RecordAndFlush
<1> QED
  BY <1>1, <1>4, StartsKeep

(* An operation while the service is down: nothing is queued, and the snapshot is to come. *)
LEMMA OfflineKeeps ==
    ASSUME IInv, NEW r \in Records, r.at = now, r.why # "swapped in", Offline(r)
    PROVE  IInv'
<1>0. /\ Types /\ Dated /\ GoodJob(job, Known, due) /\ OrdersDue /\ CloseUnderway /\ ClosedAfterChange
      /\ DemotesFirst /\ DownIsIdle /\ ToldTypes /\ ChangesKnown /\ Current
  BY DEF IInv
<1>1. /\ ~up /\ ledger' = Append(ledger, r)
      /\ UNCHANGED <<now, up, crashes, job, changes, orders, told, due, closed, kept>>
  BY DEF Offline
<1>2. /\ ledger' \in Seq(Records) /\ ledger \in Seq(Records)
      /\ DOMAIN ledger' = 1..(Len(ledger) + 1) /\ ledger'[Len(ledger) + 1] = r
      /\ \A i \in 1..Len(ledger) : ledger'[i] = ledger[i]
      /\ Known' = Known \union {r.v}
  BY <1>0, <1>1, StageAppended DEF Types
<1>3. Types' /\ OrdersDue' /\ ClosedAfterChange'
  BY <1>0, <1>1, <1>2, OrdersKept DEF Types, ClosedAfterChange
<1>4. CloseUnderway'
  BY <1>0, <1>1 DEF CloseUnderway, InJob, Queued
<1>5. GoodJob(job, Known, due)'
  <2>1. Known \subseteq Known'
    BY <1>2
  <2>2. GoodJob(job, Known', due)
    BY <2>1, <1>0, GoodGrows
  <2> QED
    BY <2>2, <1>1
<1>6. Dated'
  <2> SUFFICES ASSUME NEW i \in DOMAIN ledger'
               PROVE  /\ ledger'[i].at <= now'
                      /\ ledger'[i].why = "swapped in" => Parent[ledger'[i].v] \in Known'
    BY DEF Dated
  <2>1. CASE i = Len(ledger) + 1
    <3>0. now \in Nat
      BY <1>0, NowIsNat
    <3>1. now <= now
      BY <3>0, AtMostItself, Zenon
    <3> QED
      BY <2>1, <3>1, <1>1, <1>2
  <2>2. CASE i # Len(ledger) + 1
    <3>0. ledger \in Seq(Records) /\ i \in 1..(Len(ledger) + 1)
      BY <1>2
    <3>1. i \in 1..Len(ledger) /\ i \in DOMAIN ledger
      BY <2>2, <3>0, NewOrOld, Zenon
    <3>2. ledger'[i] = ledger[i]
      BY <3>1, <1>2
    <3> QED
      BY <3>1, <3>2, <1>0, <1>1, <1>2 DEF Dated
  <2> QED
    BY <2>1, <2>2
<1>7. ToldTypes' /\ ChangesKnown'
  BY <1>0, <1>1, <1>2 DEF ToldTypes, ChangesKnown
<1>8. Current' /\ DownIsIdle'
  <2>1. ~up'
    BY <1>1, Zenon
  <2>2. job' = <<>> /\ changes' = <<>>
    BY <1>0, <1>1 DEF DownIsIdle
  <2> QED
    BY <2>1, <2>2, Zenon DEF Current, DownIsIdle
<1>9. DemotesFirst'
  <2>1. job' = <<>>
    BY <1>0, <1>1 DEF DownIsIdle
  <2>2. HeadOnly(job', Moneyed')
    BY <2>1, EmptyJob
  <2> QED
    BY <2>2 DEF DemotesFirst
<1> QED
  BY <1>3, <1>4, <1>5, <1>6, <1>7, <1>8, <1>9 DEF IInv

LEMMA SubmitKeeps == ASSUME IInv, SubmitCandidate PROVE IInv'
<1>1. PICK v \in Versions \ Known, why \in {"submitted", "submitted with profile"} :
          Offline([v |-> v, from |-> "none", to |-> "candidate", at |-> now, why |-> why])
  BY DEF SubmitCandidate
<1> DEFINE r == [v |-> v, from |-> "none", to |-> "candidate", at |-> now, why |-> why]
<1>2. now \in Nat /\ "candidate" \in Stages /\ why \in Reasons
  BY NowIsNat DEF IInv, Stages, Reasons
<1>3. r \in Records /\ r.at = now /\ r.why # "swapped in"
  BY <1>2 DEF Records
<1> QED
  BY <1>1, <1>3, OfflineKeeps

LEMMA TransitionKeeps == ASSUME IInv, Transition PROVE IInv'
<1>1. PICK v \in Known, to \in Stages :
          Offline([v |-> v, from |-> Stage(v), to |-> to, at |-> now, why |-> "owner"])
  BY DEF Transition
<1> DEFINE r == [v |-> v, from |-> Stage(v), to |-> to, at |-> now, why |-> "owner"]
<1>2. now \in Nat /\ "owner" \in Reasons /\ Stage(v) \in Stages /\ v \in Versions
  BY NowIsNat, LatestIsRecord DEF IInv, Types, Reasons
<1>3. r \in Records /\ r.at = now /\ r.why # "swapped in"
  BY <1>2 DEF Records
<1> QED
  BY <1>1, <1>3, OfflineKeeps

LEMMA CrashKeeps == ASSUME IInv, Crash PROVE IInv'
<1>0. Types /\ Dated /\ ToldTypes
  BY DEF IInv
<1>1. /\ up' = FALSE /\ crashes' \in 0..MaxCrashes
      /\ job' = <<>> /\ changes' = <<>> /\ orders' = <<>> /\ due' = {} /\ closed' = {} /\ kept' = {}
      /\ ledger' = ledger /\ now' = now /\ told' = told
  <2>1. MaxCrashes \in Nat
    BY LifecycleAssumption
  <2>2. crashes' \in 0..MaxCrashes
    BY <1>0, <2>1 DEF Crash, Types
  <2> QED
    BY <2>2 DEF Crash
<1>2. Types'
  <2>1. <<>> \in Seq(Steps) /\ <<>> \in Seq(Records) /\ <<>> \in Seq(OrderRecords)
    OBVIOUS
  <2>2. job' \in Seq(Steps) /\ changes' \in Seq(Records) /\ orders' \in Seq(OrderRecords)
    BY <2>1, <1>1
  <2>3. due' \subseteq Versions /\ closed' \subseteq due' /\ kept' \subseteq due'
    BY <1>1
  <2>4. ledger' \in Seq(Records) /\ now' \in 0..MaxTime
    BY <1>0, <1>1 DEF Types
  <2>5. up' \in BOOLEAN
    BY <1>1, Zenon
  <2> QED
    BY <2>2, <2>3, <2>4, <2>5, <1>1, Zenon DEF Types
<1>3. GoodJob(job, Known, due)'
  BY <1>1, EmptyJob
<1>4. Dated' /\ ToldTypes'
  BY <1>0, <1>1, StageKept DEF Dated, ToldTypes
<1>5. OrdersDue' /\ CloseUnderway' /\ ClosedAfterChange' /\ ChangesKnown' /\ DemotesFirst'
  BY <1>1 DEF OrdersDue, CloseUnderway, ClosedAfterChange, ChangesKnown, DemotesFirst, HeadOnly
<1>6. Current' /\ DownIsIdle'
  BY <1>1 DEF Current, DownIsIdle
<1> QED
  BY <1>2, <1>3, <1>4, <1>5, <1>6 DEF IInv

LEMMA StartKeeps == ASSUME IInv, Start PROVE IInv'
<1>0. /\ Types /\ Dated /\ GoodJob(job, Known, due) /\ OrdersDue /\ CloseUnderway /\ ClosedAfterChange
      /\ DemotesFirst /\ DownIsIdle /\ ToldTypes /\ ChangesKnown /\ Current
  BY DEF IInv
<1>1. /\ ~up /\ up' = TRUE /\ job' = <<Snapshot>>
      /\ UNCHANGED <<ledger, now, crashes, changes, orders, told, due, closed, kept>>
  BY DEF Start
<1>2. job = <<>> /\ changes = <<>>
  BY <1>0, <1>1 DEF DownIsIdle
<1>3. <<Snapshot>> \in Seq(Steps) /\ \A a \in DOMAIN <<Snapshot>> : <<Snapshot>>[a] = Snapshot
  BY StepTypes
<1>4. \A K, D : GoodJob(<<Snapshot>>, K, D) /\ HeadOnly(<<Snapshot>>, K)
  <2> SUFFICES ASSUME NEW K, NEW D PROVE GoodJob(<<Snapshot>>, K, D) /\ HeadOnly(<<Snapshot>>, K)
    OBVIOUS
  <2>1. Snapshot.do = "snapshot" /\ ~Demotes(Snapshot)
    BY DEF Snapshot, Demotes
  <2>2. Named(<<Snapshot>>, K)
    BY <1>3, <2>1 DEF Named
  <2> QED
    BY <1>3, <2>1, <2>2, PlainJob
<1>5. Types' /\ GoodJob(job, Known, due)' /\ DemotesFirst'
  <2>1. Types' /\ GoodJob(job, Known, due)'
    BY <1>0, <1>1, <1>3, <1>4 DEF Types
  <2> QED
    BY <2>1, <1>1, <1>4 DEF DemotesFirst
<1>6. CloseUnderway'
  BY <1>0, <1>1, <1>2 DEF CloseUnderway, InJob, Queued
<1>7. OrdersDue' /\ ClosedAfterChange' /\ Dated' /\ ToldTypes' /\ ChangesKnown'
  BY <1>0, <1>1, OrdersKept, DatedKept, ToldKept DEF ClosedAfterChange
<1>8. Current' /\ DownIsIdle'
  BY <1>1, <1>2 DEF Current, DownIsIdle
<1> QED
  BY <1>5, <1>6, <1>7, <1>8 DEF IInv

(* Time passes, or nothing happens. *)
LEMMA OthersKeep == ASSUME IInv, Tick \/ UNCHANGED vars PROVE IInv'
<1>0. /\ Types /\ Dated /\ GoodJob(job, Known, due) /\ OrdersDue /\ CloseUnderway /\ ClosedAfterChange
      /\ DemotesFirst /\ DownIsIdle /\ ToldTypes /\ ChangesKnown /\ Current
  BY DEF IInv
<1>1. /\ UNCHANGED <<ledger, up, crashes, job, changes, orders, told, due, closed, kept>>
      /\ now' \in 0..MaxTime /\ now <= now'
  <2>1. MaxTime \in Nat /\ now \in 0..MaxTime
    BY <1>0, LifecycleAssumption DEF Types
  <2>2. CASE Tick
    BY <2>1, <2>2 DEF Tick
  <2>3. CASE UNCHANGED vars
    BY <2>1, <2>3 DEF vars
  <2> QED
    BY <2>2, <2>3
<1>2. Known' = Known /\ DemotesFirst'
  BY <1>0, <1>1, StageKept DEF DemotesFirst
<1>3. Types' /\ GoodJob(job, Known, due)'
  BY <1>0, <1>1, <1>2 DEF Types
<1>4. Dated'
  <2> SUFFICES ASSUME NEW i \in DOMAIN ledger PROVE ledger[i].at <= now'
    BY <1>0, <1>1, <1>2 DEF Dated
  <2>0. ledger \in Seq(Records)
    BY <1>0 DEF Types
  <2>3. ledger[i] \in Records
    BY <2>0
  <2>1. ledger[i] \in Records /\ ledger[i].at <= now
    BY <2>3, <1>0 DEF Dated
  <2>2. ledger[i].at \in Nat /\ now \in Nat
    BY <2>1, <1>0, NowIsNat DEF Records
  <2> QED
    BY <2>1, <2>2, <1>1
<1>5. CloseUnderway' /\ OrdersDue' /\ ClosedAfterChange' /\ ToldTypes' /\ ChangesKnown'
  BY <1>0, <1>1, OrdersKept, ToldKept DEF CloseUnderway, ClosedAfterChange, InJob
<1>6. Current' /\ DownIsIdle'
  <2>1. up' = up /\ job' = job /\ changes' = changes
    BY <1>1
  <2>2. Agrees => Agrees'
    BY <1>1, AgreesKept
  <2> QED
    BY <2>1, <2>2, <1>0, Zenon DEF Current, DownIsIdle
<1> QED
  BY <1>2, <1>3, <1>4, <1>5, <1>6 DEF IInv

LEMMA InitInv == Init => IInv
<1> SUFFICES ASSUME Init PROVE IInv
  OBVIOUS
<1>1. /\ now = 0 /\ up = FALSE /\ crashes = 0 /\ job = <<>> /\ changes = <<>> /\ orders = <<>> /\ told = <<>>
      /\ due = {} /\ closed = {} /\ kept = {} /\ ledger \in StartLedgers
  BY DEF Init
<1>2. /\ ledger \in Seq(Records)
      /\ \A i \in DOMAIN ledger :
            /\ ledger[i].at = 0
            /\ ledger[i].why = "swapped in" => \E j \in DOMAIN ledger : ledger[j].v = Parent[ledger[i].v]
  BY <1>1, LifecycleAssumption
<1>3. MaxTime \in Nat /\ MaxCrashes \in Nat
  BY LifecycleAssumption
<1>4. Types
  <2>1. <<>> \in Seq(Steps) /\ <<>> \in Seq(Records) /\ <<>> \in Seq(OrderRecords)
    OBVIOUS
  <2>2. job \in Seq(Steps) /\ changes \in Seq(Records) /\ orders \in Seq(OrderRecords)
    BY <2>1, <1>1
  <2>3. due \subseteq Versions /\ closed \subseteq due /\ kept \subseteq due
    BY <1>1
  <2>4. now \in 0..MaxTime /\ crashes \in 0..MaxCrashes
    BY <1>1, <1>3
  <2>5. up \in BOOLEAN
    BY <1>1, Zenon
  <2> QED
    BY <2>2, <2>3, <2>4, <2>5, <1>2, Zenon DEF Types
<1>5. Dated
  <2> SUFFICES ASSUME NEW i \in DOMAIN ledger
               PROVE  /\ ledger[i].at <= now
                      /\ ledger[i].why = "swapped in" => Parent[ledger[i].v] \in Known
    BY DEF Dated
  <2>1. ledger[i].at <= now
    <3>1. ledger[i].at = 0
      BY <1>2
    <3>2. 0 <= 0
      OBVIOUS
    <3> QED
      BY <3>1, <3>2, <1>1
  <2>2. ASSUME ledger[i].why = "swapped in" PROVE Parent[ledger[i].v] \in Known
    BY <2>2, <1>2 DEF Known
  <2> QED
    BY <2>1, <2>2
<1>6. GoodJob(job, Known, due)
  BY <1>1, EmptyJob
<1>7. OrdersDue /\ CloseUnderway /\ ClosedAfterChange /\ DownIsIdle /\ ChangesKnown /\ Current /\ DemotesFirst
  BY <1>1 DEF OrdersDue, CloseUnderway, ClosedAfterChange, DownIsIdle, ChangesKnown, Current, DemotesFirst, HeadOnly
<1>8. ToldTypes
  <2>1. DOMAIN told = {}
    BY <1>1
  <2>2. told = [v \in DOMAIN told |-> told[v]]
    BY <1>1
  <2> QED
    BY <2>1, <2>2 DEF ToldTypes
<1> QED
  BY <1>4, <1>5, <1>6, <1>7, <1>8 DEF IInv

LEMMA Inductive == IInv /\ [Next]_vars => IInv'
<1> SUFFICES ASSUME IInv, [Next]_vars PROVE IInv'
  OBVIOUS
<1> QED
  BY StepKeeps, HourlyKeeps, OnTradeKeeps, PaperTradeKeeps, SubmitKeeps, TransitionKeeps, CrashKeeps, StartKeeps,
     OthersKeep DEF Next

LEMMA Invariant == Spec => []IInv
  BY InitInv, Inductive, PTL DEF Spec

-----------------------------------------------------------------------------
(* Whatever the ledger holds and whatever a handler was doing when it raised or the process died: records, steps
   and orders are those of the registry's versions, and what the others were told of is a stage. *)
THEOREM LifecycleTypesHold == Spec => []LifecycleTypeOK
<1>1. IInv => LifecycleTypeOK
  <2> SUFFICES ASSUME IInv PROVE LifecycleTypeOK
    OBVIOUS
  <2>1. Types /\ ToldTypes
    BY DEF IInv
  <2>2. \A i \in DOMAIN ledger : ledger[i] \in Records
    BY <2>1 DEF Types
  <2> QED
    BY <2>1, <2>2 DEF LifecycleTypeOK, Types, ToldTypes, Records
<1> QED
  BY <1>1, Invariant, PTL

(* A version that a demotion takes out of the money has its positions closed: when no handler runs, its close order is
   queued or was published, also when the rollback after the demotion raised; excepted are a champion swapped out and a
   challenger that the rollback takes out after a demotion that left it money.  And no close order goes out before the
   change, whatever its reason, that took the version out of the money (evaluator.py, _demote, _act and _maybe_rollback;
   registry.py, swap and rollback; service.py, flush). *)
THEOREM DemotedVersionsAreClosed == Spec => []DemotedIsClosed
<1>1. IInv => DemotedIsClosed
  <2> SUFFICES ASSUME IInv PROVE DemotedIsClosed
    OBVIOUS
  <2>1. ASSUME job = <<>>, NEW v \in due \ (closed \union kept)
        PROVE  Contains(orders, [v |-> v, close |-> TRUE])
    <3>1. ~InJob(v, job)
      BY <2>1 DEF InJob
    <3>2. Queued(v)
      BY <2>1, <3>1 DEF IInv, CloseUnderway
    <3>3. DOMAIN orders = 1..Len(orders)
      BY DEF IInv, Types
    <3> QED
      BY <3>2, <3>3 DEF Queued, Contains
  <2>2. ClosedAfterChange
    BY DEF IInv
  <2> QED
    BY <2>1, <2>2 DEF DemotedIsClosed, ClosedAfterChange
<1> QED
  BY <1>1, Invariant, PTL

(* Whatever a crash or an exception lost between a stage's change and its publication: while no handler runs and no
   change is queued, the other services know exactly the stages that the registry replays from its ledger (service.py,
   flush and publish_snapshot). *)
THEOREM StagesAreTold == Spec => []StagesTold
<1>1. IInv => StagesTold
  <2> SUFFICES ASSUME IInv, up, job = <<>>, changes = <<>> PROVE told = StageMap
    BY DEF StagesTold
  <2>1. Agrees
    BY DEF IInv, Current
  <2>2. \A v \in Known : Told(v)
    BY <2>1 DEF Agrees, Unqueued
  <2>3. told = [v \in DOMAIN told |-> told[v]] /\ DOMAIN told \subseteq Known
    BY DEF IInv, ToldTypes
  <2>4. DOMAIN told = Known /\ \A v \in Known : told[v] = Stage(v)
    BY <2>2, <2>3 DEF Told
  <2> QED
    BY <2>3, <2>4 DEF StageMap
<1> QED
  BY <1>1, Invariant, PTL
===============================================================================
