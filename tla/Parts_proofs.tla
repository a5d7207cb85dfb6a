----------------------------- MODULE Parts_proofs -----------------------------
(***************************************************************************)
(* Theorems about the small parts of the system that share no state with   *)
(* each other.  Each part is an instance under the names of its own        *)
(* constants and variables, so that what is proved of it here is proved of *)
(* its module.                                                             *)
(***************************************************************************)
EXTENDS Integers, Sequences, FiniteSetTheorems, WellFoundedInduction, TLAPS

CONSTANTS Services, Orders, Ours, Timeout, None, MaxTime, MaxRestarts

VARIABLES now, startedAt, lastBeat, tripped, cancelDone, entries, cancelled, passing, todo, refused, late, restarts

Dog == INSTANCE Watchdog

CONSTANTS Writers, Stores, MaxAppends, MaxCrashes

VARIABLES store, file, holder, prev, tail, hashes, crashes

Chain == INSTANCE Ledger

CONSTANTS MaxAge, MinInterval, Week

VARIABLES fetchedAt, export, lastTry, cache, writing, dead, fetches

Events == INSTANCE Calendar

CONSTANTS Signals, Shadow, Horizon, MaxBars

VARIABLES bars, made, signals, decisions, open, intents, out, trades, given

Journalled == INSTANCE SignalJournal

CONSTANTS Markets, Costs, Gaps, MinFills, Weeks, MaxWeeks, MaxFills

VARIABLES fills, registry

Costed == INSTANCE CostModel

CONSTANTS Versions, Family, Epochs, MaxPerFamily, Candidates, MaxWindows, Variants, Pairs, MinPairs, MaxRuns

VARIABLES ledger, run, reports, seen, runs

Validated == INSTANCE Validation

CONSTANTS Rounds, MaxCalls, MaxPosts, MaxSaves

VARIABLES disk, reply, calls, saving, kept, known, count, crossed, resaved

Talk == INSTANCE Assistant

CONSTANTS Equities, Pause, Resume, Day, Close, MaxTrades, MaxHalts, MaxLate

VARIABLES time, account, peak, dayStart, halts, rolled, paused, judged, truePeak, last, started, haltsTold, haltsRead

Watched == INSTANCE Monitor

CONSTANTS Tracks, Free, Setups, Answers, Bids, Spread, MinRR, MaxStop, Window, FreeEvery, MaxWall

VARIABLES wall, trading, held, bid, asking, lastFree, asked, sent

Claude == INSTANCE AiTrader

-----------------------------------------------------------------------------
(* Watchdog.  The argument: while a pass runs, what rests of the system's orders is still to be
   cancelled, was refused or came after the list was asked for; so it is when the list is empty; and
   no order comes back once it is gone.  A service that is newly lost makes the pass owed again, and
   only then is the history of the last one given up. *)

(* What an entry can be, and that a flag is one. *)
OutageTypes ==
    /\ entries \in [Orders -> {"unsent", "resting", "gone"}]
    /\ cancelDone \in BOOLEAN

(* What the watchdog cancelled is the system's, and does not come back. *)
CancelledGone ==
    /\ todo \subseteq Ours
    /\ \A o \in cancelled : o \in Orders /\ o \in Ours /\ entries[o] = "gone"

(* A pass has not forgotten any order. *)
PassCovers == passing => Dog!Resting \intersect Ours \subseteq todo \union refused \union late

(* A pass that is done has not left any order. *)
DoneCovers == tripped # {} /\ cancelDone => Dog!Resting \intersect Ours \subseteq refused \union late

OutageInv == OutageTypes /\ CancelledGone /\ PassCovers /\ DoneCovers

-----------------------------------------------------------------------------
LEMMA OutageInit == Dog!Init => OutageInv
  BY DEF Dog!Init, OutageInv, OutageTypes, CancelledGone, PassCovers, DoneCovers, Dog!Resting

(* A check that owes a pass does not call it done, and one that owes none keeps what the last one left. *)
LEMMA CheckKeeps ==
    ASSUME OutageInv, NEW b \in BOOLEAN, Dog!Check(b)
    PROVE  OutageInv'
<1>1. OutageTypes' /\ CancelledGone'
  BY DEF Dog!Check, OutageInv, OutageTypes, CancelledGone, Dog!Resting
<1>2. Dog!Resting' = Dog!Resting
  BY DEF Dog!Check, Dog!Resting
<1>3. PassCovers'
  BY <1>2 DEF Dog!Check, PassCovers
<1>4. DoneCovers'
  <2> SUFFICES ASSUME tripped' # {}, cancelDone'
               PROVE  Dog!Resting \intersect Ours \subseteq refused' \union late'
    BY <1>2 DEF DoneCovers
  <2>1. cancelDone /\ Dog!Silent # {} /\ Dog!Silent \subseteq tripped
    BY DEF Dog!Check, OutageInv, OutageTypes
  <2>2. ~Dog!Owed(Dog!Silent)
    BY <2>1 DEF Dog!Owed
  <2>3. refused' = refused /\ late' = late
    BY <2>2 DEF Dog!Check
  <2> QED
    BY <2>1, <2>3 DEF OutageInv, DoneCovers
<1> QED
  BY <1>1, <1>3, <1>4 DEF OutageInv

(* An order leaves the list when it is cancelled or refused. *)
LEMMA CancelKeeps ==
    ASSUME OutageInv, NEW o \in Orders, Dog!Cancel(o)
    PROVE  OutageInv'
<1> USE DEF Dog!Cancel, Dog!dogVars
<1>1. CASE /\ o \in Dog!Resting
           /\ entries' = [entries EXCEPT ![o] = "gone"] /\ cancelled' = cancelled \union {o}
           /\ UNCHANGED refused
  <2>1. Dog!Resting' = Dog!Resting \ {o}
    BY <1>1 DEF OutageInv, OutageTypes, Dog!Resting
  <2>2. OutageTypes' /\ CancelledGone'
    BY <1>1 DEF OutageInv, OutageTypes, CancelledGone
  <2> QED
    BY <1>1, <2>1, <2>2 DEF OutageInv, PassCovers, DoneCovers
<1>2. CASE refused' = refused \union {o} /\ UNCHANGED <<entries, cancelled>>
  <2>1. Dog!Resting' = Dog!Resting
    BY <1>2 DEF Dog!Resting
  <2>2. OutageTypes' /\ CancelledGone'
    BY <1>2 DEF OutageInv, OutageTypes, CancelledGone
  <2> QED
    BY <1>2, <2>1, <2>2 DEF OutageInv, PassCovers, DoneCovers
<1> QED
  BY <1>1, <1>2

(* A pass that breaks off is not done. *)
LEMMA UnreachableKeeps ==
    ASSUME OutageInv, NEW o \in Orders, Dog!Unreachable(o)
    PROVE  OutageInv'
<1>1. Dog!Resting' \subseteq Dog!Resting
  BY DEF Dog!Unreachable, OutageInv, OutageTypes, Dog!Resting
<1>2. OutageTypes' /\ CancelledGone'
  BY DEF Dog!Unreachable, Dog!dogVars, OutageInv, OutageTypes, CancelledGone
<1>3. PassCovers' /\ DoneCovers'
  BY <1>1 DEF Dog!Unreachable, Dog!dogVars, OutageInv, PassCovers, DoneCovers
<1> QED
  BY <1>2, <1>3 DEF OutageInv

(* A new order is a late one. *)
LEMMA PlaceKeeps ==
    ASSUME OutageInv, NEW o \in Orders, Dog!Place(o)
    PROVE  OutageInv'
<1>1. Dog!Resting' = Dog!Resting \union {o}
  BY DEF Dog!Place, OutageInv, OutageTypes, Dog!Resting
<1>2. OutageTypes' /\ CancelledGone'
  BY DEF Dog!Place, Dog!dogVars, Dog!passVars, OutageInv, OutageTypes, CancelledGone
<1>3. PassCovers' /\ DoneCovers'
  BY <1>1 DEF Dog!Place, Dog!dogVars, Dog!passVars, OutageInv, PassCovers, DoneCovers
<1> QED
  BY <1>2, <1>3 DEF OutageInv

LEMMA LeavesKeeps ==
    ASSUME OutageInv, NEW o \in Orders, Dog!Leaves(o)
    PROVE  OutageInv'
<1>1. Dog!Resting' \subseteq Dog!Resting
  BY DEF Dog!Leaves, OutageInv, OutageTypes, Dog!Resting
<1>2. OutageTypes' /\ CancelledGone'
  BY DEF Dog!Leaves, Dog!dogVars, Dog!passVars, OutageInv, OutageTypes, CancelledGone
<1>3. PassCovers' /\ DoneCovers'
  BY <1>1 DEF Dog!Leaves, Dog!dogVars, Dog!passVars, OutageInv, PassCovers, DoneCovers
<1> QED
  BY <1>2, <1>3 DEF OutageInv

(* The end of a pass: nothing is left to do. *)
LEMMA DoneKeeps == ASSUME OutageInv, Dog!Done PROVE OutageInv'
<1>1. Dog!Resting' = Dog!Resting
  BY DEF Dog!Done, Dog!Resting
<1> QED
  BY <1>1 DEF Dog!Done, OutageInv, OutageTypes, CancelledGone, PassCovers, DoneCovers

(* After a restart nobody is known to be lost, and no pass runs. *)
LEMMA RestartKeeps == ASSUME OutageInv, Dog!Restart PROVE OutageInv'
  BY DEF Dog!Restart, OutageInv, OutageTypes, CancelledGone, PassCovers, DoneCovers

(* Time and heartbeats do not touch the orders. *)
LEMMA OthersKeep ==
    ASSUME OutageInv, Dog!Passes \/ (\E s \in Services, at \in 0..now : Dog!Beat(s, at)) \/ UNCHANGED Dog!vars
    PROVE  OutageInv'
<1>1. UNCHANGED <<tripped, cancelDone, entries, Dog!passVars, late>>
  BY DEF Dog!Passes, Dog!Beat, Dog!vars, Dog!dogVars
<1>2. Dog!Resting' = Dog!Resting
  BY <1>1 DEF Dog!Resting
<1> QED
  BY <1>1, <1>2 DEF Dog!passVars, OutageInv, OutageTypes, CancelledGone, PassCovers, DoneCovers

LEMMA OutageInductive == OutageInv /\ [Dog!Next]_(Dog!vars) => OutageInv'
<1> SUFFICES ASSUME OutageInv, [Dog!Next]_(Dog!vars)
             PROVE  OutageInv'
  OBVIOUS
<1>1. CASE Dog!Passes \/ (\E s \in Services, at \in 0..now : Dog!Beat(s, at)) \/ UNCHANGED Dog!vars
  BY <1>1, OthersKeep
<1>2. CASE Dog!Done
  BY <1>2, DoneKeeps
<1>3. CASE Dog!Restart
  BY <1>3, RestartKeeps
<1>4. CASE \E b \in BOOLEAN : Dog!Check(b)
  BY <1>4, CheckKeeps
<1>5. CASE \E o \in Orders : Dog!Cancel(o)
  BY <1>5, CancelKeeps
<1>6. CASE \E o \in Orders : Dog!Unreachable(o)
  BY <1>6, UnreachableKeeps
<1>7. CASE \E o \in Orders : Dog!Place(o)
  BY <1>7, PlaceKeeps
<1>8. CASE \E o \in Orders : Dog!Leaves(o)
  BY <1>8, LeavesKeeps
<1> QED
  BY <1>1, <1>2, <1>3, <1>4, <1>5, <1>6, <1>7, <1>8 DEF Dog!Next

-----------------------------------------------------------------------------
(* Whatever services are lost and restored, however often the broker cannot be reached and whenever the process
   restarts: while a service is lost and no pass is owed, what rests of the system's orders came after the last list
   or was refused, and nobody else's order was cancelled (watchdog.py, check). *)
THEOREM NoEntryLeftBehind == Dog!Spec => []Dog!OutageCancels
<1>1. OutageInv => Dog!OutageCancels
  BY DEF OutageInv, CancelledGone, DoneCovers, Dog!OutageCancels, Dog!Resting
<1>2. Dog!Spec => []OutageInv
  BY OutageInit, OutageInductive, PTL DEF Dog!Spec
<1> QED
  BY <1>1, <1>2, PTL

-----------------------------------------------------------------------------
(* Ledger.  The argument: who has found the last hash still holds the lock, so that the hash is still
   the last one, and the file has no half line; and a remembered tail is the hash of a line that is
   still where it was. *)

Line == [prev : Int, hash : Int]

ChainTypes ==
    /\ file \in Seq(Line)
    /\ prev \in [Writers -> Int]
    /\ tail \in [Writers -> [size : Int, hash : Int]]
    /\ hashes \in Int

(* Who has found a hash holds the lock. *)
FoundHolds == \A w \in Writers : prev[w] # Chain!NotRead => holder = w

(* What it has found is the last hash of a file whose lines are whole. *)
Whole == \A i \in 1..Len(file) : file[i] # Chain!Torn
LastLine == IF file = <<>> THEN Chain!GENESIS ELSE file[Len(file)].hash
FoundIsLast == \A w \in Writers : prev[w] # Chain!NotRead => Whole /\ prev[w] = LastLine

(* A remembered tail is the hash of the line that was the last one. *)
TailStands ==
    \A w \in Writers :
        tail[w].size # Chain!NoTail.size =>
            /\ tail[w].size \in 1..Len(file)
            /\ file[tail[w].size] # Chain!Torn
            /\ file[tail[w].size].hash = tail[w].hash

ChainInv == ChainTypes /\ FoundHolds /\ FoundIsLast /\ TailStands /\ Chain!ChainUnbroken

-----------------------------------------------------------------------------
(* A line appended to a file is its last one, and the others stay where they are. *)
LEMMA AppendedLine ==
    ASSUME NEW f \in Seq(Line), NEW r \in Line, NEW g, g = Append(f, r)
    PROVE  /\ g \in Seq(Line) /\ g # <<>>
           /\ Len(g) = Len(f) + 1 /\ g[Len(g)] = r
           /\ \A i \in 1..Len(f) : g[i] = f[i]
  OBVIOUS

(* Half a line is a line, and can only be the last one of a file whose chain holds. *)
LEMMA TornType == Chain!Torn \in Line /\ Chain!GENESIS \in Int /\ Chain!NotRead \in Int
  BY DEF Chain!Torn, Line, Chain!GENESIS, Chain!NotRead

LEMMA WholeUpToLast ==
    ASSUME ChainTypes, Chain!ChainUnbroken, file # <<>>, file[Len(file)] # Chain!Torn
    PROVE  Whole
<1>1. DOMAIN file = 1..Len(file) /\ Len(file) \in Nat
  BY DEF ChainTypes
<1>2. \A i \in 1..Len(file) : file[i] = Chain!Torn => i = Len(file)
  BY <1>1 DEF Chain!ChainUnbroken
<1> QED
  BY <1>2 DEF Whole

LEMMA ChainInit == Chain!Init => ChainInv
<1> SUFFICES ASSUME Chain!Init PROVE ChainInv
  OBVIOUS
<1>1. ChainTypes
  <2>1. Chain!NoTail \in [size : Int, hash : Int] /\ Chain!NotRead \in Int
    BY DEF Chain!NoTail, Chain!GENESIS, Chain!NotRead
  <2> QED
    BY <2>1 DEF Chain!Init, ChainTypes
<1>2. /\ \A w \in Writers : prev[w] = Chain!NotRead /\ tail[w] = Chain!NoTail
      /\ DOMAIN file = {}
  BY DEF Chain!Init
<1>3. FoundHolds /\ FoundIsLast /\ TailStands
  BY <1>2 DEF FoundHolds, FoundIsLast, TailStands
<1>4. Chain!ChainUnbroken
  BY <1>2 DEF Chain!ChainUnbroken
<1> QED
  BY <1>1, <1>3, <1>4 DEF ChainInv

(* Only the holder of the lock has found a hash. *)
LEMMA OthersNotRead ==
    ASSUME FoundHolds, NEW w \in Writers, prev[w] # Chain!NotRead
    PROVE  \A u \in Writers : u # w => prev[u] = Chain!NotRead
  BY DEF FoundHolds

(* The append: the lock is taken while nobody has found a hash. *)
LEMMA LockInv ==
    ASSUME Chain!NoOne \notin Writers, ChainInv, NEW w \in Writers, Chain!Lock(w)
    PROVE  ChainInv'
<1>1. \A u \in Writers : prev[u] = Chain!NotRead
  BY DEF ChainInv, FoundHolds, Chain!Lock
<1>2. UNCHANGED <<file, prev, tail, hashes>>
  BY DEF Chain!Lock
<1>3. ChainTypes' /\ TailStands' /\ Chain!ChainUnbroken'
  BY <1>2 DEF ChainInv, ChainTypes, TailStands, Chain!ChainUnbroken
<1>4. FoundHolds' /\ FoundIsLast'
  BY <1>1, <1>2 DEF FoundHolds, FoundIsLast
<1> QED
  BY <1>3, <1>4 DEF ChainInv

(* The last hash is found in the file, or remembered of a line that is still the last. *)
LEMMA LastHashInv ==
    ASSUME ChainInv, NEW w \in Writers, Chain!LastHash(w)
    PROVE  ChainInv'
<1> USE DEF ChainInv
<1>1. UNCHANGED <<file, tail, hashes>> /\ holder = w /\ prev[w] = Chain!NotRead
  BY DEF Chain!LastHash
<1>2. \A u \in Writers : prev[u] = Chain!NotRead
  BY <1>1 DEF FoundHolds
<1>3. DOMAIN file = 1..Len(file) /\ Len(file) \in Nat
  BY DEF ChainTypes
<1>4. TailStands' /\ Chain!ChainUnbroken'
  BY <1>1 DEF TailStands, Chain!ChainUnbroken
<1>5. CASE ~Chain!Remembers(w) /\ \E i \in DOMAIN file : file[i] = Chain!Torn
  <2>1. prev' = prev
    BY <1>5 DEF Chain!LastHash
  <2>2. ChainTypes' /\ FoundHolds' /\ FoundIsLast'
    BY <2>1, <1>1, <1>2 DEF ChainTypes, FoundHolds, FoundIsLast
  <2> QED
    BY <2>2, <1>4
<1>6. CASE ~(~Chain!Remembers(w) /\ \E i \in DOMAIN file : file[i] = Chain!Torn)
  <2> DEFINE found == IF Chain!Remembers(w) THEN tail[w].hash ELSE LastLine
  <2>1. prev' = [prev EXCEPT ![w] = found] /\ holder' = w
    BY <1>6, <1>1 DEF Chain!LastHash, LastLine
  <2>2. found \in Int
    <3>1. tail[w].hash \in Int
      BY DEF ChainTypes
    <3>2. LastLine \in Int
      <4>1. CASE file = <<>>
        BY <4>1 DEF LastLine, Chain!GENESIS
      <4>2. CASE file # <<>>
        <5>1. file[Len(file)] \in Line
          BY <4>2, <1>3 DEF ChainTypes
        <5> QED
          BY <4>2, <5>1 DEF LastLine, Line
      <4> QED
        BY <4>1, <4>2
    <3> QED
      BY <3>1, <3>2
  <2>3. Whole /\ found = LastLine
    <3>1. CASE Chain!Remembers(w)
      <4>1. tail[w].size = Len(file) /\ tail[w].size # Chain!NoTail.size
        BY <3>1, <1>3 DEF Chain!Remembers, Chain!NoTail
      <4>2. file[Len(file)] # Chain!Torn /\ file[Len(file)].hash = tail[w].hash /\ Len(file) \in 1..Len(file)
        BY <4>1 DEF TailStands
      <4>3. file # <<>>
        BY <4>2
      <4>4. Whole
        BY <4>2, <4>3, WholeUpToLast
      <4> QED
        BY <4>2, <4>3, <4>4, <3>1 DEF LastLine
    <3>2. CASE ~Chain!Remembers(w)
      BY <3>2, <1>6, <1>3 DEF Whole
    <3> QED
      BY <3>1, <3>2
  <2> HIDE DEF found
  <2>4. ChainTypes'
    BY <2>1, <2>2, <1>1 DEF ChainTypes
  <2>5. \A u \in Writers : u # w => prev'[u] = Chain!NotRead
    BY <2>1, <1>2 DEF ChainTypes
  <2>6. FoundHolds'
    BY <2>1, <2>5 DEF FoundHolds
  <2>7. Whole' /\ LastLine' = LastLine
    BY <2>3, <1>1 DEF Whole, LastLine
  <2>8. prev'[w] = found
    BY <2>1 DEF ChainTypes
  <2>9. FoundIsLast'
    BY <2>3, <2>5, <2>7, <2>8 DEF FoundIsLast
  <2> QED
    BY <2>4, <2>6, <2>9, <1>4
<1> QED
  BY <1>5, <1>6

(* The record written carries the last hash, since the lock was held all along. *)
LEMMA WriteInv ==
    ASSUME ChainInv, NEW w \in Writers, Chain!Write(w)
    PROVE  ChainInv'
<1> USE DEF ChainInv
<1> DEFINE line == [prev |-> prev[w], hash |-> hashes']
           mark == [size |-> Len(file'), hash |-> hashes']
<1>1. /\ prev[w] # Chain!NotRead /\ hashes' = hashes + 1
      /\ file' = Append(file, line)
      /\ tail' = [tail EXCEPT ![w] = mark]
      /\ prev' = [prev EXCEPT ![w] = Chain!NotRead]
  BY DEF Chain!Write
<1>2. line \in Line /\ hashes' \in Int
  BY <1>1 DEF ChainTypes, Line
<1>3. line # Chain!Torn /\ line.hash = hashes' /\ line.prev = prev[w]
  BY <1>1 DEF Chain!Torn
<1> HIDE DEF line
<1>4. /\ file' \in Seq(Line) /\ file' # <<>>
      /\ Len(file') = Len(file) + 1 /\ file'[Len(file')] = line
      /\ \A i \in 1..Len(file) : file'[i] = file[i]
  BY <1>1, <1>2, AppendedLine DEF ChainTypes
<1>5. Len(file) \in Nat /\ DOMAIN file = 1..Len(file) /\ DOMAIN file' = 1..(Len(file) + 1)
  BY <1>4 DEF ChainTypes
<1>6. Whole /\ prev[w] = LastLine
  BY <1>1 DEF FoundIsLast
<1>7. mark \in [size : Int, hash : Int] /\ mark.size = Len(file) + 1 /\ mark.hash = hashes'
  BY <1>2, <1>4, <1>5
<1> HIDE DEF mark
<1>8. ChainTypes'
  BY <1>1, <1>2, <1>4, <1>7, TornType DEF ChainTypes
<1>9. \A u \in Writers : prev'[u] = Chain!NotRead
  BY <1>1, OthersNotRead DEF ChainTypes
<1>10. FoundHolds' /\ FoundIsLast'
  BY <1>9 DEF FoundHolds, FoundIsLast
<1>11. TailStands'
  <2> SUFFICES ASSUME NEW u \in Writers, tail'[u].size # Chain!NoTail.size
               PROVE  /\ tail'[u].size \in 1..Len(file')
                      /\ file'[tail'[u].size] # Chain!Torn
                      /\ file'[tail'[u].size].hash = tail'[u].hash
    BY DEF TailStands
  <2>1. CASE u = w
    <3>1. tail'[u] = mark
      BY <2>1, <1>1 DEF ChainTypes
    <3> QED
      BY <3>1, <1>3, <1>4, <1>5, <1>7
  <2>2. CASE u # w
    <3>1. tail'[u] = tail[u]
      BY <2>2, <1>1 DEF ChainTypes
    <3>2. tail[u].size \in 1..Len(file) /\ file[tail[u].size] # Chain!Torn /\ file[tail[u].size].hash = tail[u].hash
      BY <3>1 DEF TailStands
    <3> QED
      BY <3>1, <3>2, <1>4, <1>5
  <2> QED
    BY <2>1, <2>2
<1>12. Chain!ChainUnbroken'
  <2> SUFFICES ASSUME NEW i \in DOMAIN file'
               PROVE  IF file'[i] = Chain!Torn THEN i = Len(file')
                      ELSE file'[i].prev = IF i = 1 THEN Chain!GENESIS ELSE file'[i - 1].hash
    BY DEF Chain!ChainUnbroken
  <2>1. CASE i = Len(file) + 1
    <3>1. file'[i] = line
      BY <2>1, <1>4
    <3>2. CASE file = <<>>
      BY <2>1, <3>1, <3>2, <1>3, <1>6 DEF LastLine
    <3>3. CASE file # <<>>
      <4>1. Len(file) \in 1..Len(file) /\ i # 1 /\ i - 1 = Len(file)
        BY <2>1, <3>3, <1>5 DEF ChainTypes
      <4>2. file'[i - 1] = file[Len(file)]
        BY <4>1, <1>4
      <4> QED
        BY <3>1, <3>3, <4>1, <4>2, <1>3, <1>6 DEF LastLine
    <3> QED
      BY <3>2, <3>3
  <2>2. CASE i \in 1..Len(file)
    <3>1. file'[i] = file[i] /\ file[i] # Chain!Torn
      BY <2>2, <1>4, <1>6 DEF Whole
    <3>2. file[i].prev = IF i = 1 THEN Chain!GENESIS ELSE file[i - 1].hash
      BY <2>2, <3>1, <1>5 DEF Chain!ChainUnbroken
    <3>3. i # 1 => file'[i - 1] = file[i - 1]
      BY <2>2, <1>4, <1>5
    <3> QED
      BY <3>1, <3>2, <3>3
  <2> QED
    BY <2>1, <2>2, <1>5
<1> QED
  BY <1>8, <1>10, <1>11, <1>12

(* Half a line comes after whole ones, and whoever left it has found no hash any more. *)
LEMMA CrashInv ==
    ASSUME ChainInv, NEW w \in Writers, Chain!Crash(w)
    PROVE  ChainInv'
<1> USE DEF ChainInv
<1>1. /\ prev' = [prev EXCEPT ![w] = Chain!NotRead] /\ tail' = [tail EXCEPT ![w] = Chain!NoTail]
      /\ hashes' = hashes /\ holder' = IF holder = w THEN Chain!NoOne ELSE holder
  BY DEF Chain!Crash
<1>2. Chain!NoTail \in [size : Int, hash : Int]
  BY DEF Chain!NoTail, Chain!GENESIS
<1>3. prev' \in [Writers -> Int] /\ tail' \in [Writers -> [size : Int, hash : Int]] /\ hashes' \in Int
  BY <1>1, <1>2, TornType DEF ChainTypes
<1>4. \A u \in Writers : prev'[u] = IF u = w THEN Chain!NotRead ELSE prev[u]
  BY <1>1 DEF ChainTypes
<1>5. \A u \in Writers : tail'[u] = IF u = w THEN Chain!NoTail ELSE tail[u]
  BY <1>1 DEF ChainTypes
<1>6. FoundHolds'
  BY <1>1, <1>4 DEF FoundHolds
<1>7. CASE file' = file
  <2>1. FoundIsLast'
    <3>1. Whole' = Whole /\ LastLine' = LastLine
      BY <1>7 DEF Whole, LastLine
    <3> QED
      BY <3>1, <1>4 DEF FoundIsLast
  <2>2. TailStands'
    BY <1>5, <1>7 DEF TailStands
  <2>3. ChainTypes' /\ Chain!ChainUnbroken'
    BY <1>3, <1>7 DEF ChainTypes, Chain!ChainUnbroken
  <2> QED
    BY <1>6, <2>1, <2>2, <2>3
<1>8. CASE prev[w] # Chain!NotRead /\ file' = Append(file, Chain!Torn)
  <2>1. /\ file' \in Seq(Line)
        /\ Len(file') = Len(file) + 1 /\ file'[Len(file')] = Chain!Torn
        /\ \A i \in 1..Len(file) : file'[i] = file[i]
    BY <1>8, TornType, AppendedLine DEF ChainTypes
  <2>2. Len(file) \in Nat /\ DOMAIN file = 1..Len(file) /\ DOMAIN file' = 1..(Len(file) + 1)
    BY <2>1 DEF ChainTypes
  <2>3. Whole
    BY <1>8 DEF FoundIsLast
  <2>4. \A u \in Writers : prev'[u] = Chain!NotRead
    BY <1>4, <1>8, OthersNotRead
  <2>5. FoundIsLast'
    BY <2>4 DEF FoundIsLast
  <2>6. TailStands'
    BY <1>5, <2>1, <2>2 DEF TailStands
  <2>7. Chain!ChainUnbroken'
    <3> SUFFICES ASSUME NEW i \in DOMAIN file'
                 PROVE  IF file'[i] = Chain!Torn THEN i = Len(file')
                        ELSE file'[i].prev = IF i = 1 THEN Chain!GENESIS ELSE file'[i - 1].hash
      BY DEF Chain!ChainUnbroken
    <3>1. CASE i = Len(file) + 1
      BY <3>1, <2>1
    <3>2. CASE i \in 1..Len(file)
      <4>1. file'[i] = file[i] /\ file[i] # Chain!Torn
        BY <3>2, <2>1, <2>3 DEF Whole
      <4>2. file[i].prev = IF i = 1 THEN Chain!GENESIS ELSE file[i - 1].hash
        BY <3>2, <4>1, <2>2 DEF Chain!ChainUnbroken
      <4>3. i # 1 => file'[i - 1] = file[i - 1]
        BY <3>2, <2>1, <2>2
      <4> QED
        BY <4>1, <4>2, <4>3
    <3> QED
      BY <3>1, <3>2, <2>2
  <2> QED
    BY <1>3, <1>6, <2>1, <2>5, <2>6, <2>7 DEF ChainTypes
<1> QED
  BY <1>7, <1>8 DEF Chain!Crash

-----------------------------------------------------------------------------
(* Whoever writes and whoever dies in the middle of a line, every record of the ledger carries the
   hash of the one before it, and half a line is the last thing in the file (core/ledger.py). *)
THEOREM ChainNeverBreaks ==
    ASSUME Chain!NoOne \notin Writers
    PROVE  Chain!Spec => []Chain!ChainUnbroken
<1>1. ChainInv /\ [Chain!Next]_(Chain!vars) => ChainInv'
  <2> SUFFICES ASSUME ChainInv, [Chain!Next]_(Chain!vars) PROVE ChainInv'
    OBVIOUS
  <2>1. CASE UNCHANGED Chain!vars
    BY <2>1 DEF ChainInv, Chain!vars, ChainTypes, FoundHolds, FoundIsLast, Whole, LastLine, TailStands, Chain!ChainUnbroken
  <2>2. ASSUME NEW w \in Writers, Chain!Lock(w) \/ Chain!LastHash(w) \/ Chain!Write(w) \/ Chain!Crash(w)
        PROVE  ChainInv'
    BY <2>2, LockInv, LastHashInv, WriteInv, CrashInv
  <2> QED
    BY <2>1, <2>2 DEF Chain!Next
<1>2. ChainInv => Chain!ChainUnbroken
  BY DEF ChainInv
<1> QED
  BY <1>1, <1>2, ChainInit, PTL DEF Chain!Spec

-----------------------------------------------------------------------------
(* Calendar.  The argument: memory and file each carry the week of their own time, time only passes,
   and the last question to the site is the latest of all that were asked. *)

(* What is divided rounds down to no less when it is no less. *)
LEMMA DivMono == ASSUME NEW w \in Nat \ {0}, NEW a \in Int, NEW b \in Int, a <= b PROVE a \div w <= b \div w
<1> DEFINE q == a \div w  r == a % w  p == b \div w  t == b % w
<1>1. q \in Int /\ r \in 0..(w-1) /\ a = w * q + r
  OBVIOUS
<1>2. p \in Int /\ t \in 0..(w-1) /\ b = w * p + t
  OBVIOUS
<1> HIDE DEF q, r, p, t
<1>3. SUFFICES ASSUME q > p PROVE FALSE
  BY <1>1, <1>2 DEF q, p
<1>4. q >= p + 1
  BY <1>1, <1>2, <1>3
<1>5. w * q >= w * (p + 1)
  BY <1>1, <1>2, <1>4
<1>6. w * (p + 1) = w * p + w
  BY <1>2
<1> QED
  BY <1>1, <1>2, <1>5, <1>6

(* What the calendar holds, in memory and in the file, is of when it was fetched; the file is not ahead of memory. *)
Held ==
    /\ now \in Nat
    /\ fetchedAt # None => fetchedAt \in 0..now /\ export = fetchedAt \div Week
    /\ writing => fetchedAt # None
    /\ cache # Events!Missing =>
          /\ cache = [at |-> cache.at, export |-> cache.export]
          /\ cache.at \in 0..now /\ cache.export = cache.at \div Week
          /\ fetchedAt # None /\ cache.at <= fetchedAt

(* No question to the site comes too soon after another. *)
Apart ==
    /\ fetches \subseteq 0..now
    /\ fetches # {} => lastTry \in fetches /\ \A a \in fetches : a <= lastTry
    /\ \A a, b \in fetches : a < b => b - a >= MinInterval

CalendarInv == Held /\ Apart

(* The intervals and the age are lengths of time, and None is no time. *)
CalendarAssumption == Week \in Nat \ {0} /\ MaxAge \in Nat /\ MinInterval \in Nat /\ None \notin Nat

LEMMA CalendarSteps ==
    ASSUME CalendarAssumption, CalendarInv, [Events!Next]_(Events!vars)
    PROVE  CalendarInv'
<1> USE DEF CalendarAssumption, CalendarInv
<1>1. CASE Events!Passes \/ UNCHANGED Events!vars
  BY <1>1 DEF Events!Passes, Events!vars, Held, Apart
<1>2. ASSUME NEW comes \in BOOLEAN, Events!Refresh(comes) PROVE CalendarInv'
  <2>1. Held'
    BY <1>2 DEF Events!Refresh, Held
  <2>2. Apart'
    BY <1>2 DEF Events!Refresh, Held, Apart
  <2> QED
    BY <2>1, <2>2
<1>3. ASSUME NEW ok \in BOOLEAN, Events!Write(ok) PROVE CalendarInv'
  <2>1. Held'
    BY <1>3 DEF Events!Write, Held
  <2>2. Apart'
    BY <1>3 DEF Events!Write, Apart
  <2> QED
    BY <2>1, <2>2
<1>4. CASE Events!Restart
  BY <1>4 DEF Events!Restart, Events!Missing, Held, Apart
<1> QED
  BY <1>1, <1>2, <1>3, <1>4 DEF Events!Next

(* Whatever export does not come, whatever write fails and whenever the process dies between the two: a calendar is the
   export of when it says it was fetched, the file is never ahead of memory, and no run asks the site twice in an
   interval (data/calendar.py, refresh and fresh). *)
THEOREM CalendarIsHonest ==
    ASSUME CalendarAssumption
    PROVE  Events!Spec => []Events!CalendarHonest
<1>1. Events!Init => CalendarInv
  BY DEF Events!Init, Events!Missing, CalendarInv, Held, Apart
<1>2. CalendarInv => Events!CalendarHonest
  <2> SUFFICES ASSUME CalendarInv PROVE Events!CalendarHonest
    OBVIOUS
  <2>1. ASSUME Events!Fresh PROVE now - MaxAge <= fetchedAt /\ (now - MaxAge) \div Week <= export
    <3>1. now \in Int /\ MaxAge \in Int /\ fetchedAt \in Int /\ export = fetchedAt \div Week /\ Week \in Nat \ {0}
      BY <2>1 DEF Events!Fresh, CalendarInv, Held, CalendarAssumption
    <3>2. now - MaxAge <= fetchedAt /\ now - MaxAge \in Int
      BY <2>1, <3>1 DEF Events!Fresh
    <3> QED
      BY <3>1, <3>2, DivMono
  <2> QED
    BY <2>1 DEF CalendarInv, Held, Apart, Events!CalendarHonest
<1> QED
  BY <1>1, <1>2, CalendarSteps, PTL DEF Events!Spec

-----------------------------------------------------------------------------
(* SignalJournal.  The argument: an outcome is in the file before its trade can go out, no entry with an
   outcome is open, so that none gets a second one; and what waits to go out is of signals that are not
   among the trades yet. *)

(* A finite set as a sequence: each element once. *)
LEMMA AsSequence ==
    ASSUME NEW S, IsFiniteSet(S)
    PROVE  /\ Journalled!SetToSeq(S) \in Seq(S)
           /\ \A i, j \in DOMAIN Journalled!SetToSeq(S) :
                 Journalled!SetToSeq(S)[i] = Journalled!SetToSeq(S)[j] => i = j
<1> DEFINE n == Cardinality(S)
           OneToOne(f) == \A a, b \in DOMAIN f : f[a] = f[b] => a = b
<1>1. n \in Nat /\ ExistsBijection(1..n, S)
  BY FS_CardinalityType
<1>2. \E f \in [1..n -> S] : OneToOne(f)
  BY <1>1 DEF ExistsBijection, Bijection, Injection, IsInjective
<1>4. Journalled!Cardinality(S) = Cardinality(S)
  BY DEF Journalled!Cardinality, Cardinality
<1>3. Journalled!SetToSeq(S) \in [1..n -> S] /\ OneToOne(Journalled!SetToSeq(S))
  BY <1>2, <1>4 DEF Journalled!SetToSeq, Journalled!IsInjective
<1> QED
  BY <1>1, <1>3

(* What an entry and a shadow trade can be. *)
Entry == [status : Journalled!Verdicts \union {"signalled"}, label : Journalled!Labels \union {Journalled!None}]

Trade == [signal : Shadow, label : Journalled!Labels]

(* What is on its way to the journal. *)
Comes ==
    /\ bars \in Nat /\ made \in [Signals -> Int]
    /\ signals \subseteq Signals /\ \A s \in signals : made[s] >= 0
    /\ \A m \in decisions : m.verdict \in Journalled!Verdicts

(* Memory is the file, and an outcome in it is that of a bar. *)
OnDisk ==
    /\ entries = file /\ file = [s \in DOMAIN file |-> file[s]]
    /\ \A s \in DOMAIN file : s \in Signals /\ made[s] >= 0 /\ file[s] \in Entry
    /\ \A s \in DOMAIN file : file[s].label # Journalled!None => file[s].label \in given[s]
    /\ open \subseteq DOMAIN file /\ \A s \in open : file[s].label = Journalled!None

(* What is to be published was decided, and was not published before. *)
ToPublish ==
    /\ out \in Seq(Shadow)
    /\ \A i \in DOMAIN out : out[i] \in DOMAIN file /\ file[out[i]].label # Journalled!None
    /\ \A i, j \in DOMAIN out : out[i] = out[j] => i = j
    /\ \A i \in DOMAIN out, k \in DOMAIN trades : trades[k].signal # out[i]

(* What was published is what the file says, once. *)
Published ==
    /\ trades \in Seq(Trade)
    /\ \A i \in DOMAIN trades :
          trades[i].signal \in DOMAIN file /\ file[trades[i].signal].label = trades[i].label
    /\ \A i, j \in DOMAIN trades : trades[i].signal = trades[j].signal => i = j

RecordsInv == Comes /\ OnDisk /\ ToPublish /\ Published

LEMMA TradeTyped ==
    ASSUME Published, NEW i \in DOMAIN trades
    PROVE  /\ trades[i].signal \in Shadow /\ trades[i].label \in Journalled!Labels
           /\ trades[i].label # Journalled!None
<1>1. trades \in Seq(Trade)
  BY DEF Published
<1>2. trades[i] \in Trade
  BY <1>1
<1>3. Journalled!None \notin Journalled!Labels
  BY DEF Journalled!None, Journalled!Labels
<1> QED
  BY <1>2, <1>3 DEF Trade

(* An outcome on the file stays, and what was said of it stays true. *)
LEMMA OutcomesStay ==
    ASSUME ToPublish, Published, out' = out, trades' = trades, DOMAIN file \subseteq DOMAIN file',
           \A s \in DOMAIN file : file[s].label # Journalled!None => file'[s].label = file[s].label
    PROVE  ToPublish' /\ Published'
<1>1. ToPublish'
  BY DEF ToPublish
<1>2. Published'
  <2>1. ASSUME NEW i \in DOMAIN trades
        PROVE  trades[i].signal \in DOMAIN file' /\ file'[trades[i].signal].label = trades[i].label
    <3>1. trades[i].label # Journalled!None
      BY TradeTyped
    <3>2. trades[i].signal \in DOMAIN file /\ file[trades[i].signal].label = trades[i].label
      BY DEF Published
    <3> QED
      BY <3>1, <3>2
  <2> QED
    BY <2>1 DEF Published
<1> QED
  BY <1>1, <1>2

(* One entry saved: an outcome that it has is the one it had. *)
LEMMA SaveKeeps ==
    ASSUME RecordsInv, NEW s \in Signals, made[s] >= 0, NEW e \in Entry,
           s \in DOMAIN file => e.label = file[s].label,
           s \notin DOMAIN file => e.label = Journalled!None,
           Journalled!Save(s, e), UNCHANGED <<bars, made, out, trades, given>>
    PROVE  OnDisk' /\ ToPublish' /\ Published'
<1>1. /\ entries' = file'
      /\ file' = [x \in DOMAIN file \union {s} |-> IF x = s THEN e ELSE file[x]]
      /\ open' = IF e.label = Journalled!None THEN open \union {s} ELSE open \ {s}
  BY DEF Journalled!Save, Journalled!Set, RecordsInv, OnDisk
<1>2. /\ DOMAIN file' = DOMAIN file \union {s} /\ file'[s] = e
      /\ \A x \in DOMAIN file : x # s => file'[x] = file[x]
  BY <1>1
<1>3. OnDisk'
  <2>1. entries' = file' /\ file' = [x \in DOMAIN file' |-> file'[x]]
    BY <1>1
  <2>2. ASSUME NEW x \in DOMAIN file'
        PROVE  /\ x \in Signals /\ made'[x] >= 0 /\ file'[x] \in Entry
               /\ file'[x].label # Journalled!None => file'[x].label \in given'[x]
    <3>1. CASE x = s
      BY <3>1, <1>2 DEF RecordsInv, OnDisk
    <3>2. CASE x # s
      BY <3>2, <1>2 DEF RecordsInv, OnDisk
    <3> QED
      BY <3>1, <3>2
  <2>3. open' \subseteq DOMAIN file' /\ \A x \in open' : file'[x].label = Journalled!None
    BY <1>1, <1>2 DEF RecordsInv, OnDisk
  <2> QED
    BY <2>1, <2>2, <2>3 DEF OnDisk
<1>4. DOMAIN file \subseteq DOMAIN file'
  BY <1>2
<1>5. \A x \in DOMAIN file : file[x].label # Journalled!None => file'[x].label = file[x].label
  BY <1>2
<1> QED
  BY <1>3, <1>4, <1>5, OutcomesStay DEF RecordsInv

LEMMA EmitKeeps ==
    ASSUME RecordsInv, NEW s \in Signals, Journalled!Emit(s)
    PROVE  RecordsInv'
<1>1. /\ made[s] = -1 /\ made' = [made EXCEPT ![s] = bars] /\ signals' = signals \union {s}
      /\ UNCHANGED <<bars, entries, open, file, out, trades, given>>
      /\ bars \in Nat /\ made \in [Signals -> Int]
  BY DEF Journalled!Emit, RecordsInv, Comes
<1>2. /\ made' \in [Signals -> Int] /\ made'[s] = bars
      /\ \A x \in Signals : x # s => made'[x] = made[x]
  BY <1>1
<1>3. \A m \in decisions' : m.verdict \in Journalled!Verdicts
  BY DEF Journalled!Emit, RecordsInv, Comes
<1>4. Comes'
  BY <1>1, <1>2, <1>3 DEF RecordsInv, Comes
<1>5. \A x \in DOMAIN file : x # s
  BY <1>1 DEF RecordsInv, OnDisk
<1>6. OnDisk'
  BY <1>1, <1>2, <1>5 DEF RecordsInv, OnDisk
<1> QED
  BY <1>1, <1>4, <1>6 DEF RecordsInv, ToPublish, Published

LEMMA OnSignalKeeps ==
    ASSUME RecordsInv, NEW s \in Signals, Journalled!OnSignal(s)
    PROVE  RecordsInv'
<1>1. /\ s \in signals /\ made[s] >= 0 /\ signals' \subseteq signals
      /\ UNCHANGED <<bars, made, decisions, out, trades, given>>
  BY DEF Journalled!OnSignal, Journalled!Acknowledged, RecordsInv, Comes
<1>2. Comes'
  BY <1>1 DEF RecordsInv, Comes
<1>3. CASE s \in DOMAIN entries
  <2>1. UNCHANGED <<entries, open, file>>
    BY <1>3 DEF Journalled!OnSignal
  <2> QED
    BY <2>1, <1>1, <1>2 DEF RecordsInv, OnDisk, ToPublish, Published
<1>4. CASE s \notin DOMAIN entries
  <2> DEFINE e == [status |-> "signalled", label |-> Journalled!None]
  <2>1. Journalled!Save(s, e)
    BY <1>4 DEF Journalled!OnSignal
  <2>2. e \in Entry /\ e.label = Journalled!None
    BY DEF Entry
  <2>3. s \notin DOMAIN file
    BY <1>4 DEF RecordsInv, OnDisk
  <2> HIDE DEF e
  <2> QED
    BY <2>1, <2>2, <2>3, <1>1, <1>2, SaveKeeps DEF RecordsInv
<1> QED
  BY <1>3, <1>4

LEMMA OnDecisionKeeps ==
    ASSUME RecordsInv, NEW m \in decisions, Journalled!OnIntent(m) \/ Journalled!OnDecision(m)
    PROVE  RecordsInv'
<1>1. decisions' \subseteq decisions /\ UNCHANGED <<bars, made, signals, out, trades, given>>
  BY DEF Journalled!OnIntent, Journalled!OnDecision, Journalled!Acknowledged
<1>2. Comes'
  BY <1>1 DEF RecordsInv, Comes
<1>3. CASE UNCHANGED <<entries, open, file>>
  BY <1>1, <1>2, <1>3 DEF RecordsInv, OnDisk, ToPublish, Published
<1>4. CASE m.signal \in DOMAIN entries /\ Journalled!Save(m.signal, [entries[m.signal] EXCEPT !.status = m.verdict])
  <2> DEFINE e == [entries[m.signal] EXCEPT !.status = m.verdict]
  <2>1. m.signal \in DOMAIN file /\ entries = file /\ m.verdict \in Journalled!Verdicts
    BY <1>4 DEF RecordsInv, OnDisk, Comes
  <2>2. m.signal \in Signals /\ made[m.signal] >= 0 /\ file[m.signal] \in Entry
    BY <2>1 DEF RecordsInv, OnDisk
  <2>3. e \in Entry /\ e.label = file[m.signal].label
    BY <2>1, <2>2 DEF Entry
  <2> HIDE DEF e
  <2>4. Journalled!Save(m.signal, e)
    BY <1>4 DEF e
  <2> QED
    BY <2>1, <2>2, <2>3, <2>4, <1>1, <1>2, SaveKeeps DEF RecordsInv
<1> QED
  BY <1>3, <1>4 DEF Journalled!OnIntent, Journalled!OnDecision

(* A bar: what it decides is saved, and goes out once. *)
LEMMA BarKeeps ==
    ASSUME RecordsInv, IsFiniteSet(Signals), NEW touch, Journalled!Bar(touch)
    PROVE  RecordsInv'
<1> DEFINE bar == [k |-> bars', touch |-> touch]
           done == Journalled!Decided(bar)
           news == Journalled!SetToSeq(done \cap Shadow)
<1>1. /\ out = <<>> /\ bars' = bars + 1 /\ UNCHANGED <<made, signals, decisions, trades>>
      /\ entries' = [s \in DOMAIN entries |-> IF s \in done THEN Journalled!Resolved(s, bar) ELSE entries[s]]
      /\ open' = open \ done
      /\ file' = [s \in DOMAIN file |-> IF s \in done THEN Journalled!Resolved(s, bar) ELSE file[s]]
      /\ out' = out \o news
      /\ given' = [s \in Signals |-> given[s] \union Journalled!Told(s, bar)]
  BY DEF Journalled!Bar, Journalled!OnBar
<1>2. /\ done \subseteq open
      /\ \A s \in done : Journalled!Follows(s, bar.k) /\ Journalled!Label(s, bar.k, bar.touch[s]) # Journalled!None
  BY DEF Journalled!Decided
<1>3. \A s : Journalled!Label(s, bar.k, bar.touch[s]) \in Journalled!Labels \union {Journalled!None}
  BY DEF Journalled!Label, Journalled!Labels
<1>4. \A s \in done : /\ s \in DOMAIN file /\ s \in Signals /\ made[s] >= 0 /\ file[s] \in Entry
                      /\ file[s].label = Journalled!None
  BY <1>2 DEF RecordsInv, OnDisk
<1>5. \A s \in done : /\ Journalled!Resolved(s, bar) \in Entry
                      /\ Journalled!Resolved(s, bar).label = Journalled!Label(s, bar.k, bar.touch[s])
  <2> SUFFICES ASSUME NEW s \in done
               PROVE  /\ Journalled!Resolved(s, bar) \in Entry
                      /\ Journalled!Resolved(s, bar).label = Journalled!Label(s, bar.k, bar.touch[s])
    OBVIOUS
  <2>1. Journalled!Resolved(s, bar) = [file[s] EXCEPT !.label = Journalled!Label(s, bar.k, bar.touch[s])]
    BY DEF Journalled!Resolved, RecordsInv, OnDisk
  <2>2. Journalled!Label(s, bar.k, bar.touch[s]) \in Journalled!Labels \union {Journalled!None}
    BY <1>3
  <2> HIDE DEF bar, done
  <2> QED
    BY <2>1, <2>2, <1>4 DEF Entry
<1>6. \A s \in done : Journalled!Label(s, bar.k, bar.touch[s]) \in Journalled!Told(s, bar)
  BY <1>2, <1>4 DEF Journalled!Told
<1> HIDE DEF bar, done
<1>7. Comes'
  BY <1>1 DEF RecordsInv, Comes
<1>8. /\ DOMAIN file' = DOMAIN file
      /\ \A s \in done : file'[s] = Journalled!Resolved(s, bar)
      /\ \A s \in DOMAIN file \ done : file'[s] = file[s]
      /\ entries' = file'
  BY <1>1, <1>4 DEF RecordsInv, OnDisk
<1>9. \A s \in Signals : given'[s] = given[s] \union Journalled!Told(s, bar)
  BY <1>1
<1>10. OnDisk'
  <2>1. file' = [s \in DOMAIN file' |-> file'[s]]
    BY <1>1
  <2>2. ASSUME NEW s \in DOMAIN file'
        PROVE  /\ s \in Signals /\ made'[s] >= 0 /\ file'[s] \in Entry
               /\ file'[s].label # Journalled!None => file'[s].label \in given'[s]
    <3>1. CASE s \in done
      BY <3>1, <1>1, <1>4, <1>5, <1>6, <1>8, <1>9
    <3>2. CASE s \notin done
      BY <3>2, <1>1, <1>8, <1>9 DEF RecordsInv, OnDisk
    <3> QED
      BY <3>1, <3>2
  <2>3. open' \subseteq DOMAIN file' /\ \A s \in open' : file'[s].label = Journalled!None
    BY <1>1, <1>8 DEF RecordsInv, OnDisk
  <2> QED
    BY <1>8, <2>1, <2>2, <2>3 DEF OnDisk
<1>11. /\ news \in Seq(done \cap Shadow)
       /\ \A i, j \in DOMAIN news : news[i] = news[j] => i = j
  <2>1. IsFiniteSet(done \cap Shadow)
    <3>1. done \cap Shadow \subseteq Signals
      BY <1>4
    <3> QED
      BY <3>1, FS_Subset
  <2> QED
    BY <2>1, AsSequence
<1> HIDE DEF news
<1>12. out' = news
  BY <1>1, <1>11
<1>13. \A i \in DOMAIN news : news[i] \in done /\ news[i] \in Shadow
  BY <1>11
<1>14. \A k \in DOMAIN trades : trades[k].signal \in DOMAIN file /\ file[trades[k].signal].label # Journalled!None
  BY TradeTyped DEF RecordsInv, Published
<1>15. ToPublish'
  <2>1. out' \in Seq(Shadow)
    BY <1>11, <1>12
  <2>2. \A i \in DOMAIN out' : out'[i] \in DOMAIN file' /\ file'[out'[i]].label # Journalled!None
    BY <1>2, <1>4, <1>5, <1>8, <1>12, <1>13
  <2>3. \A i \in DOMAIN out', k \in DOMAIN trades' : trades'[k].signal # out'[i]
    BY <1>1, <1>4, <1>12, <1>13, <1>14
  <2> QED
    BY <2>1, <2>2, <2>3, <1>11, <1>12 DEF ToPublish
<1>16. Published'
  <2>1. \A k \in DOMAIN trades : trades[k].signal \notin done
    BY <1>4, <1>14
  <2> QED
    BY <2>1, <1>1, <1>8, <1>14 DEF RecordsInv, Published
<1> QED
  BY <1>7, <1>10, <1>15, <1>16 DEF RecordsInv

(* The first of those that wait goes out. *)
LEMMA FlushKeeps == ASSUME RecordsInv, Journalled!Flush PROVE RecordsInv'
<1> DEFINE r == [signal |-> Head(out), label |-> entries[Head(out)].label]
<1>1. /\ out # <<>> /\ trades' = Append(trades, r) /\ out' = Tail(out)
      /\ UNCHANGED <<bars, made, signals, decisions, entries, open, file, given>>
  BY DEF Journalled!Flush
<1>2. Comes' /\ OnDisk'
  BY <1>1 DEF RecordsInv, Comes, OnDisk
<1>3. /\ Head(out) = out[1] /\ 1 \in DOMAIN out /\ out[1] \in Shadow /\ out' \in Seq(Shadow)
      /\ \A i \in DOMAIN out' : i + 1 \in DOMAIN out /\ i + 1 # 1 /\ out'[i] = out[i + 1] /\ i \in Nat
  BY <1>1 DEF RecordsInv, ToPublish
<1>4. /\ out[1] \in DOMAIN file /\ file[out[1]].label # Journalled!None /\ file[out[1]] \in Entry
      /\ \A k \in DOMAIN trades : trades[k].signal # out[1]
  BY <1>3 DEF RecordsInv, ToPublish, OnDisk
<1>5. r.signal = out[1] /\ r.label = file[out[1]].label /\ r \in Trade
  <2>1. entries = file
    BY DEF RecordsInv, OnDisk
  <2>2. file[out[1]].label \in Journalled!Labels
    BY <1>4 DEF Entry
  <2> QED
    BY <2>1, <2>2, <1>3 DEF Trade
<1> HIDE DEF r
<1>6. /\ trades' \in Seq(Trade) /\ DOMAIN trades' = 1..(Len(trades) + 1)
      /\ trades'[Len(trades) + 1] = r /\ Len(trades) \in Nat /\ DOMAIN trades = 1..Len(trades)
      /\ \A k \in DOMAIN trades : trades'[k] = trades[k]
  BY <1>1, <1>5 DEF RecordsInv, Published
<1>7. \A k \in DOMAIN trades' : k = Len(trades) + 1 \/ k \in DOMAIN trades
  BY <1>6
<1>8. ToPublish'
  <2>1. \A i, j \in DOMAIN out' : out'[i] = out'[j] => i = j
    <3> SUFFICES ASSUME NEW i \in DOMAIN out', NEW j \in DOMAIN out', out'[i] = out'[j]
                 PROVE  i = j
      OBVIOUS
    <3>1. i + 1 = j + 1
      BY <1>3 DEF RecordsInv, ToPublish
    <3> QED
      BY <3>1, <1>3
  <2>2. ASSUME NEW i \in DOMAIN out', NEW k \in DOMAIN trades' PROVE trades'[k].signal # out'[i]
    <3>1. CASE k \in DOMAIN trades
      BY <3>1, <1>3, <1>6 DEF RecordsInv, ToPublish
    <3>2. CASE k = Len(trades) + 1
      BY <3>2, <1>3, <1>5, <1>6 DEF RecordsInv, ToPublish
    <3> QED
      BY <3>1, <3>2, <1>7
  <2>3. \A i \in DOMAIN out' : out'[i] \in DOMAIN file' /\ file'[out'[i]].label # Journalled!None
    BY <1>1, <1>3 DEF RecordsInv, ToPublish
  <2> QED
    BY <2>1, <2>2, <2>3, <1>3 DEF ToPublish
<1>9. Published'
  <2>1. ASSUME NEW k \in DOMAIN trades'
        PROVE  trades'[k].signal \in DOMAIN file' /\ file'[trades'[k].signal].label = trades'[k].label
    <3>1. CASE k \in DOMAIN trades
      BY <3>1, <1>1, <1>6 DEF RecordsInv, Published
    <3>2. CASE k = Len(trades) + 1
      BY <3>2, <1>1, <1>4, <1>5, <1>6
    <3> QED
      BY <3>1, <3>2, <1>7
  <2>2. ASSUME NEW k \in DOMAIN trades', NEW l \in DOMAIN trades', trades'[k].signal = trades'[l].signal
        PROVE  k = l
    <3>1. CASE k \in DOMAIN trades /\ l \in DOMAIN trades
      BY <3>1, <2>2, <1>6 DEF RecordsInv, Published
    <3>2. CASE k = Len(trades) + 1 /\ l \in DOMAIN trades
      BY <3>2, <2>2, <1>4, <1>5, <1>6
    <3>3. CASE k \in DOMAIN trades /\ l = Len(trades) + 1
      BY <3>3, <2>2, <1>4, <1>5, <1>6
    <3> QED
      BY <3>1, <3>2, <3>3, <1>7
  <2> QED
    BY <2>1, <2>2, <1>6 DEF Published
<1> QED
  BY <1>2, <1>8, <1>9 DEF RecordsInv

(* A new process knows what is on the file, and has nothing to publish. *)
LEMMA CrashReads ==
    ASSUME RecordsInv, NEW later \in 0..1, Journalled!Crash(later)
    PROVE  RecordsInv'
<1>1. /\ bars' = bars + later /\ entries' = file /\ open' = {s \in DOMAIN file : file[s].label = Journalled!None}
      /\ out' = <<>> /\ UNCHANGED <<made, signals, decisions, file, trades, given>>
  BY DEF Journalled!Crash
<1>2. Comes'
  BY <1>1 DEF RecordsInv, Comes
<1>3. OnDisk'
  BY <1>1 DEF RecordsInv, OnDisk
<1>4. ToPublish' /\ Published'
  BY <1>1 DEF RecordsInv, ToPublish, Published
<1> QED
  BY <1>2, <1>3, <1>4 DEF RecordsInv

(* Whatever message comes twice, in whatever order, and wherever the process dies: a shadow signal becomes one shadow
   trade at most, with the outcome that is on disk; an outcome is that of a bar from after the signal, and memory never
   knows one that the file does not (learning/journal.py). *)
THEOREM OutcomesStand ==
    ASSUME IsFiniteSet(Signals)
    PROVE  Journalled!Spec => []Journalled!JournalStands
<1>1. Journalled!Init => RecordsInv
  <2> SUFFICES ASSUME Journalled!Init PROVE RecordsInv
    OBVIOUS
  <2>1. Comes
    BY DEF Journalled!Init, Comes
  <2>2. OnDisk
    BY DEF Journalled!Init, OnDisk
  <2>3. ToPublish /\ Published
    BY DEF Journalled!Init, ToPublish, Published
  <2> QED
    BY <2>1, <2>2, <2>3 DEF RecordsInv
<1>2. RecordsInv /\ [Journalled!Next]_(Journalled!vars) => RecordsInv'
  <2> SUFFICES ASSUME RecordsInv, [Journalled!Next]_(Journalled!vars) PROVE RecordsInv'
    OBVIOUS
  <2>1. CASE UNCHANGED Journalled!vars
    BY <2>1 DEF Journalled!vars, RecordsInv, Comes, OnDisk, ToPublish, Published
  <2>2. CASE \E s \in Signals : Journalled!Emit(s) \/ Journalled!OnSignal(s)
    BY <2>2, EmitKeeps, OnSignalKeeps
  <2>3. CASE \E m \in decisions : Journalled!OnIntent(m) \/ Journalled!OnDecision(m)
    BY <2>3, OnDecisionKeeps
  <2>4. CASE \E touch \in [Signals -> Journalled!Touches] : Journalled!Bar(touch)
    BY <2>4, BarKeeps
  <2>5. CASE Journalled!Flush \/ \E later \in 0..1 : Journalled!Crash(later)
    BY <2>5, FlushKeeps, CrashReads
  <2> QED
    BY <2>1, <2>2, <2>3, <2>4, <2>5 DEF Journalled!Next
<1>3. RecordsInv => Journalled!JournalStands
  <2> SUFFICES ASSUME RecordsInv PROVE Journalled!JournalStands
    OBVIOUS
  <2>1. \A i \in DOMAIN trades : trades[i].signal \in Shadow
    BY TradeTyped DEF RecordsInv
  <2> QED
    BY <2>1 DEF RecordsInv, OnDisk, Published, Journalled!JournalStands
<1> QED
  BY <1>1, <1>2, <1>3, PTL DEF Journalled!Spec

-----------------------------------------------------------------------------
(* CostModel.  The argument: what the property says of a version is about the versions up to it, and the
   registry only grows, so each calibration has to be looked at once, when it is made; a drop against an
   older version is one against the version in force, or one that was there before. *)

(* Costs are numbers; the minimum of fills and the number of weeks are numbers too, of any sign. *)
CostAssumption == Costs \subseteq Int /\ {MinFills, Weeks} \subseteq Int

Version == [cost : [Markets -> Costs \union {None}], fills : [Markets -> Int], status : {"active", "pending"}]

(* The versions in force before version i of a registry, and the last of them. *)
ActiveBefore(reg, i) == {j \in 1..(i - 1) : reg[j].status = "active"}
Standing(reg, i) == Costed!Max(ActiveBefore(reg, i))

(* What CheaperWaits says of a version, in three parts. *)
CheaperIsEarned(reg, i) ==
    reg[i].status = "active" /\ Costed!Cheaper(reg[i].cost, reg[Standing(reg, i)]) # {} =>
        /\ \A s \in Costed!Cheaper(reg[i].cost, reg[Standing(reg, i)]) : reg[i].fills[s] >= MinFills
        /\ i - Standing(reg, i) >= Weeks
        /\ \A j \in (Standing(reg, i) + 1)..i : Costed!Cheaper(reg[j].cost, reg[Standing(reg, i)]) # {}
PendingIsCheaper(reg, i) ==
    reg[i].status = "pending" => Costed!Cheaper(reg[i].cost, reg[Standing(reg, i)]) # {}
DroppedOnce(reg, j, i, s) ==
    \/ \E k \in (j + 1)..i : reg[k].status = "active" /\ reg[k].fills[s] >= MinFills /\ k - Standing(reg, k) >= Weeks
    \/ \E k \in j..i : reg[k].status = "active" /\ reg[k].cost[s] = None
Drops(reg, j, i, s) ==
    /\ reg[i].status = "active" /\ reg[j].status = "active"
    /\ reg[j].cost[s] # None /\ reg[i].cost[s] # None /\ reg[i].cost[s] < reg[j].cost[s]
NoOtherDrop(reg, i) == \A j \in 1..(i - 1), s \in Markets : Drops(reg, j, i, s) => DroppedOnce(reg, j, i, s)

Waits(reg, i) == CheaperIsEarned(reg, i) /\ PendingIsCheaper(reg, i) /\ NoOtherDrop(reg, i)

CostInv ==
    /\ registry \in Seq(Version) /\ fills \in [Markets -> Int]
    /\ registry # <<>> => registry[1].status = "active"
    /\ \A i \in DOMAIN registry : i > 1 => Waits(registry, i)

-----------------------------------------------------------------------------
(* A set of naturals that are not greater than n has a greatest element. *)
LEMMA Greatest ==
    ASSUME NEW n \in Nat, NEW T \in SUBSET (0..n), T # {}
    PROVE  \E i \in T : \A k \in T : k <= i
<1> DEFINE U == {n - i : i \in T}
<1>0. \A i \in T : i \in Nat /\ i <= n
  OBVIOUS
<1>1. U \in SUBSET Nat /\ U # {}
  <2>1. \A i \in T : n - i \in Nat
    BY <1>0
  <2> QED
    BY <2>1
<1>2. PICK u \in U : \A m \in U : ~ (<<m, u>> \in OpToRel(<, Nat))
  BY Zenon, <1>1, NatLessThanWellFounded, WFMin
<1>3. ASSUME NEW m \in U PROVE u <= m
  <2>1. ~(<<m, u>> \in OpToRel(<, Nat))
    BY <1>2
  <2>2. m \in Nat /\ u \in Nat
    BY <1>1
  <2> QED
    BY <2>1, <2>2 DEF OpToRel
<1>4. PICK i \in T : u = n - i
  OBVIOUS
<1>5. \A k \in T : n - i <= n - k
  BY <1>3, <1>4
<1>6. \A k \in T : k <= i
  BY <1>0, <1>5
<1> QED
  BY <1>6

(* The version in force before version i: it was activated, and none after it. *)
LEMMA InForce ==
    ASSUME NEW reg, NEW i \in Nat, i > 1, reg[1].status = "active"
    PROVE  /\ Standing(reg, i) \in 1..(i - 1) /\ reg[Standing(reg, i)].status = "active"
           /\ \A j \in 1..(i - 1) : reg[j].status = "active" => j <= Standing(reg, i)
<1> DEFINE T == ActiveBefore(reg, i)
<1>1. 1 \in T /\ T \in SUBSET (0..i) /\ T \subseteq Int
  BY DEF ActiveBefore
<1>2. \E k \in T : \A j \in T : j <= k
  BY <1>1, Greatest
<1>3. \E k \in T : \A j \in T : k >= j
  BY <1>1, <1>2
<1> HIDE DEF T
<1>4. Costed!Max(T) \in T /\ \A j \in T : Costed!Max(T) >= j
  BY <1>3 DEF Costed!Max
<1>5. \A j \in T : j <= Costed!Max(T)
  BY <1>1, <1>4
<1> QED
  BY <1>4, <1>5 DEF T, Standing, ActiveBefore

(* There is one such version. *)
LEMMA OneInForce ==
    ASSUME NEW reg, NEW i \in Nat, i > 1, reg[1].status = "active",
           NEW b \in 1..(i - 1), reg[b].status = "active",
           \A j \in 1..(i - 1) : reg[j].status = "active" => j <= b
    PROVE  Standing(reg, i) = b
<1>1. /\ Standing(reg, i) \in 1..(i - 1) /\ reg[Standing(reg, i)].status = "active" /\ b <= Standing(reg, i)
  BY InForce
<1>2. Standing(reg, i) <= b
  BY <1>1
<1> QED
  BY <1>1, <1>2

(* What is said of a version is about those up to it. *)
LEMMA WaitsStays ==
    ASSUME NEW reg, NEW new, NEW i \in Nat, i > 1, reg[1].status = "active",
           \A j \in 1..i : new[j] = reg[j], Waits(reg, i)
    PROVE  Waits(new, i)
<1>1. ASSUME NEW k \in 1..i PROVE Standing(new, k) = Standing(reg, k)
  <2>1. ActiveBefore(new, k) = ActiveBefore(reg, k)
    BY DEF ActiveBefore
  <2> QED
    BY <2>1 DEF Standing
<1>2. /\ Standing(new, i) = Standing(reg, i) /\ Standing(reg, i) \in 1..(i - 1) /\ i \in 1..i
      /\ new[i] = reg[i] /\ new[Standing(reg, i)] = reg[Standing(reg, i)]
  BY <1>1, InForce
<1>3. CheaperIsEarned(new, i)
  <2>1. \A j \in (Standing(reg, i) + 1)..i : j \in 1..i /\ new[j] = reg[j]
    BY <1>2
  <2> QED
    BY <2>1, <1>2 DEF Waits, CheaperIsEarned
<1>4. PendingIsCheaper(new, i)
  BY <1>2 DEF Waits, PendingIsCheaper
<1>5. NoOtherDrop(new, i)
  <2> SUFFICES ASSUME NEW j \in 1..(i - 1), NEW s \in Markets, Drops(new, j, i, s)
               PROVE  DroppedOnce(new, j, i, s)
    BY DEF NoOtherDrop
  <2>1. new[j] = reg[j] /\ j \in 1..i
    OBVIOUS
  <2>2. Drops(reg, j, i, s)
    BY <2>1, <1>2 DEF Drops
  <2>3. DroppedOnce(reg, j, i, s)
    BY <2>2 DEF Waits, NoOtherDrop
  <2>4. \A k \in j..i : k \in 1..i /\ new[k] = reg[k] /\ Standing(new, k) = Standing(reg, k)
    BY <2>1, <1>1
  <2>5. \A k \in (j + 1)..i : k \in 1..i /\ new[k] = reg[k] /\ Standing(new, k) = Standing(reg, k)
    BY <2>1, <2>4
  <2> QED
    BY <2>3, <2>4, <2>5 DEF DroppedOnce
<1> QED
  BY <1>3, <1>4, <1>5 DEF Waits

(* A calibration. *)
LEMMA CalibrateKeeps ==
    ASSUME CostAssumption, CostInv, NEW cost \in [Markets -> Costs \union {None}], NEW more,
           Costed!Calibrate(cost, more)
    PROVE  CostInv'
<1> DEFINE n == Len(registry)
           v == [cost |-> cost, fills |-> fills', status |-> Costed!Decide(cost, fills', registry)]
<1>1. registry' = Append(registry, v) /\ fills' \in [Markets -> Int]
  BY DEF Costed!Calibrate, CostInv
<1>2. Costed!Decide(cost, fills', registry) \in {"active", "pending"}
  BY DEF Costed!Decide
<1>3. v \in Version
  BY <1>1, <1>2 DEF Version
<1>4. v.cost = cost /\ v.fills = fills' /\ v.status = Costed!Decide(cost, fills', registry)
  OBVIOUS
<1> HIDE DEF v
<1>5. /\ registry \in Seq(Version) /\ registry' \in Seq(Version) /\ n \in Nat
      /\ DOMAIN registry = 1..n /\ DOMAIN registry' = 1..(n + 1)
      /\ registry'[n + 1] = v /\ \A j \in 1..n : registry'[j] = registry[j]
  BY <1>1, <1>3 DEF CostInv
<1>6. CASE n = 0
  <2>1. Costed!ActiveAt(registry) = {}
    BY <1>5, <1>6 DEF Costed!ActiveAt
  <2>2. v.status = "active"
    BY <2>1, <1>4 DEF Costed!Decide
  <2> QED
    BY <2>2, <1>1, <1>5, <1>6 DEF CostInv
<1>7. CASE n > 0
  <2> DEFINE new == registry'
             b == Standing(new, n + 1)
  <2>1. registry[1].status = "active" /\ new[1].status = "active"
    BY <1>5, <1>7 DEF CostInv
  <2>2. /\ b \in 1..n /\ new[b].status = "active" /\ new[b] = registry[b]
        /\ \A j \in 1..n : new[j].status = "active" => j <= b
    <3>1. n + 1 \in Nat /\ n + 1 > 1 /\ (n + 1) - 1 = n
      BY <1>5, <1>7
    <3>2. b \in 1..n /\ new[b].status = "active" /\ \A j \in 1..n : new[j].status = "active" => j <= b
      BY <3>1, <2>1, InForce
    <3> QED
      BY <3>2, <1>5
  <2>3. /\ Costed!ActiveAt(registry) = ActiveBefore(new, n + 1) /\ Costed!ActiveAt(registry) # {}
        /\ Costed!Active(registry) = new[b] /\ Costed!Streak(registry) = (n + 1) - b
    <3>1. Costed!ActiveAt(registry) = ActiveBefore(new, n + 1)
      BY <1>5 DEF Costed!ActiveAt, ActiveBefore
    <3>2. Costed!ActiveAt(registry) # {}
      BY <2>1, <1>5, <1>7 DEF Costed!ActiveAt
    <3>3. Costed!Max(Costed!ActiveAt(registry)) = b
      BY <3>1 DEF Standing
    <3>4. Costed!Active(registry) = new[b]
      BY <3>3, <2>2 DEF Costed!Active
    <3>5. Costed!Streak(registry) = n - b + 1
      BY <3>2, <3>3 DEF Costed!Streak
    <3> QED
      BY <3>1, <3>2, <3>4, <3>5, <2>2, <1>5
  <2> DEFINE cheaper == Costed!Cheaper(cost, new[b])
  <2>4. v.status = IF \/ cheaper = {}
                      \/ (\A s \in cheaper : fills'[s] >= MinFills) /\ (n + 1) - b >= Weeks
                   THEN "active" ELSE "pending"
    BY <2>3, <1>4 DEF Costed!Decide
  <2> HIDE DEF b, new
  <2>5. new = registry' /\ n + 1 \in Nat /\ n + 1 > 1 /\ n \in Nat /\ new[n + 1] = v
    BY <1>5, <1>7 DEF new
  <2>6. \A i \in 1..n : i > 1 => Waits(registry, i)
    BY <1>5 DEF CostInv
  <2>7. \A i \in 1..n : i > 1 => Waits(new, i)
    <3> SUFFICES ASSUME NEW i \in 1..n, i > 1 PROVE Waits(new, i)
      OBVIOUS
    <3>1. i \in Nat /\ Waits(registry, i) /\ \A j \in 1..i : new[j] = registry[j]
      BY <2>5, <2>6, <1>5
    <3> QED
      BY <3>1, <2>1, WaitsStays
  <2>8. PendingIsCheaper(new, n + 1)
    BY <2>4, <2>5, <1>4 DEF PendingIsCheaper, b
  <2>9. ASSUME NEW j \in (b + 1)..n PROVE Costed!Cheaper(new[j].cost, new[b]) # {}
    <3>1. j \in 1..n /\ j \in Nat /\ j > 1 /\ b < j /\ b \in 1..(j - 1)
      BY <2>2, <2>5
    <3>2. new[j].status # "active"
      BY <3>1, <2>2
    <3>3. new[j].status = "pending"
      <4>1. registry[j] \in Version
        BY <3>1, <1>5
      <4> QED
        BY <4>1, <3>1, <3>2, <1>5, <2>5 DEF Version
    <3>4. \A k \in 1..(j - 1) : new[k].status = "active" => k <= b
      BY <3>1, <2>2, <2>5
    <3>5. Standing(new, j) = b
      BY <3>1, <3>4, <2>1, <2>2, OneInForce
    <3>6. PendingIsCheaper(new, j)
      BY <3>1, <2>7 DEF Waits
    <3> QED
      BY <3>3, <3>5, <3>6 DEF PendingIsCheaper
  <2>10. CheaperIsEarned(new, n + 1)
    <3> SUFFICES ASSUME v.status = "active", cheaper # {}
                 PROVE  /\ \A s \in cheaper : fills'[s] >= MinFills
                        /\ (n + 1) - b >= Weeks
                        /\ \A j \in (b + 1)..(n + 1) : Costed!Cheaper(new[j].cost, new[b]) # {}
      BY <2>5, <1>4 DEF CheaperIsEarned, b
    <3>1. (\A s \in cheaper : fills'[s] >= MinFills) /\ (n + 1) - b >= Weeks
      BY <2>4
    <3>2. ASSUME NEW j \in (b + 1)..(n + 1) PROVE Costed!Cheaper(new[j].cost, new[b]) # {}
      <4>1. CASE j = n + 1
        BY <4>1, <2>5, <1>4
      <4>2. CASE j # n + 1
        <5>1. j \in (b + 1)..n
          BY <4>2, <2>2, <2>5
        <5> QED
          BY <5>1, <2>9
      <4> QED
        BY <4>1, <4>2
    <3> QED
      BY <3>1, <3>2
  <2>11. NoOtherDrop(new, n + 1)
    <3> SUFFICES ASSUME NEW j \in 1..n, NEW s \in Markets, Drops(new, j, n + 1, s)
                 PROVE  DroppedOnce(new, j, n + 1, s)
      <4>1. (n + 1) - 1 = n
        BY <2>5
      <4> QED
        BY <4>1 DEF NoOtherDrop
    <3>1. /\ v.status = "active" /\ new[j].status = "active" /\ new[j].cost[s] # None
          /\ cost[s] # None /\ cost[s] < new[j].cost[s]
      BY <2>5, <1>4 DEF Drops
    <3>2. j <= b
      BY <3>1, <2>2
    <3>3. new[b] \in Version /\ new[j] \in Version
      BY <2>2, <1>5 DEF new
    <3>4. CASE new[b].cost[s] = None
      <4>1. b \in j..(n + 1)
        BY <3>2, <2>2, <2>5
      <4> QED
        BY <4>1, <3>4, <2>2 DEF DroppedOnce
    <3>5. CASE new[b].cost[s] # None
      <4>1. cost[s] \in Int /\ new[b].cost[s] \in Int /\ new[j].cost[s] \in Int
        BY <3>1, <3>3, <3>5 DEF Version, CostAssumption
      <4>2. CASE cost[s] < new[b].cost[s]
        <5>1. s \in cheaper
          BY <4>2, <3>1, <3>5 DEF Costed!Cheaper
        <5>2. fills'[s] >= MinFills /\ (n + 1) - b >= Weeks
          BY <5>1, <3>1, <2>4
        <5>3. n + 1 \in (j + 1)..(n + 1)
          BY <2>5
        <5> QED
          BY <5>2, <5>3, <3>1, <2>5, <1>4 DEF DroppedOnce, b
      <4>3. CASE ~(cost[s] < new[b].cost[s])
        <5>1. new[b].cost[s] < new[j].cost[s]
          BY <4>1, <4>3, <3>1
        <5>2. j < b /\ b > 1 /\ j \in 1..(b - 1)
          BY <5>1, <4>1, <3>2, <2>2
        <5>3. Drops(new, j, b, s)
          BY <5>1, <3>1, <3>5, <2>2 DEF Drops
        <5>4. DroppedOnce(new, j, b, s)
          BY <5>2, <5>3, <2>2, <2>7 DEF Waits, NoOtherDrop
        <5>5. (\A k \in (j + 1)..b : k \in (j + 1)..(n + 1)) /\ \A k \in j..b : k \in j..(n + 1)
          BY <2>2, <2>5
        <5> QED
          BY <5>4, <5>5 DEF DroppedOnce
      <4> QED
        BY <4>2, <4>3
    <3> QED
      BY <3>4, <3>5
  <2>12. \A i \in 1..(n + 1) : i > 1 => Waits(new, i)
    <3>1. Waits(new, n + 1)
      BY <2>8, <2>10, <2>11 DEF Waits
    <3>2. \A i \in 1..(n + 1) : i = n + 1 \/ i \in 1..n
      BY <2>5
    <3> QED
      BY <3>1, <3>2, <2>7
  <2> QED
    BY <2>1, <2>5, <2>12, <1>1, <1>5 DEF CostInv
<1> QED
  BY <1>5, <1>6, <1>7

(* Whatever is quoted and filled: a model that is cheaper in some market is in force only on the fills of all those
   markets and after its weeks in a row, and over the whole history no market gets cheaper in any other way, unless the
   model lost sight of it in between (learning/costs.py, decide). *)
THEOREM CheaperIsSlow ==
    ASSUME CostAssumption
    PROVE  Costed!Spec => []Costed!CheaperWaits
<1>1. Costed!Init => CostInv
  BY DEF Costed!Init, CostInv
<1>2. CostInv /\ [Costed!Next]_(Costed!vars) => CostInv'
  <2> SUFFICES ASSUME CostInv, [Costed!Next]_(Costed!vars) PROVE CostInv'
    OBVIOUS
  <2>1. CASE UNCHANGED Costed!vars
    BY <2>1 DEF Costed!vars, CostInv
  <2>2. CASE Costed!Next
    BY <2>2, CalibrateKeeps DEF Costed!Next
  <2> QED
    BY <2>1, <2>2
<1>3. CostInv => Costed!CheaperWaits
  <2> SUFFICES ASSUME CostInv, NEW i \in DOMAIN registry, i > 1
               PROVE  /\ CheaperIsEarned(registry, i) /\ PendingIsCheaper(registry, i)
                      /\ \A j \in 1..(i - 1), s \in Markets : Drops(registry, j, i, s) => DroppedOnce(registry, j, i, s)
    BY Zenon DEF Costed!CheaperWaits, Costed!InForce, CheaperIsEarned, PendingIsCheaper, Drops, DroppedOnce, Standing, ActiveBefore
  <2> QED
    BY DEF CostInv, Waits, NoOtherDrop
<1> QED
  BY <1>1, <1>2, <1>3, PTL DEF Costed!Spec

-----------------------------------------------------------------------------
(* Validation.  The argument: the attempt is on the ledger from before the evaluation, and the ledger only
   grows, so that no later run gets past the lock; a run's records carry its number, so that what its
   checks count and what its report says is of that run. *)

(* What a run consists of, its phases up to the checks and after them, and what a record can be. *)
Fields == {"phase", "version", "epoch", "windows", "left", "i", "params", "stable", "pairs", "counted", "passed"}
Early == {"train", "test", "stability", "cross", "checks"}
Late == {"lock", "evaluate", "holdout", "report"}
TrialRecord == [kind : Validated!Kinds \union {"attempt"}, version : Versions, epoch : Epochs, run : Int]
Own(n) == {i \in DOMAIN ledger : ledger[i].run = n /\ ledger[i].kind \notin {"attempt", "holdout"}}

RunTypes ==
    /\ ledger \in Seq(TrialRecord) /\ seen \in Seq(TrialRecord) /\ runs \in Nat
    /\ \/ run = Validated!Nothing
       \/ /\ DOMAIN run = Fields /\ run.phase \in Early \union Late
          /\ run.version \in Versions /\ run.epoch \in Epochs

(* A record and a report are of a run that was started; those of the run that runs are of its version. *)
OfRuns ==
    /\ \A i \in DOMAIN ledger : ledger[i].run <= runs
    /\ \A r \in reports : r.run \in Int /\ r.run <= runs
    /\ run # Validated!Nothing =>
          /\ \A i \in DOMAIN ledger : ledger[i].run = runs => ledger[i].version = run.version
          /\ \A r \in reports : r.run < runs

(* No holdout is evaluated without an attempt, and none twice. *)
SeenOnce ==
    /\ \A i \in DOMAIN seen : \E a \in DOMAIN ledger : ledger[a].kind = "attempt" /\ ledger[a].version = seen[i].version
    /\ \A i, j \in DOMAIN seen : seen[i].version = seen[j].version => i = j
    /\ run.phase = "evaluate" =>
          /\ \E a \in DOMAIN ledger : ledger[a].kind = "attempt" /\ ledger[a].version = run.version
          /\ \A i \in DOMAIN seen : seen[i].version # run.version

WithinQuota == \A v \in Versions, e \in Epochs : Cardinality(Validated!AttemptsIn(Family[v], e)) <= MaxPerFamily

SeenIn(v, n) == \E i \in DOMAIN seen : seen[i].version = v /\ seen[i].run = n
PassedIn(v, n) == SeenIn(v, n) /\ \E i \in DOMAIN ledger : ledger[i].kind = "holdout" /\ ledger[i].run = n

(* What a report of the run that runs will stand on. *)
RunHonest ==
    /\ run.phase \in Late => run.counted \in Nat /\ run.counted >= Cardinality(Own(runs))
    /\ run.phase = "holdout" => SeenIn(run.version, runs)
    /\ run # Validated!Nothing /\ run.passed => run.phase = "report" /\ PassedIn(run.version, runs)

ReportsHonest == \A r \in reports : r.passed => PassedIn(r.version, r.run) /\ r.counted >= Cardinality(Own(r.run))

HoldoutInv == RunTypes /\ OfRuns /\ SeenOnce /\ WithinQuota /\ RunHonest /\ ReportsHonest

-----------------------------------------------------------------------------
LEMMA CardinalityIsOne == \A S : Validated!Cardinality(S) = Cardinality(S)
  BY DEF Validated!Cardinality, Cardinality

LEMMA FiniteParts ==
    ASSUME RunTypes, NEW S \in SUBSET DOMAIN ledger
    PROVE  IsFiniteSet(S) /\ Cardinality(S) \in Nat
<1>1. DOMAIN ledger = 1..Len(ledger) /\ Len(ledger) \in Int /\ 1 \in Int
  BY DEF RunTypes
<1>2. IsFiniteSet(DOMAIN ledger)
  BY <1>1, FS_Interval
<1> QED
  BY <1>2, FS_Subset, FS_CardinalityType

(* The run that runs is none, or has its fields. *)
LEMMA RunIs ==
    ASSUME RunTypes
    PROVE  run # Validated!Nothing <=> run.phase \in Early \union Late
<1>1. Validated!Nothing.phase \notin Early \union Late
  BY DEF Validated!Nothing, Early, Late
<1> QED
  BY <1>1 DEF RunTypes

(* No run is one. *)
LEMMA TypesKeep ==
    ASSUME RunTypes, UNCHANGED <<ledger, seen, runs>>, run' = Validated!Nothing
    PROVE  RunTypes'
<1>1. ledger' \in Seq(TrialRecord) /\ seen' \in Seq(TrialRecord) /\ runs' \in Nat
  BY DEF RunTypes
<1>2. run' = Validated!Nothing'
  BY DEF Validated!Nothing
<1> QED
  BY <1>1, <1>2 DEF RunTypes, TrialRecord

(* A record more. *)
LEMMA Recorded ==
    ASSUME RunTypes, NEW r \in TrialRecord, ledger' = Append(ledger, r)
    PROVE  /\ ledger' \in Seq(TrialRecord) /\ Len(ledger) \in Nat
           /\ DOMAIN ledger = 1..Len(ledger) /\ DOMAIN ledger' = 1..(Len(ledger) + 1)
           /\ ledger'[Len(ledger) + 1] = r
           /\ \A i \in DOMAIN ledger : i \in DOMAIN ledger' /\ ledger'[i] = ledger[i]
           /\ \A i \in DOMAIN ledger' : i = Len(ledger) + 1 \/ i \in DOMAIN ledger
  BY DEF RunTypes

(* What was seen and passed stays so, and what has its attempt keeps it. *)
LEMMA EvidenceStays ==
    ASSUME RunTypes, NEW r \in TrialRecord, ledger' = Append(ledger, r), seen' = seen, NEW v, NEW n
    PROVE  (SeenIn(v, n) => SeenIn(v, n)') /\ (PassedIn(v, n) => PassedIn(v, n)')
  BY Recorded DEF SeenIn, PassedIn

(* Which records are a run's own, and which are attempts. *)
LEMMA OwnAfter ==
    ASSUME RunTypes, NEW r \in TrialRecord, ledger' = Append(ledger, r), NEW n,
           r.run # n \/ r.kind \in {"attempt", "holdout"}
    PROVE  Own(n)' = Own(n)
  BY Recorded DEF Own

LEMMA AttemptsAfter ==
    ASSUME RunTypes, NEW r \in TrialRecord, ledger' = Append(ledger, r), NEW f, NEW e
    PROVE  Validated!AttemptsIn(f, e)' =
              IF r.kind = "attempt" /\ Family[r.version] = f /\ r.epoch = e
              THEN Validated!AttemptsIn(f, e) \union {Len(ledger) + 1} ELSE Validated!AttemptsIn(f, e)
<1> USE DEF Validated!AttemptsIn, Validated!Attempts
<1>1. CASE r.kind = "attempt" /\ Family[r.version] = f /\ r.epoch = e
  BY <1>1, Recorded
<1>2. CASE ~(r.kind = "attempt" /\ Family[r.version] = f /\ r.epoch = e)
  BY <1>2, Recorded
<1> QED
  BY <1>1, <1>2

LEMMA TrialIs ==
    ASSUME HoldoutInv, run # Validated!Nothing, NEW kind \in Validated!Kinds \union {"attempt"}
    PROVE  /\ Validated!Trial(kind) \in TrialRecord
           /\ Validated!Trial(kind).kind = kind /\ Validated!Trial(kind).version = run.version
           /\ Validated!Trial(kind).epoch = run.epoch /\ Validated!Trial(kind).run = runs
<1>1. run.version \in Versions /\ run.epoch \in Epochs /\ runs \in Int
  BY DEF HoldoutInv, RunTypes
<1> QED
  BY <1>1 DEF Validated!Trial, TrialRecord

(* A record that is no attempt leaves the quota. *)
LEMMA QuotaStays ==
    ASSUME RunTypes, WithinQuota, NEW r \in TrialRecord, ledger' = Append(ledger, r), r.kind # "attempt"
    PROVE  WithinQuota'
<1>1. \A v \in Versions, e \in Epochs : Validated!AttemptsIn(Family[v], e)' = Validated!AttemptsIn(Family[v], e)
  BY AttemptsAfter
<1> QED
  BY <1>1 DEF WithinQuota

(* The reports stand when the run that runs makes a record. *)
LEMMA ReportsStay ==
    ASSUME HoldoutInv, run # Validated!Nothing, NEW r \in TrialRecord, r.run = runs,
           ledger' = Append(ledger, r), UNCHANGED <<seen, reports>>
    PROVE  ReportsHonest'
<1> SUFFICES ASSUME NEW x \in reports, x.passed
             PROVE  PassedIn(x.version, x.run)' /\ x.counted >= Cardinality(Own(x.run)')
  BY DEF ReportsHonest
<1>0. RunTypes
  BY DEF HoldoutInv
<1>1. PassedIn(x.version, x.run) /\ x.counted >= Cardinality(Own(x.run))
  BY DEF HoldoutInv, ReportsHonest
<1>2. x.run < runs
  BY DEF HoldoutInv, OfRuns
<1>3. r.run # x.run
  BY <1>2, <1>0 DEF RunTypes
<1>4. Own(x.run)' = Own(x.run)
  BY <1>0, <1>3, OwnAfter
<1> QED
  BY <1>0, <1>1, <1>4, EvidenceStays

(* Where the records come from, and that nothing was evaluated. *)
LEMMA LedgerKeeps ==
    ASSUME HoldoutInv, run # Validated!Nothing, NEW r \in TrialRecord, r.run = runs, r.version = run.version,
           ledger' = Append(ledger, r), UNCHANGED <<seen, reports, runs>>,
           DOMAIN run' = Fields, run'.phase \in Early \union Late,
           run'.version = run.version, run'.epoch = run.epoch
    PROVE  /\ RunTypes' /\ OfRuns' /\ ReportsHonest'
           /\ \A i \in DOMAIN seen' : \E a \in DOMAIN ledger' :
                 ledger'[a].kind = "attempt" /\ ledger'[a].version = seen'[i].version
           /\ \A i, j \in DOMAIN seen' : seen'[i].version = seen'[j].version => i = j
<1>0. RunTypes /\ OfRuns /\ SeenOnce
  BY DEF HoldoutInv
<1>1. RunTypes'
  BY <1>0, Recorded DEF RunTypes
<1>2. OfRuns'
  <2>1. runs \in Nat
    BY <1>0 DEF RunTypes
  <2>2. \A i \in DOMAIN ledger' : ledger'[i].run <= runs
    BY <1>0, <2>1, Recorded DEF OfRuns
  <2>3. \A i \in DOMAIN ledger' : ledger'[i].run = runs => ledger'[i].version = run.version
    BY <1>0, Recorded DEF OfRuns
  <2> QED
    BY <1>0, <2>2, <2>3 DEF OfRuns
<1>3. \A i \in DOMAIN seen' : \E a \in DOMAIN ledger' :
          ledger'[a].kind = "attempt" /\ ledger'[a].version = seen'[i].version
  <2> SUFFICES ASSUME NEW i \in DOMAIN seen
               PROVE  \E a \in DOMAIN ledger' : ledger'[a].kind = "attempt" /\ ledger'[a].version = seen[i].version
    OBVIOUS
  <2>1. PICK a \in DOMAIN ledger : ledger[a].kind = "attempt" /\ ledger[a].version = seen[i].version
    BY <1>0 DEF SeenOnce
  <2>2. a \in DOMAIN ledger' /\ ledger'[a] = ledger[a]
    BY <1>0, Recorded
  <2> QED
    BY <2>1, <2>2
<1>4. \A i, j \in DOMAIN seen' : seen'[i].version = seen'[j].version => i = j
  BY <1>0 DEF SeenOnce
<1> QED
  BY <1>1, <1>2, <1>3, <1>4, ReportsStay

-----------------------------------------------------------------------------
(* A backtest before the checks. *)
LEMMA EarlyKeeps ==
    ASSUME HoldoutInv, NEW b \in BOOLEAN,
           Validated!Train(b) \/ Validated!Test \/ Validated!Stability(b) \/ Validated!Cross(b)
    PROVE  HoldoutInv'
<1>0. RunTypes /\ SeenOnce /\ WithinQuota /\ RunHonest
  BY DEF HoldoutInv
<1>1. run.phase \in Early \ {"checks"}
  BY DEF Validated!Train, Validated!Test, Validated!Stability, Validated!Cross, Early
<1>2. run # Validated!Nothing /\ DOMAIN run = Fields
  BY <1>0, <1>1, RunIs DEF RunTypes
<1>3. PICK kind \in Validated!Kinds \ {"holdout"} :
          /\ ledger' = Append(ledger, Validated!Trial(kind)) /\ UNCHANGED <<reports, seen, runs, crashes>>
          /\ DOMAIN run' = Fields /\ run'.phase \in Early /\ run'.version = run.version /\ run'.epoch = run.epoch
          /\ run'.passed = run.passed
  <2> USE DEF Validated!Backtest, Validated!Kinds, Early, Fields
  <2>1. CASE Validated!Train(b)
    BY <2>1, <1>2 DEF Validated!Train
  <2>2. CASE Validated!Test
    BY <2>2, <1>2 DEF Validated!Test
  <2>3. CASE Validated!Stability(b)
    BY <2>3, <1>2 DEF Validated!Stability
  <2>4. CASE Validated!Cross(b)
    BY <2>4, <1>2 DEF Validated!Cross
  <2> QED
    BY <2>1, <2>2, <2>3, <2>4
<1> DEFINE r == Validated!Trial(kind)
<1>4. r \in TrialRecord /\ r.kind = kind /\ r.version = run.version /\ r.run = runs /\ kind # "attempt"
  BY <1>2, TrialIs DEF Validated!Kinds
<1> HIDE DEF r
<1>5. ledger' = Append(ledger, r)
  BY <1>3 DEF r
<1>6. /\ RunTypes' /\ OfRuns' /\ ReportsHonest'
      /\ \A i \in DOMAIN seen' : \E a \in DOMAIN ledger' :
            ledger'[a].kind = "attempt" /\ ledger'[a].version = seen'[i].version
      /\ \A i, j \in DOMAIN seen' : seen'[i].version = seen'[j].version => i = j
  BY <1>2, <1>3, <1>4, <1>5, LedgerKeeps
<1>7. run'.phase \notin Late /\ run'.phase # "evaluate"
  BY <1>3 DEF Early, Late
<1>8. SeenOnce'
  BY <1>6, <1>7 DEF SeenOnce
<1>9. WithinQuota'
  BY <1>0, <1>4, <1>5, QuotaStays
<1>10. RunHonest'
  <2>1. ~run.passed
    BY <1>0, <1>1, <1>2 DEF RunHonest, Early
  <2>2. ~run'.passed
    BY <2>1, <1>3
  <2> QED
    BY <2>2, <1>7 DEF RunHonest, Late
<1> QED
  BY <1>6, <1>8, <1>9, <1>10 DEF HoldoutInv

(* What the checks count is every backtest of the family, the run's own among them. *)
LEMMA ChecksKeeps ==
    ASSUME HoldoutInv, NEW sound \in BOOLEAN, Validated!Checks(sound)
    PROVE  HoldoutInv'
<1>0. RunTypes /\ OfRuns /\ SeenOnce /\ WithinQuota /\ RunHonest /\ ReportsHonest
  BY DEF HoldoutInv
<1>1. run.phase = "checks"
  BY DEF Validated!Checks
<1>2. run # Validated!Nothing /\ DOMAIN run = Fields
  BY <1>0, <1>1, RunIs DEF RunTypes, Early
<1> DEFINE family == Validated!OfFamily(Family[run.version])
<1>3. /\ UNCHANGED <<ledger, reports, seen, runs>>
      /\ DOMAIN run' = Fields /\ run'.phase \in {"lock", "report"}
      /\ run'.version = run.version /\ run'.epoch = run.epoch /\ run'.passed = run.passed
      /\ run'.counted = Cardinality(family)
  BY <1>2, CardinalityIsOne DEF Validated!Checks, Fields
<1>4. Own(runs) \subseteq family /\ family \subseteq DOMAIN ledger
  BY <1>0, <1>2 DEF OfRuns, Own, Validated!OfFamily
<1>5. Cardinality(family) \in Nat /\ Cardinality(Own(runs)) <= Cardinality(family)
  <2>1. IsFiniteSet(family) /\ Cardinality(family) \in Nat
    BY <1>0, <1>4, FiniteParts
  <2> QED
    BY <2>1, <1>4, FS_Subset
<1>6. Own(runs)' = Own(runs) /\ \A n : Own(n)' = Own(n)
  BY <1>3 DEF Own
<1>7. RunTypes' /\ OfRuns'
  BY <1>0, <1>2, <1>3 DEF RunTypes, OfRuns, Late
<1>8. SeenOnce'
  BY <1>0, <1>3 DEF SeenOnce
<1>9. WithinQuota'
  BY <1>0, <1>3 DEF WithinQuota, Validated!AttemptsIn, Validated!Attempts
<1>10. RunHonest'
  <2>1. ~run.passed
    BY <1>0, <1>1, <1>2 DEF RunHonest
  <2>2. ~run'.passed
    BY <2>1, <1>3
  <2>3. run'.counted \in Nat /\ run'.counted >= Cardinality(Own(runs)')
    BY <1>3, <1>5, <1>6, <1>0, <1>4, FiniteParts
  <2> QED
    BY <2>2, <2>3, <1>3 DEF RunHonest
<1>11. ReportsHonest'
  BY <1>0, <1>3, <1>6 DEF ReportsHonest, PassedIn, SeenIn
<1> QED
  BY <1>7, <1>8, <1>9, <1>10, <1>11 DEF HoldoutInv

LEMMA RefusedKeeps == ASSUME HoldoutInv, Validated!Refused PROVE HoldoutInv'
<1>0. RunTypes /\ OfRuns /\ SeenOnce /\ WithinQuota /\ RunHonest /\ ReportsHonest
  BY DEF HoldoutInv
<1>1. run.phase = "lock"
  BY DEF Validated!Refused
<1>2. run # Validated!Nothing /\ DOMAIN run = Fields
  BY <1>0, <1>1, RunIs DEF RunTypes, Late
<1>3. /\ UNCHANGED <<ledger, reports, seen, runs>>
      /\ DOMAIN run' = Fields /\ run'.phase = "report"
      /\ run'.version = run.version /\ run'.epoch = run.epoch /\ run'.passed = run.passed
      /\ run'.counted = run.counted
  BY <1>2 DEF Validated!Refused, Fields
<1>4. Own(runs)' = Own(runs) /\ \A n : Own(n)' = Own(n)
  BY <1>3 DEF Own
<1>5. RunTypes' /\ OfRuns'
  BY <1>0, <1>2, <1>3 DEF RunTypes, OfRuns, Late
<1>6. SeenOnce'
  BY <1>0, <1>3 DEF SeenOnce
<1>7. WithinQuota'
  BY <1>0, <1>3 DEF WithinQuota, Validated!AttemptsIn, Validated!Attempts
<1>8. RunHonest'
  <2>1. ~run.passed
    BY <1>0, <1>1, <1>2 DEF RunHonest
  <2>2. ~run'.passed
    BY <2>1, <1>3
  <2> QED
    BY <2>2, <1>0, <1>1, <1>3, <1>4 DEF RunHonest, Late
<1>9. ReportsHonest'
  BY <1>0, <1>3, <1>4 DEF ReportsHonest, PassedIn, SeenIn
<1> QED
  BY <1>5, <1>6, <1>7, <1>8, <1>9 DEF HoldoutInv

(* The lock opens for a version that had no attempt, in a family that has one left. *)
LEMMA OpenKeeps == ASSUME HoldoutInv, MaxPerFamily \in Nat, Validated!Open PROVE HoldoutInv'
<1>0. RunTypes /\ OfRuns /\ SeenOnce /\ WithinQuota /\ RunHonest /\ ReportsHonest
  BY DEF HoldoutInv
<1>1. run.phase = "lock"
  BY DEF Validated!Open
<1>2. run # Validated!Nothing /\ DOMAIN run = Fields
  BY <1>0, <1>1, RunIs DEF RunTypes, Late
<1> DEFINE r == Validated!Attempt
<1>3. /\ ledger' = Append(ledger, r) /\ UNCHANGED <<reports, seen, runs>>
      /\ DOMAIN run' = Fields /\ run'.phase = "evaluate"
      /\ run'.version = run.version /\ run'.epoch = run.epoch /\ run'.passed = run.passed
      /\ run'.counted = run.counted
  BY <1>2 DEF Validated!Open, Fields
<1>4. /\ r \in TrialRecord /\ r.kind = "attempt" /\ r.version = run.version /\ r.run = runs /\ r.epoch = run.epoch
  BY <1>2, TrialIs DEF Validated!Attempt
<1> HIDE DEF r
<1>5. /\ RunTypes' /\ OfRuns' /\ ReportsHonest'
      /\ \A i \in DOMAIN seen' : \E a \in DOMAIN ledger' :
            ledger'[a].kind = "attempt" /\ ledger'[a].version = seen'[i].version
      /\ \A i, j \in DOMAIN seen' : seen'[i].version = seen'[j].version => i = j
  <2>1. run'.phase \in Early \union Late
    BY <1>3 DEF Late
  <2> QED
    BY <2>1, <1>2, <1>3, <1>4, LedgerKeeps
<1>6. SeenOnce'
  <2>1. \A a \in DOMAIN ledger : ~(ledger[a].kind = "attempt" /\ ledger[a].version = run.version)
    BY DEF Validated!Open, Validated!Used, Validated!AttemptsOf, Validated!Attempts
  <2>2. \A i \in DOMAIN seen : seen[i].version # run.version
    BY <2>1, <1>0 DEF SeenOnce
  <2>3. Len(ledger) + 1 \in DOMAIN ledger' /\ ledger'[Len(ledger) + 1] = r
    BY <1>0, <1>3, <1>4, Recorded
  <2> QED
    BY <2>2, <2>3, <1>3, <1>4, <1>5 DEF SeenOnce
<1>7. WithinQuota'
  <2> SUFFICES ASSUME NEW v \in Versions, NEW e \in Epochs
               PROVE  Cardinality(Validated!AttemptsIn(Family[v], e)') <= MaxPerFamily
    BY DEF WithinQuota
  <2> DEFINE A == Validated!AttemptsIn(Family[v], e)
  <2>1. IsFiniteSet(A) /\ Cardinality(A) \in Nat /\ A \subseteq DOMAIN ledger
    <3>1. A \subseteq DOMAIN ledger
      BY DEF Validated!AttemptsIn, Validated!Attempts
    <3> QED
      BY <3>1, <1>0, FiniteParts
  <2>2. CASE Family[run.version] = Family[v] /\ run.epoch = e
    <3>1. ~(Cardinality(A) >= MaxPerFamily)
      BY <2>2, CardinalityIsOne DEF Validated!Open, Validated!Spent
    <3>2. A' = A \union {Len(ledger) + 1}
      BY <2>2, <1>0, <1>3, <1>4, AttemptsAfter
    <3>3. Len(ledger) + 1 \notin A
      BY <2>1, <1>0 DEF RunTypes
    <3>4. Cardinality(A') = Cardinality(A) + 1
      BY <2>1, <3>2, <3>3, FS_AddElement
    <3> QED
      BY <3>1, <3>4, <2>1
  <2>3. CASE ~(Family[run.version] = Family[v] /\ run.epoch = e)
    <3>1. A' = A
      BY <2>3, <1>0, <1>3, <1>4, AttemptsAfter
    <3> QED
      BY <3>1, <1>0 DEF WithinQuota
  <2> QED
    BY <2>2, <2>3
<1>8. RunHonest'
  <2>1. ~run.passed
    BY <1>0, <1>1, <1>2 DEF RunHonest
  <2>2. ~run'.passed
    BY <2>1, <1>3
  <2>3. Own(runs)' = Own(runs)
    BY <1>0, <1>3, <1>4, OwnAfter
  <2> QED
    BY <2>2, <2>3, <1>0, <1>1, <1>3 DEF RunHonest, Late
<1> QED
  BY <1>5, <1>6, <1>7, <1>8 DEF HoldoutInv

(* The holdout is evaluated: the attempt is there, and nothing was evaluated for it before. *)
LEMMA EvaluateKeeps == ASSUME HoldoutInv, Validated!Evaluate PROVE HoldoutInv'
<1>0. RunTypes /\ OfRuns /\ SeenOnce /\ WithinQuota /\ RunHonest /\ ReportsHonest
  BY DEF HoldoutInv
<1>1. run.phase = "evaluate"
  BY DEF Validated!Evaluate
<1>2. run # Validated!Nothing /\ DOMAIN run = Fields
  BY <1>0, <1>1, RunIs DEF RunTypes, Late
<1> DEFINE r == Validated!Trial("holdout")
           m == Len(seen) + 1
<1>3. /\ seen' = Append(seen, r) /\ UNCHANGED <<ledger, reports, runs>>
      /\ DOMAIN run' = Fields /\ run'.phase = "holdout"
      /\ run'.version = run.version /\ run'.epoch = run.epoch /\ run'.passed = run.passed
      /\ run'.counted = run.counted
  BY <1>2 DEF Validated!Evaluate, Fields
<1>4. r \in TrialRecord /\ r.version = run.version /\ r.run = runs
  BY <1>2, TrialIs DEF Validated!Kinds
<1> HIDE DEF r
<1>5. /\ seen' \in Seq(TrialRecord) /\ m \in DOMAIN seen' /\ seen'[m] = r
      /\ \A i \in DOMAIN seen : i \in DOMAIN seen' /\ seen'[i] = seen[i]
      /\ \A i \in DOMAIN seen' : i = m \/ i \in DOMAIN seen
  BY <1>0, <1>3, <1>4 DEF RunTypes
<1> HIDE DEF m
<1>6. RunTypes' /\ OfRuns'
  BY <1>0, <1>2, <1>3, <1>5 DEF RunTypes, OfRuns, Late
<1>7. SeenOnce'
  <2>1. \A i \in DOMAIN seen' : \E a \in DOMAIN ledger' :
            ledger'[a].kind = "attempt" /\ ledger'[a].version = seen'[i].version
    BY <1>0, <1>1, <1>3, <1>4, <1>5 DEF SeenOnce
  <2>2. \A i, j \in DOMAIN seen' : seen'[i].version = seen'[j].version => i = j
    BY <1>0, <1>1, <1>4, <1>5 DEF SeenOnce
  <2> QED
    BY <2>1, <2>2, <1>3 DEF SeenOnce
<1>8. WithinQuota'
  BY <1>0, <1>3 DEF WithinQuota, Validated!AttemptsIn, Validated!Attempts
<1>9. \A n : Own(n)' = Own(n)
  BY <1>3 DEF Own
<1>10. RunHonest'
  <2>1. ~run.passed
    BY <1>0, <1>1, <1>2 DEF RunHonest
  <2>2. ~run'.passed
    BY <2>1, <1>3
  <2>3. SeenIn(run.version, runs)'
    BY <1>3, <1>4, <1>5 DEF SeenIn
  <2>4. Own(runs)' = Own(runs)
    BY <1>3 DEF Own
  <2> QED
    BY <2>2, <2>3, <2>4, <1>0, <1>1, <1>3 DEF RunHonest, Late, SeenIn
<1>11. ReportsHonest'
  <2> SUFFICES ASSUME NEW x \in reports, x.passed
               PROVE  PassedIn(x.version, x.run)' /\ x.counted >= Cardinality(Own(x.run)')
    BY <1>3 DEF ReportsHonest
  <2>1. PassedIn(x.version, x.run) /\ x.counted >= Cardinality(Own(x.run))
    BY <1>0 DEF ReportsHonest
  <2>2. PassedIn(x.version, x.run)'
    BY <2>1, <1>3, <1>5 DEF PassedIn, SeenIn
  <2>3. Own(x.run)' = Own(x.run)
    BY <1>3 DEF Own
  <2> QED
    BY <2>1, <2>2, <2>3
<1> QED
  BY <1>6, <1>7, <1>8, <1>10, <1>11 DEF HoldoutInv

(* The holdout's backtest is recorded in the run that evaluated it. *)
LEMMA HoldoutKeeps ==
    ASSUME HoldoutInv, NEW passes \in BOOLEAN, Validated!Holdout(passes)
    PROVE  HoldoutInv'
<1>0. RunTypes /\ OfRuns /\ SeenOnce /\ WithinQuota /\ RunHonest /\ ReportsHonest
  BY DEF HoldoutInv
<1>1. run.phase = "holdout"
  BY DEF Validated!Holdout
<1>2. run # Validated!Nothing /\ DOMAIN run = Fields
  BY <1>0, <1>1, RunIs DEF RunTypes, Late
<1> DEFINE r == Validated!Trial("holdout")
<1>3. /\ ledger' = Append(ledger, r) /\ UNCHANGED <<reports, seen, runs>>
      /\ DOMAIN run' = Fields /\ run'.phase = "report"
      /\ run'.version = run.version /\ run'.epoch = run.epoch /\ run'.counted = run.counted
  BY <1>2 DEF Validated!Holdout, Validated!Backtest, Fields
<1>4. r \in TrialRecord /\ r.kind = "holdout" /\ r.version = run.version /\ r.run = runs
  BY <1>2, TrialIs DEF Validated!Kinds
<1> HIDE DEF r
<1>5. /\ RunTypes' /\ OfRuns' /\ ReportsHonest'
      /\ \A i \in DOMAIN seen' : \E a \in DOMAIN ledger' :
            ledger'[a].kind = "attempt" /\ ledger'[a].version = seen'[i].version
      /\ \A i, j \in DOMAIN seen' : seen'[i].version = seen'[j].version => i = j
  <2>1. run'.phase \in Early \union Late
    BY <1>3 DEF Late
  <2> QED
    BY <2>1, <1>2, <1>3, <1>4, LedgerKeeps
<1>6. SeenOnce'
  BY <1>3, <1>5 DEF SeenOnce
<1>7. WithinQuota'
  BY <1>0, <1>3, <1>4, QuotaStays
<1>8. RunHonest'
  <2>1. Own(runs)' = Own(runs)
    BY <1>0, <1>3, <1>4, OwnAfter
  <2>2. SeenIn(run.version, runs)
    BY <1>0, <1>1 DEF RunHonest
  <2>3. PassedIn(run.version, runs)'
    <3>1. \E i \in DOMAIN ledger' : ledger'[i].kind = "holdout" /\ ledger'[i].run = runs
      <4>1. Len(ledger) + 1 \in DOMAIN ledger' /\ ledger'[Len(ledger) + 1] = r
        BY <1>0, <1>3, <1>4, Recorded
      <4> QED
        BY <4>1, <1>4
    <3> QED
      BY <3>1, <2>2, <1>3 DEF PassedIn, SeenIn
  <2>5. run.counted \in Nat /\ run.counted >= Cardinality(Own(runs))
    BY <1>0, <1>1 DEF RunHonest, Late
  <2> QED
    BY <2>1, <2>3, <2>5, <1>3 DEF RunHonest, PassedIn, SeenIn
<1> QED
  BY <1>5, <1>6, <1>7, <1>8 DEF HoldoutInv

(* A report says what its run found. *)
LEMMA ReportKeeps == ASSUME HoldoutInv, Validated!Report PROVE HoldoutInv'
<1>0. RunTypes /\ OfRuns /\ SeenOnce /\ WithinQuota /\ RunHonest /\ ReportsHonest
  BY DEF HoldoutInv
<1>1. run.phase = "report"
  BY DEF Validated!Report
<1>2. run # Validated!Nothing
  BY <1>0, <1>1, RunIs DEF Late
<1> DEFINE x == [version |-> run.version, epoch |-> run.epoch, run |-> runs, counted |-> run.counted,
                 passed |-> run.passed]
<1>3. /\ reports' = reports \union {x} /\ run' = Validated!Nothing
      /\ UNCHANGED <<ledger, seen, runs>>
  BY DEF Validated!Report
<1>4. x.run = runs /\ x.version = run.version /\ x.counted = run.counted /\ (x.passed => run.passed)
  OBVIOUS
<1> HIDE DEF x
<1>5. run'.phase \notin Early \union Late
  BY <1>3 DEF Validated!Nothing, Early, Late
<1>6. RunTypes' /\ OfRuns'
  <2>1. runs \in Nat /\ runs \in Int /\ runs <= runs
    BY <1>0 DEF RunTypes
  <2>2. \A y \in reports' : y.run \in Int /\ y.run <= runs
    BY <1>0, <1>3, <1>4, <2>1 DEF OfRuns
  <2>3. OfRuns'
    BY <1>0, <1>3, <2>2 DEF OfRuns
  <2>4. RunTypes'
    BY <1>0, <1>3, TypesKeep
  <2> QED
    BY <2>3, <2>4
<1>7. SeenOnce'
  BY <1>0, <1>3, <1>5 DEF SeenOnce, Late
<1>8. WithinQuota'
  BY <1>0, <1>3 DEF WithinQuota, Validated!AttemptsIn, Validated!Attempts
<1>9. RunHonest'
  BY <1>3, <1>5 DEF RunHonest, Late
<1>10. ReportsHonest'
  <2>1. x.passed => PassedIn(run.version, runs) /\ x.counted >= Cardinality(Own(runs))
    BY <1>0, <1>1, <1>2, <1>4 DEF RunHonest, Late
  <2>2. \A n : Own(n)' = Own(n)
    BY <1>3 DEF Own
  <2>3. \A y \in reports' : y.passed => PassedIn(y.version, y.run) /\ y.counted >= Cardinality(Own(y.run))
    BY <2>1, <1>0, <1>3, <1>4 DEF ReportsHonest
  <2> QED
    BY <2>3, <1>3 DEF ReportsHonest, PassedIn, SeenIn, Own
<1> QED
  BY <1>6, <1>7, <1>8, <1>9, <1>10 DEF HoldoutInv

(* A run begins with nothing on record, and ends anywhere. *)
LEMMA StartOrCrashKeeps ==
    ASSUME HoldoutInv,
           Validated!Crash \/ \E v \in Versions, e \in Epochs, windows \in 0..MaxWindows : Validated!Start(v, e, windows)
    PROVE  HoldoutInv'
<1>0. RunTypes /\ OfRuns /\ SeenOnce /\ WithinQuota /\ RunHonest /\ ReportsHonest
  BY DEF HoldoutInv
<1>1. UNCHANGED <<ledger, reports, seen>>
  BY DEF Validated!Crash, Validated!Start
<1>2. WithinQuota' /\ ReportsHonest'
  BY <1>0, <1>1 DEF WithinQuota, Validated!AttemptsIn, Validated!Attempts, ReportsHonest, PassedIn, SeenIn, Own
<1>3. CASE Validated!Crash
  <2>1. run' = Validated!Nothing /\ runs' = runs
    BY <1>3 DEF Validated!Crash
  <2>2. run'.phase \notin Early \union Late
    BY <2>1 DEF Validated!Nothing, Early, Late
  <2>3. RunTypes' /\ OfRuns'
    <3>1. RunTypes'
      BY <1>0, <1>1, <2>1, TypesKeep
    <3>2. OfRuns'
      BY <1>0, <1>1, <2>1 DEF OfRuns
    <3> QED
      BY <3>1, <3>2
  <2>4. SeenOnce'
    BY <1>0, <1>1, <2>2 DEF SeenOnce, Late
  <2>5. RunHonest'
    BY <2>1, <2>2 DEF RunHonest, Late
  <2> QED
    BY <1>2, <2>3, <2>4, <2>5 DEF HoldoutInv
<1>4. ASSUME NEW v \in Versions, NEW e \in Epochs, NEW windows \in 0..MaxWindows, Validated!Start(v, e, windows)
      PROVE  HoldoutInv'
  <2>1. /\ DOMAIN run' = Fields /\ run'.phase \in {"stability", "train"}
        /\ run'.version = v /\ run'.epoch = e /\ run'.passed = FALSE /\ runs' = runs + 1
    BY <1>4 DEF Validated!Start, Fields
  <2>2. run'.phase \in Early /\ run'.phase \notin Late
    BY <2>1 DEF Early, Late
  <2>3. RunTypes'
    BY <1>0, <1>1, <2>1, <2>2 DEF RunTypes
  <2>4. OfRuns'
    <3>0. runs \in Nat /\ runs' = runs + 1
      BY <1>0, <2>1 DEF RunTypes
    <3>1. ASSUME NEW i \in DOMAIN ledger PROVE ledger[i].run <= runs' /\ ledger[i].run # runs'
      <4>1. ledger[i] \in TrialRecord
        BY <1>0 DEF RunTypes
      <4>2. ledger[i].run \in Int /\ ledger[i].run <= runs
        BY <4>1, <1>0 DEF TrialRecord, OfRuns
      <4> QED
        BY <4>2, <3>0
    <3>2. ASSUME NEW r \in reports PROVE r.run \in Int /\ r.run <= runs' /\ r.run < runs'
      BY <1>0, <3>0 DEF OfRuns
    <3> QED
      BY <3>1, <3>2, <1>1 DEF OfRuns
  <2>5. SeenOnce'
    BY <1>0, <1>1, <2>2 DEF SeenOnce, Late
  <2>6. RunHonest'
    <3>1. ~run'.passed
      BY <2>1
    <3> QED
      BY <3>1, <2>2 DEF RunHonest, Late
  <2> QED
    BY <1>2, <2>3, <2>4, <2>5, <2>6 DEF HoldoutInv
<1> QED
  BY <1>3, <1>4

LEMMA HoldoutInit == ASSUME MaxPerFamily \in Nat, Validated!Init PROVE HoldoutInv
<1>1. /\ ledger = <<>> /\ seen = <<>> /\ reports = {} /\ runs = 0 /\ run = Validated!Nothing
  BY DEF Validated!Init
<1>2. run.phase \notin Early \union Late
  BY <1>1 DEF Validated!Nothing, Early, Late
<1>3. RunTypes /\ OfRuns
  <2>1. ledger \in Seq(TrialRecord) /\ seen \in Seq(TrialRecord)
    BY <1>1
  <2>3. RunTypes
    BY <1>1, <2>1 DEF RunTypes
  <2>2. OfRuns
    BY <1>1 DEF OfRuns
  <2> QED
    BY <2>3, <2>2
<1>4. SeenOnce
  BY <1>1, <1>2 DEF SeenOnce, Late
<1>5. WithinQuota
  <2> SUFFICES ASSUME NEW v \in Versions, NEW e \in Epochs
               PROVE  Cardinality(Validated!AttemptsIn(Family[v], e)) <= MaxPerFamily
    BY DEF WithinQuota
  <2>1. Validated!AttemptsIn(Family[v], e) = {}
    BY <1>1 DEF Validated!AttemptsIn, Validated!Attempts
  <2>2. Cardinality({}) = 0 /\ 0 <= MaxPerFamily
    BY FS_EmptySet
  <2> QED
    BY <2>1, <2>2
<1>6. RunHonest /\ ReportsHonest
  BY <1>1, <1>2 DEF RunHonest, ReportsHonest, Late
<1> QED
  BY <1>3, <1>4, <1>5, <1>6 DEF HoldoutInv

LEMMA HoldoutStep ==
    ASSUME MaxPerFamily \in Nat, HoldoutInv, [Validated!Next]_(Validated!vars)
    PROVE  HoldoutInv'
<1>1. CASE UNCHANGED Validated!vars
  <2>0. RunTypes /\ OfRuns /\ SeenOnce /\ WithinQuota /\ RunHonest /\ ReportsHonest
    BY DEF HoldoutInv
  <2>1. UNCHANGED <<ledger, run, reports, seen, runs>>
    BY <1>1 DEF Validated!vars
  <2>2. RunTypes'
    BY <2>0, <2>1 DEF RunTypes
  <2>3. OfRuns'
    BY <2>0, <2>1 DEF OfRuns
  <2>4. SeenOnce'
    BY <2>0, <2>1 DEF SeenOnce
  <2>5. WithinQuota'
    BY <2>0, <2>1 DEF WithinQuota, Validated!AttemptsIn, Validated!Attempts
  <2>6. RunHonest'
    BY <2>0, <2>1 DEF RunHonest, PassedIn, SeenIn, Own
  <2>7. ReportsHonest'
    BY <2>0, <2>1 DEF ReportsHonest, PassedIn, SeenIn, Own
  <2> QED
    BY <2>2, <2>3, <2>4, <2>5, <2>6, <2>7 DEF HoldoutInv
<1>2. CASE \E b \in BOOLEAN : \/ Validated!Train(b) \/ Validated!Stability(b) \/ Validated!Cross(b)
                              \/ Validated!Checks(b) \/ Validated!Holdout(b)
  BY <1>2, EarlyKeeps, ChecksKeeps, HoldoutKeeps
<1>3. CASE Validated!Test
  BY <1>3, EarlyKeeps
<1>4. CASE Validated!Refused \/ Validated!Open \/ Validated!Evaluate \/ Validated!Report
  BY <1>4, RefusedKeeps, OpenKeeps, EvaluateKeeps, ReportKeeps
<1>5. CASE Validated!Crash \/ \E v \in Versions, e \in Epochs, windows \in 0..MaxWindows : Validated!Start(v, e, windows)
  BY <1>5, StartOrCrashKeeps
<1> QED
  BY <1>1, <1>2, <1>3, <1>4, <1>5 DEF Validated!Next

(* Whatever validation crashes, and wherever, and whatever is run again: a version's holdout is evaluated at most once,
   with its attempt on the ledger; a family keeps within its attempts in an epoch; and a report that passes stands on a
   holdout evaluated and recorded in its own run, with every backtest of the run counted (validation/store.py,
   HoldoutLock.open; validation/runner.py). *)
THEOREM HoldoutSeenOnce ==
    ASSUME MaxPerFamily \in Nat
    PROVE  Validated!Spec => []Validated!HoldoutKept
<1>1. HoldoutInv => Validated!HoldoutKept
  <2> SUFFICES ASSUME HoldoutInv PROVE Validated!HoldoutKept
    OBVIOUS
  <2>0. RunTypes /\ OfRuns /\ SeenOnce /\ WithinQuota /\ RunHonest /\ ReportsHonest
    BY DEF HoldoutInv
  <2>1. ASSUME NEW v \in Versions
        PROVE  /\ Cardinality(Validated!Evaluated(v)) <= Cardinality(Validated!AttemptsOf(v))
               /\ Cardinality(Validated!Evaluated(v)) <= 1
    <3> DEFINE E == Validated!Evaluated(v)
               A == Validated!AttemptsOf(v)
    <3>1. IsFiniteSet(A) /\ Cardinality(A) \in Nat
      BY <2>0, FiniteParts DEF Validated!AttemptsOf, Validated!Attempts
    <3>2. CASE E = {}
      <4>1. Cardinality(E) = 0
        BY <3>2, FS_EmptySet
      <4> QED
        BY <4>1, <3>1
    <3>3. CASE E # {}
      <4>1. PICK i \in DOMAIN seen : seen[i].version = v
        BY <3>3 DEF Validated!Evaluated
      <4>2. E = {i}
        BY <4>1, <2>0 DEF Validated!Evaluated, SeenOnce
      <4>3. Cardinality(E) = 1
        BY <4>2, FS_Singleton
      <4>4. A # {}
        BY <4>1, <2>0 DEF SeenOnce, Validated!AttemptsOf, Validated!Attempts
      <4>5. Cardinality(A) # 0
        BY <4>4, <3>1, FS_EmptySet
      <4> QED
        BY <4>3, <4>5, <3>1
    <3> QED
      BY <3>2, <3>3
  <2>2. ASSUME NEW i \in DOMAIN ledger
        PROVE  Cardinality(Validated!AttemptsIn(Family[ledger[i].version], ledger[i].epoch)) <= MaxPerFamily
    <3>1. ledger[i] \in TrialRecord
      BY <2>0 DEF RunTypes
    <3>2. ledger[i].version \in Versions /\ ledger[i].epoch \in Epochs
      BY <3>1 DEF TrialRecord
    <3> QED
      BY <3>2, <2>0 DEF WithinQuota
  <2>3. ASSUME NEW r \in reports, r.passed
        PROVE  /\ \E i \in DOMAIN ledger : ledger[i].kind = "holdout" /\ ledger[i].run = r.run
               /\ \E i \in Validated!Evaluated(r.version) : seen[i].run = r.run
               /\ r.counted >= Cardinality(Validated!OwnTrials(r.run))
    <3>1. PassedIn(r.version, r.run) /\ r.counted >= Cardinality(Own(r.run))
      BY <2>3, <2>0 DEF ReportsHonest
    <3>2. \A i \in DOMAIN ledger : ledger[i].kind \in Validated!Kinds \union {"attempt"}
      <4>1. \A i \in DOMAIN ledger : ledger[i] \in TrialRecord
        BY <2>0 DEF RunTypes
      <4> QED
        BY <4>1 DEF TrialRecord
    <3>3. Validated!OwnTrials(r.run) = Own(r.run)
      BY <3>2 DEF Validated!OwnTrials, Own, Validated!Kinds
    <3> QED
      BY <3>1, <3>3 DEF PassedIn, SeenIn, Validated!Evaluated
  <2> QED
    BY <2>1, <2>2, <2>3, CardinalityIsOne DEF Validated!HoldoutKept
<1>2. Validated!Init => HoldoutInv
  BY HoldoutInit
<1>3. HoldoutInv /\ [Validated!Next]_(Validated!vars) => HoldoutInv'
  BY HoldoutStep
<1> QED
  BY <1>1, <1>2, <1>3, PTL DEF Validated!Spec

-----------------------------------------------------------------------------
(* Assistant.  The argument: the turns are in order in the file and in the reply's copy of it, so that what is
   written back or sent is too, as long as nothing was written in between; a number is given out by a save and
   taken by the next start, so that what goes to the history under a number that no start knows is the running
   save's own. *)

(* Rounds and saves are counted. *)
AssistantAssumption == Rounds \in Nat /\ MaxSaves \in Nat

(* What the file of a session holds; a draft that passed was made. *)
Turns == Talk!User \union {"text", "uses"}
Drafts == {d \in [n : Nat, ok : BOOLEAN] : d.ok => d.n # 0}
Sessions == [api : Seq(Turns), draft : Drafts, saved : SUBSET Talk!VersionNumbers]

Replies == [at : {"idle", "posted", "round", "asked"}, s : Sessions, from : Sessions, left : Int]
Saves == [at : {"idle", "read", "archived", "written"}, s : Sessions, version : Talk!VersionNumbers]
Strategies == [dest : [version : Talk!VersionNumbers, n : Nat], archive : [Talk!VersionNumbers -> Nat]]
Counts == [posts : Int, drafts : Nat, saves : 0..MaxSaves, restarts : Int]

SessionTypes ==
    /\ disk \in Sessions
    /\ reply \in Replies
    /\ saving \in Saves
    /\ saving.at # "idle" => saving.s.draft.ok
    /\ count \in Counts
    /\ kept \in Strategies
    /\ known \in [Talk!VersionNumbers -> Nat]

(* The user and the assistant take turns, and a draft is answered. *)
Orderly(api) ==
    /\ \A i \in 1..(Len(api) - 1) : /\ api[i] \in Talk!User <=> api[i + 1] \notin Talk!User
                                    /\ api[i] = "uses" => api[i + 1] = "results"
    /\ api # <<>> => api[Len(api)] # "uses"
EndsWithUser(api) == api # <<>> /\ api[Len(api)] \in Talk!User

TurnsInv ==
    ~crossed =>
        /\ Orderly(disk.api)
        /\ reply.at = "posted" => EndsWithUser(disk.api)
        /\ reply.at \in {"round", "asked"} => Orderly(reply.s.api) /\ EndsWithUser(reply.s.api)

(* No version is ahead of the saves. *)
Counted ==
    /\ \A v \in Talk!VersionNumbers : known[v] # 0 => v <= count.saves
    /\ kept.dest.version <= count.saves /\ saving.version <= count.saves

(* A registered version is in the history, or only in the strategy's place; the history holds no other. *)
InHistory ==
    \A v \in Talk!VersionNumbers \ {0} : v \notin resaved =>
        \/ kept.archive[v] = known[v]
        \/ kept.archive[v] = 0 /\ kept.dest = [version |-> v, n |-> known[v]]

(* What is in the strategy's place is registered or will be, under the next number, which is the running save's. *)
Numbered ==
    /\ \/ kept.dest = Talk!Nothing
       \/ /\ kept.dest.version # 0 /\ kept.dest.n # 0
          /\ known[kept.dest.version] # 0 \/ kept.dest.version = Talk!NextVersion
    /\ saving.at # "idle" => saving.version = Talk!NextVersion
    /\ saving.at = "read" /\ kept.dest.version = saving.version => saving.version \in resaved
    /\ saving.at = "archived" => kept.dest = Talk!Nothing
    /\ saving.at = "written" => kept.dest.version = saving.version

(* The session names it. *)
Named ==
    /\ ~crossed /\ kept.dest.version # 0 /\ saving.at \in {"idle", "read"} => kept.dest.version \in disk.saved
    /\ reply.at \in {"round", "asked"} => reply.s.saved = reply.from.saved

AssistantInv == SessionTypes /\ TurnsInv /\ Counted /\ InHistory /\ Numbered /\ Named

-----------------------------------------------------------------------------
(* The next number is one that nobody knows, and not far from the saves. *)
LEMMA NextIsFree ==
    ASSUME AssistantAssumption, SessionTypes, Counted
    PROVE  /\ Talk!NextVersion \in 1..(count.saves + 1)
           /\ Talk!NextVersion \in Talk!VersionNumbers => known[Talk!NextVersion] = 0
<1> DEFINE N == Talk!VersionNumbers
           K == {v \in N : known[v] # 0}
<1>0. MaxSaves \in Nat /\ count.saves \in 0..MaxSaves /\ N = 0..(MaxSaves + 1)
  BY DEF AssistantAssumption, SessionTypes, Counts, Talk!VersionNumbers
<1>1. Talk!NextVersion = IF K = {} THEN 1 ELSE 1 + CHOOSE v \in K : \A w \in K : w <= v
  BY DEF Talk!NextVersion
<1>2. CASE K = {}
  <2>1. Talk!NextVersion = 1
    BY <1>1, <1>2
  <2>2. \A v \in N : known[v] = 0
    BY <1>2
  <2> QED
    BY <2>1, <2>2, <1>0
<1>3. CASE K # {}
  <2> DEFINE m == CHOOSE v \in K : \A w \in K : w <= v
  <2>1. m \in K /\ \A w \in K : w <= m
    <3>1. \E v \in K : \A w \in K : w <= v
      <4>1. MaxSaves + 1 \in Nat /\ K \in SUBSET (0..(MaxSaves + 1))
        BY <1>0
      <4> HIDE DEF K
      <4> QED
        BY <4>1, <1>3, Greatest
    <3> QED
      BY <3>1
  <2>2. Talk!NextVersion = 1 + m
    BY <1>1, <1>3
  <2> HIDE DEF m
  <2>3. m \in N /\ m <= count.saves
    BY <2>1 DEF Counted
  <2>4. 1 + m \notin K
    BY <2>1, <2>3, <1>0
  <2> QED
    BY <2>2, <2>3, <2>4, <1>0
<1> QED
  BY <1>2, <1>3

(* A session's parts, and a session that has other ones. *)
LEMMA SessionIs ==
    ASSUME NEW s \in Sessions
    PROVE  s.api \in Seq(Turns) /\ s.draft \in Drafts /\ s.saved \subseteq Talk!VersionNumbers
  BY DEF Sessions

LEMMA SessionWith ==
    ASSUME NEW s \in Sessions, NEW api \in Seq(Turns), NEW draft \in Drafts, NEW saved \in SUBSET Talk!VersionNumbers
    PROVE  [s EXCEPT !.api = api, !.draft = draft, !.saved = saved] \in Sessions
  BY DEF Sessions

LEMMA RestingIs == Talk!Resting \in Replies /\ Talk!Resting.at = "idle"
<1>1. Talk!Session(<<>>, Talk!NoDraft, {}) \in Sessions
  BY DEF Talk!Session, Talk!NoDraft, Sessions, Drafts
<1> QED
  BY <1>1 DEF Talk!Resting, Replies

LEMMA ReplyIs == ASSUME SessionTypes PROVE reply \in Replies /\ reply.s \in Sessions /\ reply.left - 1 \in Int
<1>1. reply \in Replies
  BY DEF SessionTypes
<1>2. reply.s \in Sessions /\ reply.left \in Int
  BY <1>1 DEF Replies
<1> QED
  BY <1>1, <1>2

(* What is added to the turns. *)
LEMMA TextFollows ==
    ASSUME NEW api \in Seq(Turns), Orderly(api), EndsWithUser(api)
    PROVE  Append(api, "text") \in Seq(Turns) /\ Orderly(Append(api, "text"))
<1> DEFINE n == Len(api)
           new == Append(api, "text")
<1>1. n \in Nat /\ n # 0 /\ api[n] \in Talk!User /\ api[n] # "uses"
  BY DEF EndsWithUser, Talk!User
<1>2. new \in Seq(Turns) /\ Len(new) = n + 1 /\ new[n + 1] = "text" /\ \A i \in 1..n : new[i] = api[i]
  BY DEF Turns
<1>3. ASSUME NEW i \in 1..n
      PROVE  (new[i] \in Talk!User <=> new[i + 1] \notin Talk!User) /\ (new[i] = "uses" => new[i + 1] = "results")
  <2>1. CASE i = n
    BY <2>1, <1>1, <1>2 DEF Talk!User
  <2>2. CASE i # n
    BY <2>2, <1>1, <1>2 DEF Orderly
  <2> QED
    BY <2>1, <2>2
<1> QED
  BY <1>1, <1>2, <1>3 DEF Orderly

LEMMA MessageFollows ==
    ASSUME NEW api \in Seq(Turns), Orderly(api)
    PROVE  /\ Talk!WithMessage(api) \in Seq(Turns)
           /\ Orderly(Talk!WithMessage(api)) /\ EndsWithUser(Talk!WithMessage(api))
<1> DEFINE n == Len(api)
           new == Append(api, "owner")
<1>1. CASE api # <<>> /\ api[n] \in Talk!User
  BY <1>1 DEF Talk!WithMessage, EndsWithUser
<1>2. CASE ~(api # <<>> /\ api[n] \in Talk!User)
  <2>1. Talk!WithMessage(api) = new
    BY <1>2 DEF Talk!WithMessage
  <2>2. /\ n \in Nat /\ new \in Seq(Turns) /\ Len(new) = n + 1 /\ new # <<>>
        /\ new[n + 1] = "owner" /\ \A i \in 1..n : new[i] = api[i]
    BY DEF Turns, Talk!User
  <2>3. ASSUME NEW i \in 1..n
        PROVE  (new[i] \in Talk!User <=> new[i + 1] \notin Talk!User) /\ (new[i] = "uses" => new[i + 1] = "results")
    <3>1. CASE i = n
      <4>1. api # <<>> /\ api[n] \notin Talk!User /\ api[n] # "uses"
        BY <3>1, <1>2, <2>2 DEF Orderly
      <4> QED
        BY <4>1, <3>1, <2>2 DEF Talk!User
    <3>2. CASE i # n
      BY <3>2, <2>2 DEF Orderly
    <3> QED
      BY <3>1, <3>2
  <2>4. Orderly(new) /\ EndsWithUser(new)
    BY <2>2, <2>3 DEF Orderly, EndsWithUser, Talk!User
  <2> QED
    BY <2>1, <2>2, <2>4
<1> QED
  BY <1>1, <1>2

LEMMA DraftFollows ==
    ASSUME NEW api \in Seq(Turns), Orderly(api), EndsWithUser(api)
    PROVE  LET new == api \o <<"uses", "results">> IN new \in Seq(Turns) /\ Orderly(new) /\ EndsWithUser(new)
<1> DEFINE n == Len(api)
           new == api \o <<"uses", "results">>
<1>1. n \in Nat /\ n # 0 /\ api[n] \in Talk!User /\ api[n] # "uses"
  BY DEF EndsWithUser, Talk!User
<1>2. /\ new \in Seq(Turns) /\ Len(new) = n + 2 /\ new # <<>>
      /\ new[n + 1] = "uses" /\ new[n + 2] = "results" /\ \A i \in 1..n : new[i] = api[i]
  <2>1. <<"uses", "results">> \in Seq(Turns) /\ Len(<<"uses", "results">>) = 2
    BY DEF Turns, Talk!User
  <2> QED
    BY <2>1, <1>1
<1>3. ASSUME NEW i \in 1..(n + 1)
      PROVE  (new[i] \in Talk!User <=> new[i + 1] \notin Talk!User) /\ (new[i] = "uses" => new[i + 1] = "results")
  <2>1. CASE i = n + 1
    BY <2>1, <1>1, <1>2 DEF Talk!User
  <2>2. CASE i = n
    BY <2>2, <1>1, <1>2 DEF Talk!User
  <2>3. CASE i # n /\ i # n + 1
    BY <2>3, <1>1, <1>2 DEF Orderly
  <2> QED
    BY <2>1, <2>2, <2>3
<1> QED
  BY <1>1, <1>2, <1>3 DEF Orderly, EndsWithUser, Talk!User

-----------------------------------------------------------------------------
(* The owner's message and the reply to it leave the versions. *)
LEMMA ReplyLeavesVersions ==
    ASSUME AssistantInv, UNCHANGED <<saving, kept, known, resaved>>, count'.saves = count.saves,
           crossed => crossed', ~crossed' => disk'.saved = disk.saved,
           reply'.at \in {"round", "asked"} => reply'.s.saved = reply'.from.saved
    PROVE  Counted' /\ InHistory' /\ Numbered' /\ Named'
<1>0. Counted /\ InHistory /\ Numbered /\ Named
  BY DEF AssistantInv
<1>1. Counted'
  BY <1>0 DEF Counted
<1>2. InHistory'
  BY <1>0 DEF InHistory
<1>3. Numbered'
  BY <1>0 DEF Numbered, Talk!NextVersion
<1>4. Named'
  BY <1>0 DEF Named
<1> QED
  BY <1>1, <1>2, <1>3, <1>4

LEMMA PostsKeeps == ASSUME AssistantInv, Talk!Posts PROVE AssistantInv'
<1>0. SessionTypes /\ TurnsInv
  BY DEF AssistantInv
<1> DEFINE api == Talk!WithMessage(disk.api)
<1>1. /\ disk' = [disk EXCEPT !.api = api] /\ reply' = [Talk!Resting EXCEPT !.at = "posted"]
      /\ count' = [count EXCEPT !.posts = @ + 1] /\ UNCHANGED <<saving, kept, known, crossed, resaved>>
  BY DEF Talk!Posts
<1>2. disk \in Sessions /\ disk.api \in Seq(Turns)
  BY <1>0, SessionIs DEF SessionTypes
<1>3. api \in Seq(Turns) /\ (Orderly(disk.api) => Orderly(api) /\ EndsWithUser(api))
  <2>1. api \in Seq(Turns)
    BY <1>2 DEF Talk!WithMessage, Turns, Talk!User
  <2> QED
    BY <2>1, <1>2, MessageFollows
<1> HIDE DEF api
<1>4. disk' \in Sessions /\ disk'.api = api /\ disk'.saved = disk.saved
  BY <1>1, <1>2, <1>3 DEF Sessions
<1>5. reply'.at = "posted" /\ reply' \in Replies
  BY <1>1, RestingIs DEF Replies
<1>6. count' \in Counts /\ count'.saves = count.saves
  <2>1. count \in Counts
    BY <1>0 DEF SessionTypes
  <2> QED
    BY <2>1, <1>1 DEF Counts
<1>7. SessionTypes'
  BY <1>0, <1>1, <1>4, <1>5, <1>6 DEF SessionTypes
<1>8. TurnsInv'
  BY <1>0, <1>1, <1>3, <1>4, <1>5 DEF TurnsInv
<1>9. Counted' /\ InHistory' /\ Numbered' /\ Named'
  BY <1>1, <1>4, <1>5, <1>6, ReplyLeavesVersions
<1> QED
  BY <1>7, <1>8, <1>9 DEF AssistantInv

LEMMA LoadsKeeps == ASSUME AssistantAssumption, AssistantInv, Talk!Loads PROVE AssistantInv'
<1>0. SessionTypes /\ TurnsInv
  BY DEF AssistantInv
<1>1. /\ reply.at = "posted" /\ reply' = [at |-> "round", s |-> disk, from |-> disk, left |-> Rounds]
      /\ UNCHANGED <<disk, saving, kept, known, count, crossed, resaved>>
  BY DEF Talk!Loads
<1>2. SessionTypes'
  <2>1. disk \in Sessions /\ Rounds \in Int
    BY <1>0 DEF SessionTypes, AssistantAssumption
  <2>2. reply' \in Replies
    BY <2>1, <1>1 DEF Replies
  <2> QED
    BY <2>2, <1>0, <1>1 DEF SessionTypes
<1>3. TurnsInv'
  BY <1>0, <1>1 DEF TurnsInv
<1>4. Counted' /\ InHistory' /\ Numbered' /\ Named'
  BY <1>1, ReplyLeavesVersions
<1> QED
  BY <1>2, <1>3, <1>4 DEF AssistantInv

(* The end of a reply: its session is written, whatever else was written meanwhile. *)
LEMMA StoresKeeps ==
    ASSUME AssistantInv, reply.at \in {"round", "asked"}, NEW s \in Sessions, s.saved = reply.s.saved,
           ~crossed => Orderly(s.api), Talk!Stores(s), UNCHANGED <<saving, kept, known, count, resaved>>
    PROVE  AssistantInv'
<1>0. SessionTypes /\ TurnsInv /\ Named
  BY DEF AssistantInv
<1>1. disk' = s /\ reply' = Talk!Resting /\ (crossed' <=> (crossed \/ disk # reply.from))
  BY DEF Talk!Stores
<1>2. reply'.at = "idle" /\ reply' \in Replies
  BY <1>1, RestingIs
<1>3. SessionTypes'
  BY <1>0, <1>1, <1>2 DEF SessionTypes
<1>4. TurnsInv'
  BY <1>0, <1>1, <1>2 DEF TurnsInv
<1>5. ~crossed' => disk'.saved = disk.saved
  BY <1>0, <1>1 DEF Named
<1>6. Counted' /\ InHistory' /\ Numbered' /\ Named'
  BY <1>1, <1>2, <1>5, ReplyLeavesVersions
<1> QED
  BY <1>3, <1>4, <1>6 DEF AssistantInv

LEMMA RoundKeeps == ASSUME AssistantInv, Talk!Round PROVE AssistantInv'
<1>0. SessionTypes /\ TurnsInv /\ Named
  BY DEF AssistantInv
<1>1. reply.at = "round" /\ UNCHANGED <<saving, kept, known, count, resaved>>
  BY DEF Talk!Round
<1>2. CASE reply.left = 0 \/ calls = MaxCalls
  <2>1. Talk!Stores(reply.s) /\ reply.s \in Sessions
    BY <1>0, <1>2, ReplyIs DEF Talk!Round
  <2>2. ~crossed => Orderly(reply.s.api)
    BY <1>0, <1>1 DEF TurnsInv
  <2> QED
    BY <1>1, <2>1, <2>2, StoresKeeps
<1>3. CASE ~(reply.left = 0 \/ calls = MaxCalls)
  <2>1. reply' = [reply EXCEPT !.at = "asked", !.left = @ - 1] /\ UNCHANGED <<disk, crossed>>
    BY <1>3 DEF Talk!Round
  <2>2. /\ reply'.at = "asked" /\ reply'.s = reply.s /\ reply'.from = reply.from
        /\ reply' \in Replies
    <3>1. reply \in Replies /\ reply.left - 1 \in Int
      BY <1>0, ReplyIs
    <3> DEFINE l == reply.left - 1
    <3>2. reply' = [reply EXCEPT !.at = "asked", !.left = l]
      BY <2>1
    <3> HIDE DEF l
    <3>3. l \in Int
      BY <3>1 DEF l
    <3> QED
      BY <3>1, <3>2, <3>3 DEF Replies
  <2>3. SessionTypes'
    BY <1>0, <1>1, <2>1, <2>2 DEF SessionTypes
  <2>4. TurnsInv'
    BY <1>0, <1>1, <2>1, <2>2 DEF TurnsInv
  <2>5. reply'.s.saved = reply'.from.saved
    BY <1>0, <1>1, <2>2 DEF Named
  <2>6. Counted' /\ InHistory' /\ Numbered' /\ Named'
    BY <1>1, <2>1, <2>5, ReplyLeavesVersions
  <2> QED
    BY <2>3, <2>4, <2>6 DEF AssistantInv
<1> QED
  BY <1>2, <1>3

LEMMA ExplainsKeeps == ASSUME AssistantInv, Talk!Explains PROVE AssistantInv'
<1>0. SessionTypes /\ TurnsInv
  BY DEF AssistantInv
<1> DEFINE api == Append(reply.s.api, "text")
           s == [reply.s EXCEPT !.api = api]
<1>1. reply.at = "asked" /\ Talk!Stores(s) /\ UNCHANGED <<saving, kept, known, count, resaved>>
  BY DEF Talk!Explains
<1>2. reply.s \in Sessions /\ reply.s.api \in Seq(Turns)
  BY <1>0, ReplyIs, SessionIs
<1>3. api \in Seq(Turns) /\ (~crossed => Orderly(api))
  <2>1. api \in Seq(Turns)
    BY <1>2 DEF Turns
  <2> QED
    BY <2>1, <1>0, <1>1, <1>2, TextFollows DEF TurnsInv
<1> HIDE DEF api
<1>4. s \in Sessions /\ s.saved = reply.s.saved /\ s.api = api
  BY <1>2, <1>3 DEF Sessions
<1> HIDE DEF s
<1> QED
  BY <1>1, <1>3, <1>4, StoresKeeps

LEMMA ProposesKeeps == ASSUME AssistantInv, Talk!Proposes PROVE AssistantInv'
<1>0. SessionTypes /\ TurnsInv /\ Named
  BY DEF AssistantInv
<1> DEFINE api == reply.s.api \o <<"uses", "results">>
<1>1. PICK n \in 1..2, ok \in BOOLEAN :
          /\ reply' = [reply EXCEPT !.at = "round", !.s.draft = [n |-> count.drafts + n, ok |-> ok], !.s.api = api]
          /\ count' = [count EXCEPT !.drafts = @ + n]
  BY DEF Talk!Proposes
<1>2. reply.at = "asked" /\ UNCHANGED <<disk, saving, kept, known, crossed, resaved>>
  BY DEF Talk!Proposes
<1>3. reply.s \in Sessions /\ reply.s.api \in Seq(Turns)
  BY <1>0, ReplyIs, SessionIs
<1>4. api \in Seq(Turns) /\ (~crossed => Orderly(api) /\ EndsWithUser(api))
  <2>1. <<"uses", "results">> \in Seq(Turns)
    BY DEF Turns, Talk!User
  <2>2. api \in Seq(Turns)
    BY <1>3, <2>1
  <2> QED
    BY <2>2, <1>0, <1>2, <1>3, DraftFollows DEF TurnsInv
<1> HIDE DEF api
<1> DEFINE draft == [n |-> count.drafts + n, ok |-> ok]
<1>5. count.drafts \in Nat /\ draft \in Drafts
  BY <1>0 DEF SessionTypes, Counts, Drafts
<1> HIDE DEF draft
<1> DEFINE s == [reply.s EXCEPT !.draft = draft, !.api = api]
<1>6. s \in Sessions /\ s.api = api /\ s.saved = reply.s.saved
  BY <1>3, <1>4, <1>5 DEF Sessions
<1>7. reply \in Replies /\ reply' = [reply EXCEPT !.at = "round", !.s = s]
  <2>1. reply \in Replies
    BY <1>0 DEF SessionTypes
  <2> QED
    BY <1>1, <1>3, <2>1 DEF draft, Sessions, Replies
<1> HIDE DEF s
<1>8. /\ reply'.at = "round" /\ reply'.s = s /\ reply'.from = reply.from
      /\ reply' \in Replies
  BY <1>6, <1>7 DEF Replies
<1>9. count' \in Counts /\ count'.saves = count.saves
  <2>1. count \in Counts
    BY <1>0 DEF SessionTypes
  <2> QED
    BY <2>1, <1>1 DEF Counts
<1>10. SessionTypes'
  BY <1>0, <1>2, <1>8, <1>9 DEF SessionTypes
<1>11. TurnsInv'
  BY <1>0, <1>2, <1>4, <1>6, <1>8 DEF TurnsInv
<1>12. reply'.s.saved = reply'.from.saved
  BY <1>0, <1>2, <1>6, <1>8 DEF Named
<1>13. Counted' /\ InHistory' /\ Numbered' /\ Named'
  BY <1>2, <1>9, <1>12, ReplyLeavesVersions
<1> QED
  BY <1>10, <1>11, <1>13 DEF AssistantInv

LEMMA FailsKeeps == ASSUME AssistantInv, Talk!Fails PROVE AssistantInv'
<1>0. SessionTypes /\ TurnsInv
  BY DEF AssistantInv
<1>1. reply' = Talk!Resting /\ UNCHANGED <<disk, saving, kept, known, count, crossed, resaved>>
  BY DEF Talk!Fails
<1>2. reply'.at = "idle" /\ reply' \in Replies
  BY <1>1, RestingIs
<1>3. SessionTypes'
  BY <1>0, <1>1, <1>2 DEF SessionTypes
<1>4. TurnsInv'
  BY <1>0, <1>1, <1>2 DEF TurnsInv
<1>5. Counted' /\ InHistory' /\ Numbered' /\ Named'
  BY <1>1, <1>2, ReplyLeavesVersions
<1> QED
  BY <1>3, <1>4, <1>5 DEF AssistantInv

-----------------------------------------------------------------------------
(* A save reads the session and takes the next number. *)
LEMMA SaveBeginsKeeps == ASSUME AssistantAssumption, AssistantInv, Talk!SaveBegins PROVE AssistantInv'
<1>0. SessionTypes /\ TurnsInv /\ Counted /\ InHistory /\ Numbered /\ Named
  BY DEF AssistantInv
<1> DEFINE v == Talk!NextVersion
<1>1. /\ count.saves < MaxSaves /\ saving.at = "idle" /\ disk.draft.ok
      /\ count' = [count EXCEPT !.saves = @ + 1]
      /\ saving' = [at |-> "read", s |-> disk, version |-> v]
      /\ resaved' = (IF kept.dest.version = v THEN resaved \union {v} ELSE resaved)
      /\ UNCHANGED <<disk, reply, kept, known, crossed>>
  BY DEF Talk!SaveBegins
<1>2. Talk!NextVersion' = Talk!NextVersion /\ v = Talk!NextVersion
  BY <1>1 DEF Talk!NextVersion
<1>3. count \in Counts /\ count.saves \in 0..MaxSaves /\ MaxSaves \in Nat
  BY <1>0 DEF SessionTypes, Counts, AssistantAssumption
<1>4. v \in 1..(count.saves + 1) /\ v \in Talk!VersionNumbers
  <2>1. v \in 1..(count.saves + 1)
    BY <1>0, NextIsFree
  <2> QED
    BY <2>1, <1>1, <1>3 DEF Talk!VersionNumbers
<1> HIDE DEF v
<1>5. count' \in Counts /\ count'.saves = count.saves + 1
  BY <1>1, <1>3 DEF Counts
<1>6. saving' \in Saves /\ saving'.at = "read" /\ saving'.version = v /\ saving'.s = disk
  BY <1>0, <1>1, <1>4 DEF Saves, SessionTypes
<1>7. SessionTypes'
  BY <1>0, <1>1, <1>5, <1>6 DEF SessionTypes
<1>8. TurnsInv'
  BY <1>0, <1>1 DEF TurnsInv
<1>9. Counted'
  <2>1. \A w \in Talk!VersionNumbers : w \in Int
    BY DEF Talk!VersionNumbers
  <2>2. kept.dest.version \in Talk!VersionNumbers
    BY <1>0 DEF SessionTypes, Strategies
  <2>3. saving'.version <= count'.saves
    BY <1>3, <1>4, <1>5, <1>6
  <2>4. kept.dest.version <= count'.saves
    BY <2>1, <2>2, <1>0, <1>3, <1>5 DEF Counted
  <2>5. ASSUME NEW w \in Talk!VersionNumbers, known[w] # 0 PROVE w <= count'.saves
    BY <2>1, <2>5, <1>0, <1>3, <1>5 DEF Counted
  <2> QED
    BY <2>3, <2>4, <2>5, <1>1 DEF Counted
<1>10. InHistory'
  BY <1>0, <1>1 DEF InHistory
<1>11. Numbered'
  <2>1. kept'.dest = kept.dest
    BY <1>1
  <2>2. kept'.dest.version = saving'.version => saving'.version \in resaved'
    BY <2>1, <1>1, <1>6
  <2>3. \/ kept'.dest = Talk!Nothing
        \/ /\ kept'.dest.version # 0 /\ kept'.dest.n # 0
           /\ known'[kept'.dest.version] # 0 \/ kept'.dest.version = Talk!NextVersion
    BY <1>0, <1>1 DEF Numbered
  <2> QED
    BY <2>2, <2>3, <1>2, <1>6 DEF Numbered, Talk!Nothing
<1>12. Named'
  BY <1>0, <1>1, <1>6 DEF Named
<1> QED
  BY <1>7, <1>8, <1>9, <1>10, <1>11, <1>12 DEF AssistantInv

(* What is there goes to the history: it has a number that is registered, or the running save's, which then was saved twice. *)
LEMMA ArchivesKeeps == ASSUME AssistantAssumption, AssistantInv, Talk!Archives PROVE AssistantInv'
<1>0. SessionTypes /\ TurnsInv /\ Counted /\ InHistory /\ Numbered /\ Named
  BY DEF AssistantInv
<1> DEFINE old == kept.dest
           archive == IF old # Talk!Nothing /\ kept.archive[old.version] = 0
                      THEN [kept.archive EXCEPT ![old.version] = old.n] ELSE kept.archive
<1>1. /\ saving.at = "read" /\ saving' = [saving EXCEPT !.at = "archived"]
      /\ kept' = [dest |-> Talk!Nothing, archive |-> archive]
      /\ UNCHANGED <<disk, reply, known, count, crossed, resaved>>
  BY DEF Talk!Archives
<1>2. kept \in Strategies /\ saving \in Saves /\ known \in [Talk!VersionNumbers -> Nat]
  BY <1>0 DEF SessionTypes
<1>3. saving' \in Saves /\ saving'.at = "archived" /\ saving'.version = saving.version /\ saving'.s = saving.s
  BY <1>1, <1>2 DEF Saves
<1>4. /\ old.version \in Talk!VersionNumbers /\ old.n \in Nat
      /\ kept.archive \in [Talk!VersionNumbers -> Nat]
  BY <1>2 DEF Strategies
<1>5. 0 \in Talk!VersionNumbers /\ Talk!Nothing.version = 0 /\ Talk!Nothing \in [version : Talk!VersionNumbers, n : Nat]
  BY DEF Talk!VersionNumbers, Talk!Nothing, AssistantAssumption
<1>6. archive \in [Talk!VersionNumbers -> Nat]
  BY <1>4
<1>7. ASSUME NEW v \in Talk!VersionNumbers \ {0}, v \notin resaved
      PROVE  archive[v] = known[v]
  <2>1. \/ kept.archive[v] = known[v]
        \/ kept.archive[v] = 0 /\ old = [version |-> v, n |-> known[v]]
    BY <1>0, <1>7 DEF InHistory
  <2>2. CASE kept.archive[v] = known[v]
    <3>1. CASE old # Talk!Nothing /\ kept.archive[old.version] = 0 /\ old.version = v
      <4>1. known[v] = 0
        BY <3>1, <2>2
      <4>2. v = saving.version
        BY <4>1, <3>1, <1>0, <1>1 DEF Numbered
      <4> QED
        BY <4>2, <3>1, <1>0, <1>1, <1>7 DEF Numbered
    <3>2. CASE ~(old # Talk!Nothing /\ kept.archive[old.version] = 0 /\ old.version = v)
      BY <3>2, <2>2, <1>4
    <3> QED
      BY <3>1, <3>2
  <2>3. CASE kept.archive[v] = 0 /\ old = [version |-> v, n |-> known[v]]
    <3>1. old.version = v /\ old.n = known[v] /\ old # Talk!Nothing
      BY <2>3, <1>5
    <3> QED
      BY <3>1, <2>3, <1>4
  <2> QED
    BY <2>1, <2>2, <2>3
<1> HIDE DEF archive
<1>8. kept' \in Strategies /\ kept'.dest = Talk!Nothing /\ kept'.archive = archive
  BY <1>1, <1>5, <1>6 DEF Strategies
<1>9. SessionTypes'
  BY <1>0, <1>1, <1>3, <1>8 DEF SessionTypes
<1>10. TurnsInv'
  BY <1>0, <1>1 DEF TurnsInv
<1>11. Counted'
  <2>1. 0 <= count.saves
    BY <1>0 DEF SessionTypes, Counts
  <2> QED
    BY <2>1, <1>0, <1>1, <1>3, <1>5, <1>8 DEF Counted
<1>12. InHistory'
  BY <1>1, <1>7, <1>8 DEF InHistory
<1>13. Numbered'
  <2>1. Talk!NextVersion' = Talk!NextVersion
    BY <1>1 DEF Talk!NextVersion
  <2> QED
    BY <2>1, <1>0, <1>1, <1>3, <1>8 DEF Numbered, Talk!Nothing
<1>14. Named'
  BY <1>0, <1>1, <1>3 DEF Named
<1> QED
  BY <1>9, <1>10, <1>11, <1>12, <1>13, <1>14 DEF AssistantInv

(* The new version takes its place. *)
LEMMA WritesKeeps == ASSUME AssistantAssumption, AssistantInv, Talk!Writes PROVE AssistantInv'
<1>0. SessionTypes /\ TurnsInv /\ Counted /\ InHistory /\ Numbered /\ Named
  BY DEF AssistantInv
<1> DEFINE dest == [version |-> saving.version, n |-> saving.s.draft.n]
<1>1. /\ saving.at = "archived" /\ saving' = [saving EXCEPT !.at = "written"]
      /\ kept' = [kept EXCEPT !.dest = dest]
      /\ UNCHANGED <<disk, reply, known, count, crossed, resaved>>
  BY DEF Talk!Writes
<1>2. kept \in Strategies /\ saving \in Saves
  BY <1>0 DEF SessionTypes
<1>3. /\ saving' \in Saves /\ saving'.at = "written" /\ saving'.version = saving.version /\ saving'.s = saving.s
      /\ saving.version \in Talk!VersionNumbers /\ saving.s \in Sessions
  BY <1>1, <1>2 DEF Saves
<1>4. saving.s.draft \in Drafts /\ saving.s.draft.ok
  BY <1>0, <1>1, <1>3, SessionIs DEF SessionTypes
<1>5. dest.version = saving.version /\ dest.n = saving.s.draft.n /\ dest.n \in Nat \ {0}
  BY <1>4 DEF Drafts
<1>6. dest \in [version : Talk!VersionNumbers, n : Nat]
  BY <1>3, <1>5
<1> HIDE DEF dest
<1>7. kept' \in Strategies /\ kept'.dest = dest /\ kept'.archive = kept.archive
  BY <1>1, <1>2, <1>6 DEF Strategies
<1>8. SessionTypes'
  BY <1>0, <1>1, <1>3, <1>7 DEF SessionTypes
<1>9. TurnsInv'
  BY <1>0, <1>1 DEF TurnsInv
<1>10. Counted'
  BY <1>0, <1>1, <1>3, <1>5, <1>7 DEF Counted
<1>11. InHistory'
  <2>1. kept.dest = Talk!Nothing
    BY <1>0, <1>1 DEF Numbered
  <2>2. \A v \in Talk!VersionNumbers \ {0} : v \notin resaved => kept.archive[v] = known[v]
    <3>1. ASSUME NEW v \in Talk!VersionNumbers \ {0} PROVE kept.dest # [version |-> v, n |-> known[v]]
      <4>1. kept.dest.version = 0 /\ [version |-> v, n |-> known[v]].version = v
        BY <2>1 DEF Talk!Nothing
      <4> QED
        BY <4>1
    <3> QED
      BY <3>1, <1>0 DEF InHistory
  <2> QED
    BY <2>2, <1>1, <1>7 DEF InHistory
<1>12. Numbered'
  <2>1. Talk!NextVersion' = Talk!NextVersion
    BY <1>1 DEF Talk!NextVersion
  <2>2. saving.version = Talk!NextVersion /\ Talk!NextVersion \in 1..(count.saves + 1)
    BY <1>0, <1>1, NextIsFree DEF Numbered
  <2>3. dest.version # 0
    BY <2>2, <1>5
  <2> QED
    BY <2>1, <2>2, <2>3, <1>0, <1>1, <1>3, <1>5, <1>7 DEF Numbered
<1>13. Named'
  BY <1>0, <1>1, <1>3 DEF Named
<1> QED
  BY <1>8, <1>9, <1>10, <1>11, <1>12, <1>13 DEF AssistantInv

LEMMA NoSaveIs == ASSUME AssistantAssumption PROVE Talk!NoSave \in Saves /\ Talk!NoSave.at = "idle" /\ Talk!NoSave.version = 0
<1>1. Talk!Session(<<>>, Talk!NoDraft, {}) \in Sessions
  BY DEF Talk!Session, Talk!NoDraft, Sessions, Drafts
<1>2. 0 \in Talk!VersionNumbers
  BY DEF Talk!VersionNumbers, AssistantAssumption
<1> QED
  BY <1>1, <1>2 DEF Talk!NoSave, Saves

(* The session as it was read is written back, with the version. *)
LEMMA RecordsKeeps == ASSUME AssistantAssumption, AssistantInv, Talk!Records PROVE AssistantInv'
<1>0. SessionTypes /\ TurnsInv /\ Counted /\ InHistory /\ Numbered /\ Named
  BY DEF AssistantInv
<1> DEFINE saved == saving.s.saved \union {saving.version}
<1>1. /\ saving.at = "written" /\ saving' = Talk!NoSave
      /\ disk' = [saving.s EXCEPT !.saved = saved]
      /\ (crossed' <=> (crossed \/ disk # saving.s))
      /\ UNCHANGED <<reply, kept, known, count, resaved>>
  BY DEF Talk!Records
<1>2. saving \in Saves
  BY <1>0 DEF SessionTypes
<1>3. saving.s \in Sessions /\ saving.version \in Talk!VersionNumbers
  BY <1>2 DEF Saves
<1>4. disk' \in Sessions /\ disk'.api = saving.s.api /\ disk'.saved = saved
  BY <1>1, <1>3 DEF Sessions
<1>5. saving' \in Saves /\ saving'.at = "idle" /\ saving'.version = 0
  BY <1>1, NoSaveIs
<1>6. SessionTypes'
  BY <1>0, <1>1, <1>4, <1>5 DEF SessionTypes
<1>7. TurnsInv'
  <2>1. ASSUME ~crossed' PROVE ~crossed /\ disk'.api = disk.api
    BY <2>1, <1>1, <1>4
  <2> QED
    BY <2>1, <1>0, <1>1 DEF TurnsInv
<1>8. Counted'
  <2>1. 0 <= count.saves
    BY <1>0 DEF SessionTypes, Counts
  <2> QED
    BY <2>1, <1>0, <1>1, <1>5 DEF Counted
<1>9. InHistory'
  BY <1>0, <1>1 DEF InHistory
<1>10. Numbered'
  <2>1. Talk!NextVersion' = Talk!NextVersion
    BY <1>1 DEF Talk!NextVersion
  <2> QED
    BY <2>1, <1>0, <1>1, <1>5 DEF Numbered
<1>11. Named'
  <2>1. kept.dest.version = saving.version
    BY <1>0, <1>1 DEF Numbered
  <2> QED
    BY <2>1, <1>0, <1>1, <1>4 DEF Named
<1> QED
  BY <1>6, <1>7, <1>8, <1>9, <1>10, <1>11 DEF AssistantInv

(* What is in the strategy's place becomes a registered version. *)
LEMMA TalkRestartKeeps == ASSUME AssistantAssumption, AssistantInv, Talk!Restart PROVE AssistantInv'
<1>0. SessionTypes /\ TurnsInv /\ Counted /\ InHistory /\ Numbered /\ Named
  BY DEF AssistantInv
<1> DEFINE d == kept.dest
<1>1. /\ count' = [count EXCEPT !.restarts = @ + 1]
      /\ reply' = Talk!Resting /\ saving' = Talk!NoSave
      /\ (crossed' <=> (crossed \/ saving.at # "idle"))
      /\ known' = (IF d = Talk!Nothing \/ known[d.version] # 0 THEN known ELSE [known EXCEPT ![d.version] = d.n])
      /\ UNCHANGED <<disk, kept, resaved>>
  BY DEF Talk!Restart
<1>2. reply' \in Replies /\ reply'.at = "idle" /\ saving' \in Saves /\ saving'.at = "idle" /\ saving'.version = 0
  BY <1>1, RestingIs, NoSaveIs
<1>3. count' \in Counts /\ count'.saves = count.saves /\ 0 <= count.saves
  <2>1. count \in Counts
    BY <1>0 DEF SessionTypes
  <2> QED
    BY <2>1, <1>1 DEF Counts
<1>4. /\ known \in [Talk!VersionNumbers -> Nat] /\ d.version \in Talk!VersionNumbers /\ d.n \in Nat
      /\ d \in [version : Talk!VersionNumbers, n : Nat]
  BY <1>0 DEF SessionTypes, Strategies
<1>5. known' \in [Talk!VersionNumbers -> Nat]
  BY <1>1, <1>4
<1>6. \A v \in Talk!VersionNumbers : known'[v] = known[v] \/ (v = d.version /\ known[v] = 0 /\ known'[v] = d.n /\ d # Talk!Nothing)
  BY <1>1, <1>4
<1>7. d # Talk!Nothing => d.version # 0 /\ d.n # 0 /\ known'[d.version] # 0
  <2>1. d # Talk!Nothing => d.version # 0 /\ d.n # 0
    BY <1>0 DEF Numbered
  <2> QED
    BY <2>1, <1>1, <1>4
<1>8. SessionTypes'
  BY <1>0, <1>1, <1>2, <1>3, <1>5 DEF SessionTypes
<1>9. TurnsInv'
  BY <1>0, <1>1, <1>2 DEF TurnsInv
<1>10. Counted'
  <2>1. d.version <= count.saves
    BY <1>0 DEF Counted
  <2>2. ASSUME NEW v \in Talk!VersionNumbers, known'[v] # 0 PROVE v <= count.saves
    BY <2>1, <2>2, <1>0, <1>6 DEF Counted
  <2> QED
    BY <2>1, <2>2, <1>1, <1>2, <1>3 DEF Counted
<1>11. InHistory'
  <2> SUFFICES ASSUME NEW v \in Talk!VersionNumbers \ {0}, v \notin resaved
               PROVE  \/ kept.archive[v] = known'[v]
                      \/ kept.archive[v] = 0 /\ d = [version |-> v, n |-> known'[v]]
    BY <1>1 DEF InHistory
  <2>1. \/ kept.archive[v] = known[v]
        \/ kept.archive[v] = 0 /\ d = [version |-> v, n |-> known[v]]
    BY <1>0 DEF InHistory
  <2>2. CASE known'[v] = known[v]
    BY <2>1, <2>2
  <2>3. CASE v = d.version /\ known[v] = 0 /\ known'[v] = d.n
    <3>1. kept.archive[v] = 0
      BY <2>1, <2>3
    <3>2. d = [version |-> v, n |-> known'[v]]
      BY <2>3, <1>4
    <3> QED
      BY <3>1, <3>2
  <2> QED
    BY <2>2, <2>3, <1>6
<1>12. Numbered'
  BY <1>1, <1>2, <1>7 DEF Numbered, Talk!Nothing
<1>13. Named'
  BY <1>0, <1>1, <1>2 DEF Named
<1> QED
  BY <1>8, <1>9, <1>10, <1>11, <1>12, <1>13 DEF AssistantInv

-----------------------------------------------------------------------------
(* Whatever save crosses whatever reply, whatever call fails and whenever the process starts again: what is sent to Claude
   ends with the user, alternates and answers every draft; and a version that a start has registered can still be read as
   it was registered, unless it was saved twice before a restart; the session names what it saved, unless two writes of
   it crossed (ai/builder.py; api/app.py). *)
THEOREM WordIsKept ==
    ASSUME AssistantAssumption
    PROVE  Talk!Spec => []Talk!AssistantKeepsItsWord
<1>1. Talk!Init => AssistantInv
  <2> SUFFICES ASSUME Talk!Init PROVE AssistantInv
    OBVIOUS
  <2>1. disk = Talk!Session(<<>>, Talk!NoDraft, {}) /\ reply = Talk!Resting /\ saving = Talk!NoSave /\ crossed = FALSE
    BY DEF Talk!Init
  <2>2. disk \in Sessions /\ disk.api = <<>>
    BY <2>1 DEF Talk!Session, Talk!NoDraft, Sessions, Drafts
  <2>3. reply \in Replies /\ reply.at = "idle" /\ saving \in Saves /\ saving.at = "idle" /\ saving.version = 0
    BY <2>1, RestingIs, NoSaveIs
  <2>4. count \in Counts /\ count.saves = 0
    BY DEF Talk!Init, Counts, AssistantAssumption
  <2>5. 0 \in Talk!VersionNumbers
    BY DEF Talk!VersionNumbers, AssistantAssumption
  <2>6. kept \in Strategies /\ kept.dest = Talk!Nothing /\ kept.dest.version = 0 /\ \A v \in Talk!VersionNumbers : kept.archive[v] = 0
    BY <2>5 DEF Talk!Init, Talk!Nothing, Strategies
  <2>7. known \in [Talk!VersionNumbers -> Nat] /\ \A v \in Talk!VersionNumbers : known[v] = 0
    BY DEF Talk!Init
  <2>8. SessionTypes
    BY <2>2, <2>3, <2>4, <2>6, <2>7 DEF SessionTypes
  <2>9. TurnsInv
    <3>1. Orderly(<<>>)
      BY DEF Orderly
    <3> QED
      BY <3>1, <2>2, <2>3 DEF TurnsInv
  <2>10. Counted
    BY <2>3, <2>4, <2>6, <2>7 DEF Counted
  <2>11. InHistory /\ Numbered /\ Named
    BY <2>3, <2>6, <2>7 DEF InHistory, Numbered, Named
  <2> QED
    BY <2>8, <2>9, <2>10, <2>11 DEF AssistantInv
<1>2. AssistantInv /\ [Talk!Next]_(Talk!vars) => AssistantInv'
  <2> SUFFICES ASSUME AssistantInv, [Talk!Next]_(Talk!vars) PROVE AssistantInv'
    OBVIOUS
  <2>1. CASE UNCHANGED Talk!vars
    <3>1. UNCHANGED <<disk, reply, saving, kept, known, count, crossed, resaved>>
      BY <2>1 DEF Talk!vars
    <3>2. SessionTypes /\ TurnsInv /\ Counted /\ InHistory /\ Numbered /\ Named
      BY DEF AssistantInv
    <3>3. SessionTypes'
      BY <3>1, <3>2 DEF SessionTypes
    <3>4. TurnsInv'
      BY <3>1, <3>2 DEF TurnsInv
    <3>5. Counted' /\ InHistory' /\ Named'
      BY <3>1, <3>2 DEF Counted, InHistory, Named
    <3>6. Numbered'
      BY <3>1, <3>2 DEF Numbered, Talk!NextVersion
    <3> QED
      BY <3>3, <3>4, <3>5, <3>6 DEF AssistantInv
  <2>2. CASE Talk!Posts \/ Talk!Loads \/ Talk!Round \/ Talk!Fails \/ Talk!Explains \/ Talk!Proposes
    BY <2>2, PostsKeeps, LoadsKeeps, RoundKeeps, FailsKeeps, ExplainsKeeps, ProposesKeeps
  <2>3. CASE Talk!SaveBegins \/ Talk!Archives \/ Talk!Writes \/ Talk!Records \/ Talk!Restart
    BY <2>3, SaveBeginsKeeps, ArchivesKeeps, WritesKeeps, RecordsKeeps, TalkRestartKeeps
  <2> QED
    BY <2>1, <2>2, <2>3 DEF Talk!Next
<1>3. AssistantInv => Talk!AssistantKeepsItsWord
  <2> SUFFICES ASSUME AssistantInv PROVE Talk!TurnsAlternate /\ Talk!VersionsKept
    BY DEF Talk!AssistantKeepsItsWord
  <2>0. SessionTypes /\ TurnsInv /\ Counted /\ InHistory /\ Numbered /\ Named
    BY DEF AssistantInv
  <2>1. Talk!TurnsAlternate
    BY <2>0 DEF TurnsInv, Orderly, EndsWithUser, Talk!TurnsAlternate
  <2>2. ASSUME saving.at # "archived", NEW v \in Talk!VersionNumbers \ {0}
        PROVE  /\ known[v] # 0 /\ v \notin resaved =>
                     kept.archive[v] = known[v] \/ kept.dest = [version |-> v, n |-> known[v]]
               /\ kept.dest.version = v /\ saving.at = "idle" /\ ~crossed => v \in disk.saved
    BY <2>0, <2>2 DEF InHistory, Named
  <2> QED
    BY <2>1, <2>2 DEF Talk!VersionsKept
<1> QED
  BY <1>1, <1>2, <1>3, PTL DEF Talk!Spec

-----------------------------------------------------------------------------
(* Monitor.  The argument: the first cycle of a date after the close has the summary, so all that it looks at had
   closed before that close, and the next summary, which is on a later date, looks back at most to it; and what no
   summary passed has closed since the last.  Before the first restart the peak is the highest equity read. *)

(* A date has cycles, equity is no less than nothing, and a pause is lifted at a drawdown no larger than makes one. *)
MonitorAssumption ==
    /\ Day \in Nat \ {0} /\ Close \in Nat /\ MaxLate \in Nat
    /\ Equities \subseteq Nat /\ None \notin Nat
    /\ Pause \in Int /\ Resume \in Int /\ Resume <= Pause

(* The close of a date, in cycles. *)
Closing(date) == date * Day + Close

MonitorTypes ==
    /\ time \in Nat /\ started \in Nat /\ restarts \in Nat
    /\ account \in Equities \union {None} /\ peak \in Equities \union {None} /\ dayStart \in Equities \union {None}
    /\ account = None <=> peak = None
    /\ truePeak \in Nat
    /\ \A x \in trades : x \in [exit : Nat, told : Nat, passed : BOOLEAN, edge : BOOLEAN, lost : BOOLEAN]
    /\ halts \in Int /\ haltsTold \in Int /\ haltsRead \in Int
    /\ rolled \in Nat \union {None} /\ paused \in BOOLEAN /\ late \in BOOLEAN

(* The first cycle of a date after its close has a summary, and what the monitor knows was read in this run. *)
Dated ==
    /\ rolled # None => rolled <= time \div Day
    /\ account # None /\ time % Day >= Close => rolled = time \div Day
    /\ last # None => last.at \in Nat /\ last.at <= time
    /\ started <= time
    /\ \A x \in trades : ~x.lost => account # None /\ started <= x.exit /\ x.exit <= time

(* A trade that was told had closed before the close of that date, a day before which the next summary does not look. *)
ToldOnce ==
    \A x \in trades : x.told <= 1 /\ (x.told = 1 /\ ~x.lost => rolled # None /\ x.exit < Closing(rolled))

(* A trade that no summary passed is one since the last. *)
Untold ==
    \A x \in trades : ~x.lost /\ ~x.passed /\ ~x.edge /\ last # None => x.exit >= last.at

PassedTold ==
    ~late => \A x \in trades : x.passed /\ ~x.edge /\ ~x.lost => x.told = 1

DayCounts ==
    /\ last # None /\ last.equity # None => dayStart = last.equity
    /\ haltsTold + halts = haltsRead

(* Before the first restart nothing is forgotten. *)
PeakKnown == restarts = 0 => truePeak = IF account = None THEN 0 ELSE peak

MonitorInv == MonitorTypes /\ Dated /\ ToldOnce /\ Untold /\ PassedTold /\ DayCounts /\ PeakKnown /\ Watched!PauseHolds

(* A time is in the date it is divided to, a cycle is after the close where the rest says so, and dates do not overlap. *)
LEMMA Dates ==
    ASSUME MonitorAssumption, NEW t \in Nat
    PROVE  /\ t \div Day \in Nat
           /\ t % Day >= Close <=> t >= Closing(t \div Day)
           /\ t < (t \div Day) * Day + Day
<1> DEFINE q == t \div Day  r == t % Day
<1>1. q \in Int /\ r \in 0..(Day - 1) /\ t = Day * q + r
  BY DEF MonitorAssumption
<1>2. q \in Nat
  <2>1. 0 \div Day = 0
    BY DEF MonitorAssumption
  <2> QED
    BY <2>1, <1>1, DivMono DEF MonitorAssumption
<1> HIDE DEF q, r
<1>3. Day * q = q * Day /\ q * Day \in Nat
  BY <1>2 DEF MonitorAssumption
<1>4. r >= Close <=> t >= Closing(q)
  BY <1>1, <1>2, <1>3 DEF MonitorAssumption, Closing
<1>5. t < q * Day + Day
  BY <1>1, <1>3 DEF MonitorAssumption
<1> QED
  BY <1>2, <1>4, <1>5 DEF q, r

(* The closes of two dates are a day apart at least. *)
LEMMA DayApart ==
    ASSUME MonitorAssumption, NEW r \in Nat, NEW q \in Nat, r < q
    PROVE  r * Day + Day <= q * Day /\ Closing(r) + Day <= Closing(q) /\ Closing(q) \in Nat /\ Closing(r) \in Nat
<1>1. q >= r + 1
  OBVIOUS
<1>2. q * Day >= (r + 1) * Day
  BY <1>1 DEF MonitorAssumption
<1>3. (r + 1) * Day = r * Day + Day /\ r * Day \in Nat /\ q * Day \in Nat
  BY DEF MonitorAssumption
<1> QED
  BY <1>2, <1>3 DEF MonitorAssumption, Closing

(* Where a summary is due, all that was read before has closed before the close of that date, and a day earlier is no
   earlier than the close of the last date that had one. *)
LEMMA DueIs ==
    ASSUME MonitorAssumption, MonitorTypes, Dated, NEW t \in Nat, time < t, Watched!Due(t)
    PROVE  /\ t \div Day \in Nat /\ t >= Closing(t \div Day) /\ Closing(t \div Day) \in Nat
           /\ account # None => time < Closing(t \div Day)
           /\ rolled # None => rolled \in Nat /\ Closing(rolled) \in Nat /\ t - Day >= Closing(rolled)
<1> DEFINE q == t \div Day  p == time \div Day
<1>1. q \in Nat /\ t >= Closing(q) /\ t % Day >= Close /\ rolled # q
  BY Dates DEF Watched!Due
<1>2. p \in Nat /\ p <= q /\ (time % Day >= Close <=> time >= Closing(p)) /\ time < p * Day + Day
  <2>1. time \in Nat /\ time <= t
    BY DEF MonitorTypes
  <2>2. p <= q
    BY <2>1, DivMono DEF MonitorAssumption
  <2> QED
    BY <2>1, <2>2, Dates
<1>3. Closing(q) \in Nat
  BY <1>1 DEF Closing, MonitorAssumption
<1>4. Dated /\ time \in Nat /\ rolled \in Nat \union {None}
  BY DEF MonitorTypes
<1>5. ASSUME account # None PROVE time < Closing(q)
  <2>1. CASE p = q
    <3>1. ~(time % Day >= Close)
      BY <1>1, <1>4, <1>5, <2>1 DEF Dated, MonitorAssumption
    <3> QED
      BY <3>1, <2>1, <1>2, <1>3, <1>4
  <2>2. CASE p < q
    <3>1. p * Day + Day <= q * Day
      BY <2>2, <1>1, <1>2, DayApart
    <3>2. q * Day <= Closing(q) /\ q * Day \in Nat /\ p * Day + Day \in Nat
      BY <1>1, <1>2 DEF Closing, MonitorAssumption
    <3> QED
      BY <3>1, <3>2, <1>2, <1>3, <1>4
  <2> QED
    BY <2>1, <2>2, <1>1, <1>2
<1>6. ASSUME rolled # None PROVE rolled \in Nat /\ Closing(rolled) \in Nat /\ t - Day >= Closing(rolled)
  <2>1. rolled \in Nat /\ rolled < q
    BY <1>1, <1>2, <1>4, <1>6 DEF Dated
  <2>2. Closing(rolled) + Day <= Closing(q) /\ Closing(rolled) \in Nat
    BY <2>1, <1>1, DayApart
  <2> QED
    BY <2>1, <2>2, <1>1, <1>3 DEF MonitorAssumption
<1> QED
  BY <1>1, <1>3, <1>5, <1>6

(* The greater of two numbers. *)
LEMMA MaxOfTwo ==
    ASSUME NEW a \in Nat, NEW b \in Nat
    PROVE  Watched!Max({a, b}) = (IF a >= b THEN a ELSE b)
<1>1. Watched!Max({a, b}) = CHOOSE x \in {a, b} : \A y \in {a, b} : x >= y
  BY DEF Watched!Max
<1>2. CASE a >= b
  <2>1. \A x \in {a, b} : (\A y \in {a, b} : x >= y) => x = a
    BY <1>2
  <2>2. \A y \in {a, b} : a >= y
    BY <1>2
  <2> QED
    BY <1>1, <1>2, <2>1, <2>2
<1>3. CASE ~(a >= b)
  <2>1. \A x \in {a, b} : (\A y \in {a, b} : x >= y) => x = b
    BY <1>3
  <2>2. \A y \in {a, b} : b >= y
    BY <1>3
  <2> QED
    BY <1>1, <1>3, <2>1, <2>2
<1> QED
  BY <1>2, <1>3

(* A drawdown that makes a pause is one in which none is lifted. *)
LEMMA BelowBoth ==
    ASSUME MonitorAssumption, NEW high \in Nat, NEW equity \in Nat, Watched!Below(high, equity, Pause)
    PROVE  Watched!Below(high, equity, Resume)
<1>1. Pause * high >= Resume * high /\ Pause * high \in Int /\ Resume * high \in Int
  BY DEF MonitorAssumption
<1> QED
  BY <1>1 DEF Watched!Below

(* What a trade becomes in a cycle: it stays, or it was passed by a summary, or it is new. *)
TradesAfter(t) ==
    \A y \in trades' :
        \/ ~Watched!Due(t) /\ y \in trades
        \/ /\ Watched!Due(t) /\ y.passed
           /\ \E x \in trades : /\ y.exit = x.exit /\ y.edge = x.edge /\ y.lost = x.lost
                               /\ y.told = IF ~x.lost /\ x.exit >= t - Day THEN x.told + 1 ELSE x.told
        \/ /\ y.exit \in time..t /\ y.told = 0 /\ ~y.passed /\ ~y.lost
           /\ y.edge = (Watched!Due(t) /\ y.exit < t)

(* A cycle leaves only such trades. *)
LEMMA TradesIn ==
    ASSUME MonitorAssumption, MonitorTypes, NEW t \in Nat, time < t, NEW e, NEW halted, NEW closed,
           \A x \in closed : x \in time..t, Watched!Minute(t, e, closed, halted)
    PROVE  /\ TradesAfter(t)
           /\ \A y \in trades' : y \in [exit : Nat, told : Nat, passed : BOOLEAN, edge : BOOLEAN, lost : BOOLEAN]
<1> DEFINE R == [exit : Nat, told : Nat, passed : BOOLEAN, edge : BOOLEAN, lost : BOOLEAN]
           New == {[exit |-> x, told |-> 0, passed |-> FALSE, edge |-> Watched!Due(t) /\ x < t, lost |-> FALSE] : x \in closed}
           Old == IF Watched!Due(t) THEN Watched!Told(t) ELSE trades
<1>1. trades' = Old \union New
  BY DEF Watched!Minute
<1>2. \A x \in trades : x \in R
  BY DEF MonitorTypes
<1>3. time \in Nat
  BY DEF MonitorTypes
<1>4. ASSUME NEW y \in New
      PROVE  /\ y \in R /\ y.exit \in time..t /\ y.told = 0 /\ ~y.passed /\ ~y.lost
             /\ y.edge = (Watched!Due(t) /\ y.exit < t)
  <2>1. PICK x \in closed : y = [exit |-> x, told |-> 0, passed |-> FALSE, edge |-> Watched!Due(t) /\ x < t, lost |-> FALSE]
    BY <1>4
  <2>2. x \in time..t /\ x \in Nat
    BY <1>3
  <2>3. (Watched!Due(t) /\ x < t) \in BOOLEAN
    OBVIOUS
  <2> HIDE DEF New
  <2>4. y \in R
    BY <2>1, <2>2, <2>3
  <2>5. y.exit = x /\ y.told = 0 /\ ~y.passed /\ ~y.lost
    BY <2>1
  <2>6. y.edge = (Watched!Due(t) /\ x < t)
    BY <2>1, Zenon
  <2> QED
    BY <2>2, <2>4, <2>5, <2>6
<1>5. ASSUME Watched!Due(t), NEW y \in Watched!Told(t)
      PROVE  /\ y \in R /\ y.passed
             /\ \E x \in trades : /\ y.exit = x.exit /\ y.edge = x.edge /\ y.lost = x.lost
                                 /\ y.told = IF ~x.lost /\ x.exit >= t - Day THEN x.told + 1 ELSE x.told
  <2>1. PICK x \in trades : y = IF x \in Watched!Listed(t) THEN [x EXCEPT !.told = x.told + 1, !.passed = TRUE]
                                                          ELSE [x EXCEPT !.passed = TRUE]
    BY <1>5 DEF Watched!Told
  <2>2. x \in Watched!Listed(t) <=> ~x.lost /\ x.exit >= t - Day
    BY DEF Watched!Listed
  <2>3. x \in R
    BY <1>2
  <2>4. y \in R /\ y.passed
    <3>1. [x EXCEPT !.passed = TRUE] \in R /\ [x EXCEPT !.passed = TRUE].passed
      BY <2>3
    <3>2. x.told + 1 \in Nat
      BY <2>3
    <3>3. [x EXCEPT !.told = x.told + 1, !.passed = TRUE] \in R /\ [x EXCEPT !.told = x.told + 1, !.passed = TRUE].passed
      BY <2>3, <3>2
    <3> QED
      BY <2>1, <3>1, <3>3
  <2>5. y.exit = x.exit /\ y.edge = x.edge /\ y.lost = x.lost
    BY <2>1, <2>3
  <2>6. y.told = IF ~x.lost /\ x.exit >= t - Day THEN x.told + 1 ELSE x.told
    BY <2>1, <2>2, <2>3
  <2> QED
    BY <2>4, <2>5, <2>6
<1> HIDE DEF New
<1>6. \A y \in trades' : y \in R
  BY <1>1, <1>2, <1>4, <1>5
<1>7. TradesAfter(t)
  <2> SUFFICES ASSUME NEW y \in trades'
               PROVE  \/ ~Watched!Due(t) /\ y \in trades
                      \/ Watched!Due(t) /\ y \in Watched!Told(t)
                      \/ y \in New
    BY <1>4, <1>5 DEF TradesAfter
  <2> QED
    BY <1>1
<1> QED
  BY <1>6, <1>7

(* The summary and the guard go by what was read before, and then the rest is read. *)
LEMMA MinuteKeeps ==
    ASSUME MonitorAssumption, MonitorInv, NEW t \in Nat, time < t, NEW e \in Equities, NEW halted \in 0..1, NEW closed,
           \A x \in closed : x \in time..t, Watched!Minute(t, e, closed, halted)
    PROVE  MonitorInv'
<1> DEFINE R == [exit : Nat, told : Nat, passed : BOOLEAN, edge : BOOLEAN, lost : BOOLEAN]
           due == Watched!Due(t)
<1>0. /\ MonitorTypes /\ Dated /\ ToldOnce /\ Untold /\ PassedTold /\ DayCounts /\ PeakKnown /\ Watched!PauseHolds
      /\ time \in Nat /\ e \in Nat /\ Equities \subseteq Nat /\ None \notin Nat /\ Day \in Nat
  BY DEF MonitorInv, MonitorAssumption, MonitorTypes
<1>1. /\ time' = t /\ account' = e /\ account' # None
      /\ peak' = IF peak = None THEN e ELSE Watched!Max({peak, e})
      /\ truePeak' = Watched!Max({truePeak, e})
      /\ dayStart' = IF due /\ account # None THEN account ELSE IF dayStart = None THEN e ELSE dayStart
      /\ halts' = (IF due THEN 0 ELSE halts) + halted
      /\ haltsRead' = haltsRead + halted
      /\ started' = started /\ restarts' = restarts
  BY <1>0 DEF Watched!Minute
<1>2. Watched!Summary(t) /\ Watched!Guard
  BY DEF Watched!Minute
<1>3. ASSUME ~due PROVE rolled' = rolled /\ last' = last /\ late' = late /\ haltsTold' = haltsTold
  BY <1>2, <1>3 DEF Watched!Summary
<1>4. ASSUME due
      PROVE  /\ rolled' = t \div Day
             /\ last'.at = t /\ last'.equity = account
             /\ late' = (late \/ IF last = None THEN t - Day > started ELSE t - Day # last.at)
             /\ haltsTold' = haltsTold + halts
  BY <1>2, <1>4 DEF Watched!Summary
<1>5. TradesAfter(t) /\ \A y \in trades' : y \in R
  BY <1>0, TradesIn
<1>6. due => /\ t \div Day \in Nat /\ t >= Closing(t \div Day) /\ Closing(t \div Day) \in Nat
             /\ account # None => time < Closing(t \div Day)
             /\ rolled # None => rolled \in Nat /\ Closing(rolled) \in Nat /\ t - Day >= Closing(rolled)
  BY <1>0, DueIs
<1>7. t \div Day \in Nat /\ time \div Day \in Nat /\ time \div Day <= t \div Day
  <2>1. time <= t
    BY <1>0
  <2>2. t \div Day \in Nat /\ time \div Day \in Nat
    BY <1>0, Dates
  <2>3. Day \in Nat \ {0} /\ time \in Int /\ t \in Int
    BY <1>0 DEF MonitorAssumption
  <2>4. time \div Day <= t \div Day
    BY <2>1, <2>3, DivMono
  <2> QED
    BY <2>2, <2>4
<1>8. \A x \in trades : x \in R
  BY <1>0 DEF MonitorTypes
<1> HIDE DEF due
<1>9. MonitorTypes'
  <2>1. peak' \in Equities /\ truePeak' \in Nat
    <3>1. peak \in Equities \union {None} /\ truePeak \in Nat
      BY <1>0 DEF MonitorTypes
    <3>2. peak # None => Watched!Max({peak, e}) \in {peak, e}
      BY <1>0, <3>1, MaxOfTwo
    <3>3. Watched!Max({truePeak, e}) \in {truePeak, e}
      BY <1>0, <3>1, MaxOfTwo
    <3> QED
      BY <1>0, <1>1, <3>1, <3>2, <3>3
  <2>2. dayStart' \in Equities \union {None}
    BY <1>0, <1>1 DEF MonitorTypes
  <2>3. halts' \in Int /\ haltsTold' \in Int /\ haltsRead' \in Int
    <3>1. halts \in Int /\ haltsTold \in Int /\ haltsRead \in Int /\ halted \in Int
      BY <1>0 DEF MonitorTypes
    <3>2. haltsTold' = haltsTold \/ haltsTold' = haltsTold + halts
      BY <1>3, <1>4
    <3> QED
      BY <1>1, <3>1, <3>2
  <2>4. rolled' \in Nat \union {None}
    BY <1>0, <1>3, <1>4, <1>7 DEF MonitorTypes
  <2>5. paused' \in BOOLEAN
    <3>1. CASE account = None
      BY <1>0, <1>2, <3>1 DEF Watched!Guard, MonitorTypes
    <3>2. CASE account # None
      <4>1. account \in Nat /\ peak \in Nat /\ Pause \in Int /\ Resume \in Int
        BY <1>0, <3>2 DEF MonitorTypes, MonitorAssumption
      <4>2. paused' = IF paused THEN Watched!Below(peak, account, Resume) ELSE Watched!Below(peak, account, Pause)
        BY <1>2, <3>2 DEF Watched!Guard, Watched!Guarded
      <4>3. /\ ((peak - account) * 100 > Resume * peak) \in BOOLEAN
            /\ ((peak - account) * 100 > Pause * peak) \in BOOLEAN
        BY <4>1
      <4>4. Watched!Below(peak, account, Resume) \in BOOLEAN /\ Watched!Below(peak, account, Pause) \in BOOLEAN
        BY <4>3, Zenon DEF Watched!Below
      <4> QED
        BY <4>2, <4>4, Zenon
    <3> QED
      BY <3>1, <3>2
  <2>6. late' \in BOOLEAN
    <3>1. CASE ~due
      BY <1>0, <1>3, <3>1 DEF MonitorTypes
    <3>2. CASE due
      <4>1. (late \/ IF last = None THEN t - Day > started ELSE t - Day # last.at) \in BOOLEAN
        BY Zenon
      <4> QED
        BY <1>4, <3>2, <4>1, Zenon
    <3> QED
      BY <3>1, <3>2
  <2>7. started' \in Nat /\ restarts' \in Nat
    BY <1>0, <1>1 DEF MonitorTypes
  <2> QED
    BY <1>0, <1>1, <1>5, <2>1, <2>2, <2>3, <2>4, <2>5, <2>6, <2>7 DEF MonitorTypes
<1>10. Dated'
  <2>1. rolled' # None => rolled' <= t \div Day
    BY <1>0, <1>3, <1>4, <1>7 DEF Dated, MonitorTypes
  <2>2. t % Day >= Close => rolled' = t \div Day
    BY <1>3, <1>4 DEF Watched!Due, due
  <2>3. last' # None => last'.at \in Nat /\ last'.at <= t
    BY <1>0, <1>3, <1>4 DEF Dated
  <2>4. ASSUME NEW y \in trades', ~y.lost PROVE started <= y.exit /\ y.exit <= t
    <3>1. CASE y.exit \in time..t
      <4>1. started <= time
        BY <1>0 DEF Dated, MonitorTypes
      <4> QED
        BY <3>1, <4>1, <1>0 DEF MonitorTypes
    <3>2. CASE \E x \in trades : y.exit = x.exit /\ y.lost = x.lost
      BY <1>0, <1>8, <2>4, <3>2 DEF Dated
    <3> QED
      BY <1>5, <3>1, <3>2 DEF TradesAfter
  <2>5. started <= t
    BY <1>0 DEF Dated, MonitorTypes
  <2> QED
    BY <1>1, <2>1, <2>2, <2>3, <2>4, <2>5 DEF Dated
<1>11. ToldOnce'
  <2> SUFFICES ASSUME NEW y \in trades'
               PROVE  y.told <= 1 /\ (y.told = 1 /\ ~y.lost => rolled' # None /\ y.exit < Closing(rolled'))
    BY DEF ToldOnce, Closing
  <2>1. CASE y.told = 0
    BY <2>1
  <2>2. CASE ~due /\ y \in trades
    BY <1>0, <1>3, <2>2 DEF ToldOnce
  <2>3. ASSUME due, NEW x \in trades, y.exit = x.exit, y.lost = x.lost,
               y.told = IF ~x.lost /\ x.exit >= t - Day THEN x.told + 1 ELSE x.told
        PROVE  y.told <= 1 /\ (y.told = 1 /\ ~y.lost => rolled' # None /\ y.exit < Closing(rolled'))
    <3>1. x \in R /\ x.told \in {0, 1} /\ x.exit \in Nat
      BY <1>0, <1>8 DEF ToldOnce
    <3>2. ~x.lost /\ x.exit >= t - Day => x.told = 0
      <4>1. ~x.lost /\ x.told = 1 => x.exit < t - Day
        BY <1>0, <1>6, <2>3, <3>1 DEF ToldOnce
      <4> QED
        BY <3>1, <4>1, <1>0
    <3>3. ~x.lost => x.exit < Closing(t \div Day)
      BY <1>0, <1>6, <2>3, <3>1 DEF Dated
    <3>4. rolled' = t \div Day /\ rolled' # None
      BY <1>0, <1>4, <1>7, <2>3
    <3> QED
      BY <2>3, <3>1, <3>2, <3>3, <3>4
  <2> QED
    BY <1>5, <2>1, <2>2, <2>3 DEF TradesAfter, due
<1>12. Untold'
  <2> SUFFICES ASSUME NEW y \in trades', ~y.lost, ~y.passed, ~y.edge, last' # None
               PROVE  y.exit >= last'.at
    BY DEF Untold
  <2>1. CASE ~due /\ y \in trades
    BY <1>0, <1>3, <2>1 DEF Untold
  <2>2. CASE y.exit \in time..t /\ y.edge = (due /\ y.exit < t)
    <3>1. CASE due
      <4>1. ~(y.exit < t)
        BY <2>2, <3>1, Zenon
      <4>2. y.exit \in time..t /\ last'.at = t
        BY <1>4, <2>2, <3>1
      <4> QED
        BY <1>0, <4>1, <4>2
    <3>2. CASE ~due
      <4>1. last' = last
        BY <1>3, <3>2
      <4>2. last.at \in Nat /\ last.at <= time
        BY <1>0, <4>1 DEF Dated
      <4>3. y.exit \in time..t
        BY <2>2
      <4>4. y.exit >= last.at
        BY <1>0, <4>2, <4>3
      <4> QED
        BY <4>1, <4>4
    <3> QED
      BY <3>1, <3>2
  <2> QED
    BY <1>5, <2>1, <2>2 DEF TradesAfter, due
<1>13. PassedTold'
  <2> SUFFICES ASSUME ~late', NEW y \in trades', y.passed, ~y.edge, ~y.lost
               PROVE  y.told = 1
    BY DEF PassedTold
  <2>1. CASE ~due /\ y \in trades
    BY <1>0, <1>3, <2>1 DEF PassedTold
  <2>2. ASSUME due, NEW x \in trades, y.exit = x.exit, y.edge = x.edge, y.lost = x.lost,
               y.told = IF ~x.lost /\ x.exit >= t - Day THEN x.told + 1 ELSE x.told
        PROVE  y.told = 1
    <3>1. x \in R /\ x.told \in {0, 1} /\ ~x.lost /\ ~x.edge
      BY <1>0, <1>8, <2>2 DEF ToldOnce
    <3>2. ~late /\ (last = None => ~(t - Day > started)) /\ (last # None => t - Day = last.at)
      BY <1>4, <2>2
    <3>3. CASE x.told = 1
      BY <1>11, <2>2, <3>1, <3>3 DEF ToldOnce
    <3>4. CASE x.told = 0
      <4>1. ~x.passed
        BY <1>0, <3>1, <3>2, <3>4 DEF PassedTold
      <4>2. CASE last = None
        BY <1>0, <2>2, <3>1, <3>2, <3>4, <4>2 DEF Dated, MonitorTypes
      <4>3. CASE last # None
        <5>1. x.exit >= t - Day
          BY <1>0, <3>1, <3>2, <4>1, <4>3 DEF Untold
        <5> QED
          BY <2>2, <3>1, <3>4, <5>1
      <4> QED
        BY <4>2, <4>3
    <3> QED
      BY <3>1, <3>3, <3>4
  <2> QED
    BY <1>5, <2>1, <2>2 DEF TradesAfter, due
<1>14. DayCounts'
  <2>1. last' # None /\ last'.equity # None => dayStart' = last'.equity
    <3>1. CASE due
      BY <1>1, <1>4, <3>1
    <3>2. CASE ~due
      BY <1>0, <1>1, <1>3, <3>2 DEF DayCounts
    <3> QED
      BY <3>1, <3>2
  <2>2. haltsTold' + halts' = haltsRead'
    <3>1. halts \in Int /\ haltsTold \in Int /\ haltsRead \in Int /\ halted \in Int /\ haltsTold + halts = haltsRead
      BY <1>0 DEF MonitorTypes, DayCounts
    <3>2. CASE due
      BY <1>1, <1>4, <3>1, <3>2
    <3>3. CASE ~due
      BY <1>1, <1>3, <3>1, <3>3
    <3> QED
      BY <3>2, <3>3
  <2> QED
    BY <2>1, <2>2 DEF DayCounts
<1>15. PeakKnown'
  <2> SUFFICES ASSUME restarts = 0 PROVE truePeak' = peak'
    BY <1>1 DEF PeakKnown
  <2>1. truePeak = IF account = None THEN 0 ELSE peak
    BY <1>0 DEF PeakKnown
  <2>2. account = None <=> peak = None
    BY <1>0 DEF MonitorTypes
  <2>3. CASE account = None
    <3>1. Watched!Max({0, e}) = e
      BY <1>0, MaxOfTwo
    <3> QED
      BY <1>1, <2>1, <2>2, <2>3, <3>1
  <2>4. CASE account # None
    BY <1>1, <2>1, <2>2, <2>4
  <2> QED
    BY <2>3, <2>4
<1>16. Watched!PauseHolds'
  <2>1. CASE account = None
    BY <1>0, <1>1, <1>2, <2>1 DEF Watched!Guard, Watched!PauseHolds, Watched!Below
  <2>2. CASE account # None
    <3>1. account \in Nat /\ peak \in Nat
      BY <1>0, <2>2 DEF MonitorTypes
    <3>2. paused' = Watched!Guarded(peak, account) /\ judged' = [peak |-> peak, equity |-> account, true |-> truePeak]
      BY <1>2, <2>2 DEF Watched!Guard
    <3>3. judged'.peak = peak /\ judged'.equity = account /\ judged'.true = truePeak
      BY <3>2
    <3>4. Watched!Below(peak, account, Pause) => Watched!Below(peak, account, Resume)
      BY <3>1, BelowBoth
    <3>5. Watched!Below(peak, account, Pause) => paused'
      BY <3>2, <3>4 DEF Watched!Guarded
    <3>6. paused' => Watched!Below(peak, account, Resume)
      BY <3>2, <3>4 DEF Watched!Guarded
    <3>7. ~paused' /\ Watched!Below(truePeak, account, Pause) => restarts > 0
      <4>1. restarts = 0 => truePeak = peak
        BY <1>0, <2>2 DEF PeakKnown
      <4>2. restarts \in Nat
        BY <1>0 DEF MonitorTypes
      <4> QED
        BY <3>5, <4>1, <4>2
    <3> QED
      BY <1>1, <3>3, <3>5, <3>6, <3>7 DEF Watched!PauseHolds, Watched!Below
  <2> QED
    BY <2>1, <2>2
<1> QED
  BY <1>9, <1>10, <1>11, <1>12, <1>13, <1>14, <1>15, <1>16 DEF MonitorInv

(* What was read before a restart is lost to the summaries. *)
LEMMA WatchedRestartKeeps ==
    ASSUME MonitorAssumption, MonitorInv, Watched!Restart
    PROVE  MonitorInv'
<1> DEFINE R == [exit : Nat, told : Nat, passed : BOOLEAN, edge : BOOLEAN, lost : BOOLEAN]
<1>0. MonitorTypes /\ Dated /\ ToldOnce
  BY DEF MonitorInv
<1>1. /\ account' = None /\ peak' = None /\ dayStart' = None /\ halts' = 0 /\ rolled' = None
      /\ judged' = None /\ last' = None /\ started' = time /\ late' = FALSE /\ haltsTold' = 0 /\ haltsRead' = 0
      /\ restarts' = restarts + 1 /\ time' = time /\ paused' = paused /\ truePeak' = truePeak
  BY DEF Watched!Restart
<1>2. ASSUME NEW y \in trades' PROVE y \in R /\ y.lost /\ y.told <= 1
  <2>1. PICK x \in trades : y = [x EXCEPT !.lost = TRUE]
    BY <1>2 DEF Watched!Restart
  <2>2. x \in R /\ x.told <= 1
    BY <1>0 DEF MonitorTypes, ToldOnce
  <2> QED
    BY <2>1, <2>2
<1>3. restarts \in Nat /\ time \in Nat
  BY <1>0 DEF MonitorTypes
<1>4. MonitorTypes'
  <2>1. paused' \in BOOLEAN /\ late' \in BOOLEAN
    BY <1>0, <1>1 DEF MonitorTypes
  <2>2. restarts' \in Nat /\ started' \in Nat /\ time' \in Nat /\ truePeak' \in Nat
    BY <1>0, <1>1 DEF MonitorTypes
  <2>3. halts' \in Int /\ haltsTold' \in Int /\ haltsRead' \in Int
    BY <1>1
  <2>4. account' = None /\ peak' = None /\ dayStart' = None /\ rolled' = None
    BY <1>1
  <2> QED
    BY <1>2, <2>1, <2>2, <2>3, <2>4 DEF MonitorTypes
<1>5. Dated' /\ ToldOnce' /\ Untold'
  <2>1. Dated'
    BY <1>1, <1>2, <1>3 DEF Dated
  <2>2. ToldOnce' /\ Untold'
    BY <1>1, <1>2 DEF ToldOnce, Untold
  <2> QED
    BY <2>1, <2>2
<1>6. PassedTold' /\ DayCounts'
  BY <1>1, <1>2 DEF PassedTold, DayCounts
<1>7. PeakKnown' /\ Watched!PauseHolds'
  BY <1>1, <1>3 DEF PeakKnown, Watched!PauseHolds
<1> QED
  BY <1>4, <1>5, <1>6, <1>7 DEF MonitorInv

(* Whenever a cycle comes late and whenever the process starts again: a trade the monitor has read is in the next
   summary and in no other, as long as the summaries come a day apart and it did not close just before one; the day's
   profit is counted from the last summary, and each halt told once; and the learning loops pause as the drawdown
   last seen wants it, by the highest equity ever read until a restart forgets it (monitor/state.py, daily_summary;
   learning/guard.py, update). *)
THEOREM MonitorRemembers ==
    ASSUME MonitorAssumption
    PROVE  Watched!Spec => []Watched!MonitorHolds
<1>1. Watched!Init => MonitorInv
  <2> SUFFICES ASSUME Watched!Init PROVE MonitorInv
    OBVIOUS
  <2>1. /\ time = 0 /\ account = None /\ peak = None /\ dayStart = None /\ trades = {} /\ halts = 0 /\ rolled = None
        /\ paused = FALSE /\ judged = None /\ truePeak = 0 /\ last = None /\ started = 0 /\ late = FALSE
        /\ haltsTold = 0 /\ haltsRead = 0 /\ restarts = 0
    BY DEF Watched!Init
  <2>2. MonitorTypes
    <3>1. paused \in BOOLEAN /\ late \in BOOLEAN
      BY <2>1
    <3>2. time \in Nat /\ started \in Nat /\ restarts \in Nat /\ truePeak \in Nat
      BY <2>1
    <3>3. halts \in Int /\ haltsTold \in Int /\ haltsRead \in Int /\ trades = {}
      BY <2>1
    <3>4. account = None /\ peak = None /\ dayStart = None /\ rolled = None
      BY <2>1
    <3> QED
      BY <3>1, <3>2, <3>3, <3>4 DEF MonitorTypes
  <2>3. Dated /\ ToldOnce /\ Untold /\ PassedTold
    BY <2>1 DEF Dated, ToldOnce, Untold, PassedTold
  <2>4. DayCounts /\ PeakKnown /\ Watched!PauseHolds
    BY <2>1 DEF DayCounts, PeakKnown, Watched!PauseHolds
  <2> QED
    BY <2>2, <2>3, <2>4 DEF MonitorInv
<1>2. MonitorInv /\ [Watched!Next]_(Watched!vars) => MonitorInv'
  <2> SUFFICES ASSUME MonitorInv, [Watched!Next]_(Watched!vars) PROVE MonitorInv'
    OBVIOUS
  <2>1. CASE UNCHANGED Watched!vars
    <3>1. UNCHANGED <<time, account, peak, dayStart, trades, halts, rolled, paused, judged, truePeak, last, started, late,
                      haltsTold, haltsRead, restarts>>
      BY <2>1 DEF Watched!vars
    <3>2. MonitorTypes /\ Dated /\ ToldOnce /\ Untold /\ PassedTold /\ DayCounts /\ PeakKnown /\ Watched!PauseHolds
      BY DEF MonitorInv
    <3>3. MonitorTypes'
      BY <3>1, <3>2 DEF MonitorTypes
    <3>4. Dated'
      BY <3>1, <3>2 DEF Dated
    <3>5. ToldOnce' /\ Untold' /\ PassedTold'
      BY <3>1, <3>2 DEF ToldOnce, Closing, Untold, PassedTold
    <3>6. DayCounts' /\ PeakKnown'
      BY <3>1, <3>2 DEF DayCounts, PeakKnown
    <3>7. Watched!PauseHolds'
      BY <3>1, <3>2 DEF Watched!PauseHolds, Watched!Below
    <3> QED
      BY <3>3, <3>4, <3>5, <3>6, <3>7 DEF MonitorInv
  <2>2. CASE Watched!Cycle
    <3>0. time \in Nat /\ MaxLate \in Nat
      BY DEF MonitorInv, MonitorTypes, MonitorAssumption
    <3>1. PICK t \in (time + 1)..(time + 1 + MaxLate), e \in Equities, halted \in 0..1 :
             \E closed \in {{}} \union {{x} : x \in time..t} : Watched!Minute(t, e, closed, halted)
      BY <2>2 DEF Watched!Cycle
    <3>2. PICK closed \in {{}} \union {{x} : x \in time..t} : Watched!Minute(t, e, closed, halted)
      BY <3>1
    <3>3. \A x \in closed : x \in time..t
      BY <3>2
    <3>4. t \in Nat /\ time < t
      BY <3>0
    <3> QED
      BY <3>2, <3>3, <3>4, MinuteKeeps
  <2>3. CASE Watched!Restart
    BY <2>3, WatchedRestartKeeps
  <2> QED
    BY <2>1, <2>2, <2>3 DEF Watched!Next
<1>3. MonitorInv => Watched!MonitorHolds
  <2> SUFFICES ASSUME MonitorInv PROVE Watched!SummariesTell /\ Watched!PauseHolds
    BY DEF Watched!MonitorHolds
  <2>1. ToldOnce /\ PassedTold /\ DayCounts /\ Watched!PauseHolds
    BY DEF MonitorInv
  <2> QED
    BY <2>1 DEF ToldOnce, PassedTold, DayCounts, Watched!SummariesTell
<1> QED
  BY <1>1, <1>2, <1>3, PTL DEF Watched!Spec

-----------------------------------------------------------------------------
(* AiTrader.  The argument: the calls that are remembered are the last ones made, and those before them are out of the
   window already; so a question that is asked with fewer remembered than the budget has all of its window among them.
   A question in flight was asked and not yet answered. *)

(* Calls are counted, and the window they are counted in is a length of time. *)
AiAssumption == MaxCalls \in Int /\ Window \in Int

Question == [at : Int, bid : Bids \union {0}, setup : Setups \union {Claude!NoSetup}]
Sent == [track : Tracks, live : BOOLEAN, age : Int, bid : Bids \union {0}, setup : Setups \union {Claude!NoSetup}, answer : Answers]

AiTypes ==
    /\ now \in Int /\ wall \in Int /\ bid \in Bids \union {0}
    /\ asked \in Seq(Int) /\ calls \in Seq(Int)
    /\ IsFiniteSet(DOMAIN asking) /\ DOMAIN asking \subseteq Tracks
    /\ asking \in [DOMAIN asking -> Question]
    /\ sent \in Seq(Sent)

(* Claude's calls that are remembered are the last that were made, and the others are out of the window. *)
AtTheEnd ==
    /\ Len(calls) <= Len(asked)
    /\ \A i \in 1..Len(calls) : calls[i] = asked[(Len(asked) - Len(calls)) + i]
    /\ \A j \in 1..(Len(asked) - Len(calls)) : wall - asked[j] > Window

Fits(x) == x.live /\ x.age <= MaxAge /\ Claude!Passes(x.answer, x.setup, x.bid)
(* What was sent is as the rules want it, and what was asked within the budget. *)
AllFit == \A i \in DOMAIN sent : Fits(sent[i])

Within(i) == {j \in 1..i : asked[i] - asked[j] <= Window}
InBudget == \A i \in DOMAIN asked : Cardinality(Within(i)) <= MaxCalls

(* Each question is answered once at most. *)
AnswersCount == Len(sent) + Cardinality(DOMAIN asking) <= Len(asked)

AiInv == AiTypes /\ AtTheEnd /\ AllFit /\ InBudget /\ AnswersCount

(* The cardinality of the instance is the one of the library. *)
LEMMA SameCardinality == \A S : Claude!Cardinality(S) = Cardinality(S)
  BY DEF Claude!Cardinality, Cardinality

(* What popleft leaves are the last calls, and what it takes is out of the window. *)
LEMMA RecentIs ==
    ASSUME AiAssumption, AiTypes
    PROVE  \E k \in 0..Len(calls) : /\ \A i \in 1..k : wall - calls[i] > Window
                                    /\ Claude!Recent = SubSeq(calls, k + 1, Len(calls))
<1> DEFINE T == {k \in 0..Len(calls) : \A i \in 1..k : wall - calls[i] > Window}
           gone == Claude!Max(T)
<1>1. Len(calls) \in Nat
  BY DEF AiTypes
<1>2. 0 \in T
  BY <1>1
<1>3. PICK m \in T : \A k \in T : k <= m
  <2>1. T \in SUBSET (0..Len(calls)) /\ T # {}
    BY <1>2
  <2> QED
    BY <1>1, <2>1, Greatest
<1>4. \A k \in T : k \in Int
  BY <1>1
<1>5. gone = CHOOSE x \in T : \A y \in T : x >= y
  BY DEF Claude!Max
<1> HIDE DEF T, gone
<1>6. gone \in T
  <2>1. \A y \in T : m >= y
    BY <1>3, <1>4
  <2> QED
    BY <1>5, <2>1, <1>3
<1>7. Claude!Recent = SubSeq(calls, gone + 1, Len(calls))
  BY DEF Claude!Recent, gone, T
<1>8. gone \in 0..Len(calls) /\ \A i \in 1..gone : wall - calls[i] > Window
  BY <1>6 DEF T
<1> QED
  BY <1>7, <1>8

(* A question is asked with fewer than MaxCalls in the window before it. *)
LEMMA AskKeeps ==
    ASSUME AiAssumption, AiInv, NEW t \in Tracks, NEW setup \in Setups \union {Claude!NoSetup}, Claude!Ask(t, setup)
    PROVE  AiInv'
<1>0. AiTypes /\ AtTheEnd /\ AllFit /\ InBudget /\ AnswersCount
  BY DEF AiInv
<1> DEFINE n == Len(asked)
           m == Len(asked) - Len(calls)
           r == Claude!Recent
           q == [at |-> now, bid |-> bid, setup |-> setup]
<1>1. /\ t \notin DOMAIN asking /\ ~(Len(r) >= MaxCalls)
      /\ calls' = Append(r, wall) /\ asked' = Append(asked, wall)
      /\ asking' = [x \in DOMAIN asking \union {t} |-> IF x = t THEN q ELSE asking[x]]
      /\ UNCHANGED <<now, wall, bid, sent>>
  BY DEF Claude!Ask, Claude!Blocked
<1>2. PICK k \in 0..Len(calls) : /\ \A i \in 1..k : wall - calls[i] > Window
                                 /\ r = SubSeq(calls, k + 1, Len(calls))
  BY <1>0, RecentIs
<1>3. /\ wall \in Int /\ asked \in Seq(Int) /\ calls \in Seq(Int) /\ n \in Nat /\ m \in Nat /\ Len(calls) \in Nat /\ m <= n
      /\ MaxCalls \in Int /\ Window \in Int
  BY <1>0 DEF AiTypes, AtTheEnd, AiAssumption
<1> HIDE DEF r
<1>4. r \in Seq(Int) /\ Len(r) = Len(calls) - k /\ \A i \in 1..Len(r) : r[i] = calls[k + i]
  BY <1>2, <1>3
<1>5. /\ asked' \in Seq(Int) /\ Len(asked') = n + 1 /\ asked'[n + 1] = wall
      /\ \A i \in 1..n : asked'[i] = asked[i]
  BY <1>1, <1>3
<1>6. /\ calls' \in Seq(Int) /\ Len(calls') = Len(r) + 1 /\ calls'[Len(r) + 1] = wall
      /\ \A i \in 1..Len(r) : calls'[i] = r[i]
  BY <1>1, <1>3, <1>4
<1>7. \A j \in 1..(m + k) : wall - asked[j] > Window
  <2> SUFFICES ASSUME NEW j \in 1..(m + k) PROVE wall - asked[j] > Window
    OBVIOUS
  <2>1. CASE j \in 1..m
    BY <1>0, <2>1 DEF AtTheEnd
  <2>2. CASE j \notin 1..m
    <3>1. j - m \in 1..k /\ j - m \in 1..Len(calls) /\ m + (j - m) = j
      BY <1>2, <1>3, <2>2
    <3>2. calls[j - m] = asked[j]
      BY <1>0, <3>1 DEF AtTheEnd
    <3> QED
      BY <1>2, <3>1, <3>2
  <2> QED
    BY <2>1, <2>2
<1>8. Len(asked') - Len(calls') = m + k /\ m + k \in Nat /\ m + k <= n /\ (n + 1) - (m + k + 1) + 1 = Len(r) + 1
  <2>1. n = m + Len(calls) /\ k \in Nat /\ k <= Len(calls)
    BY <1>2, <1>3
  <2> HIDE DEF m, n
  <2> QED
    BY <2>1, <1>3, <1>4, <1>5, <1>6
<1>9. AiTypes'
  <2>1. DOMAIN asking' = DOMAIN asking \union {t}
    BY <1>1
  <2>2. IsFiniteSet(DOMAIN asking') /\ DOMAIN asking' \subseteq Tracks
    <3>1. IsFiniteSet(DOMAIN asking) /\ DOMAIN asking \subseteq Tracks
      BY <1>0 DEF AiTypes
    <3>2. IsFiniteSet(DOMAIN asking \union {t})
      BY <3>1, FS_AddElement
    <3> QED
      BY <2>1, <3>1, <3>2
  <2>3. q \in Question
    BY <1>0 DEF AiTypes, Question
  <2>4. asking' \in [DOMAIN asking' -> Question]
    <3>1. \A x \in DOMAIN asking : asking[x] \in Question
      BY <1>0 DEF AiTypes
    <3> HIDE DEF q
    <3> QED
      BY <1>1, <2>1, <2>3, <3>1
  <2> QED
    BY <1>0, <1>1, <1>5, <1>6, <2>2, <2>4 DEF AiTypes
<1>10. AtTheEnd'
  <2>1. Len(calls') <= Len(asked')
    BY <1>2, <1>3, <1>4, <1>5, <1>6
  <2>2. ASSUME NEW i \in 1..Len(calls') PROVE calls'[i] = asked'[(m + k) + i]
    <3>1. CASE i = Len(r) + 1
      <4>1. (m + k) + i = n + 1
        BY <1>2, <1>3, <1>4, <3>1
      <4> QED
        BY <1>5, <1>6, <3>1, <4>1
    <3>2. CASE i \in 1..Len(r)
      <4>1. k + i \in 1..Len(calls) /\ m + (k + i) \in 1..n /\ m + (k + i) = (m + k) + i
        BY <1>2, <1>3, <1>4, <3>2
      <4>2. r[i] = calls[k + i] /\ calls[k + i] = asked[m + (k + i)]
        BY <1>0, <1>4, <3>2, <4>1 DEF AtTheEnd
      <4> QED
        BY <1>5, <1>6, <3>2, <4>1, <4>2
    <3> QED
      BY <1>2, <1>4, <1>6, <3>1, <3>2
  <2>3. ASSUME NEW j \in 1..(m + k) PROVE wall' - asked'[j] > Window
    <3>1. j \in 1..n
      BY <1>2, <1>3
    <3> QED
      BY <1>1, <1>5, <1>7, <3>1
  <2> QED
    BY <1>8, <2>1, <2>2, <2>3 DEF AtTheEnd
<1>11. AllFit'
  BY <1>0, <1>1 DEF AllFit, Fits
<1>12. InBudget'
  <2> SUFFICES ASSUME NEW i \in 1..(n + 1) PROVE Cardinality(Within(i)') <= MaxCalls
    BY <1>5 DEF InBudget
  <2>1. CASE i \in 1..n
    <3>1. Within(i)' = Within(i)
      <4>1. \A j \in 1..i : j \in 1..n
        BY <1>3, <2>1
      <4>2. \A j \in 1..i : asked'[i] - asked'[j] = asked[i] - asked[j]
        BY <1>5, <2>1, <4>1
      <4> QED
        BY <4>2 DEF Within
    <3> QED
      BY <1>0, <1>3, <2>1, <3>1 DEF InBudget
  <2>2. CASE i = n + 1
    <3>1. Within(i)' \subseteq (m + k + 1)..(n + 1)
      <4> SUFFICES ASSUME NEW j \in 1..(n + 1), wall - asked'[j] <= Window PROVE j \in (m + k + 1)..(n + 1)
        BY <1>5, <2>2 DEF Within
      <4>1. CASE j \in 1..(m + k)
        <5>0. j \in 1..n
          BY <1>3, <1>8, <4>1
        <5>1. asked'[j] = asked[j] /\ asked[j] \in Int
          <6>1. asked'[j] = asked[j]
            BY <1>5, <5>0
          <6>2. asked[j] \in Int
            BY <1>3, <5>0
          <6> QED
            BY <6>1, <6>2
        <5>2. wall - asked[j] > Window
          BY <1>7, <4>1
        <5> QED
          BY <1>3, <5>1, <5>2
      <4>2. CASE j \notin 1..(m + k)
        BY <1>2, <1>3, <4>2
      <4> QED
        BY <4>1, <4>2
    <3>2. /\ IsFiniteSet((m + k + 1)..(n + 1))
          /\ Cardinality((m + k + 1)..(n + 1)) = IF m + k + 1 > n + 1 THEN 0 ELSE (n + 1) - (m + k + 1) + 1
      <4>1. m + k + 1 \in Int /\ n + 1 \in Int
        BY <1>2, <1>3
      <4> QED
        BY <4>1, FS_Interval
    <3>3. Cardinality((m + k + 1)..(n + 1)) = Len(r) + 1
      <4>1. ~(m + k + 1 > n + 1)
        BY <1>3, <1>8
      <4> QED
        BY <1>8, <3>2, <4>1, Zenon
    <3>4. Cardinality(Within(i)') <= Len(r) + 1 /\ Cardinality(Within(i)') \in Nat
      BY <3>1, <3>2, <3>3, FS_Subset, FS_CardinalityType
    <3>5. Len(r) + 1 <= MaxCalls /\ Len(r) \in Int
      BY <1>1, <1>3, <1>4
    <3> QED
      BY <1>3, <3>4, <3>5
  <2> QED
    BY <1>3, <2>1, <2>2
<1>13. AnswersCount'
  <2>1. DOMAIN asking' = DOMAIN asking \union {t}
    BY <1>1
  <2>2. Cardinality(DOMAIN asking') = Cardinality(DOMAIN asking) + 1
    BY <1>0, <1>1, <2>1, FS_AddElement DEF AiTypes
  <2>3. Cardinality(DOMAIN asking) \in Nat /\ Len(sent) \in Nat
    BY <1>0, FS_CardinalityType DEF AiTypes
  <2> QED
    BY <1>0, <1>1, <1>3, <1>5, <2>2, <2>3 DEF AnswersCount
<1> QED
  BY <1>9, <1>10, <1>11, <1>12, <1>13 DEF AiInv

(* An answer ends its question, whether it is used or not. *)
LEMMA DoneEnds ==
    ASSUME AiTypes, NEW t \in DOMAIN asking, Claude!Done(t)
    PROVE  /\ DOMAIN asking' = DOMAIN asking \ {t} /\ asking' \in [DOMAIN asking' -> Question]
           /\ IsFiniteSet(DOMAIN asking') /\ DOMAIN asking' \subseteq Tracks
           /\ Cardinality(DOMAIN asking') = Cardinality(DOMAIN asking) - 1 /\ Cardinality(DOMAIN asking) \in Nat
<1>1. asking' = [x \in DOMAIN asking \ {t} |-> asking[x]]
  BY DEF Claude!Done
<1>2. DOMAIN asking' = DOMAIN asking \ {t}
  BY <1>1
<1>3. asking' \in [DOMAIN asking' -> Question]
  <2>1. \A x \in DOMAIN asking : asking[x] \in Question
    BY DEF AiTypes
  <2> QED
    BY <1>1, <1>2, <2>1
<1>4. IsFiniteSet(DOMAIN asking)
  BY DEF AiTypes
<1>5. IsFiniteSet(DOMAIN asking') /\ Cardinality(DOMAIN asking') = Cardinality(DOMAIN asking) - 1
  BY <1>2, <1>4, FS_RemoveElement
<1> QED
  BY <1>2, <1>3, <1>4, <1>5, FS_CardinalityType DEF AiTypes

(* What the questions were does not depend on the answers. *)
LEMMA QuestionsStay ==
    ASSUME AtTheEnd, InBudget, UNCHANGED <<wall, calls, asked>>
    PROVE  AtTheEnd' /\ InBudget'
<1>1. AtTheEnd'
  BY DEF AtTheEnd
<1>2. InBudget'
  BY DEF InBudget, Within
<1> QED
  BY <1>1, <1>2

(* An answer is used as the market and the stage are now. *)
LEMMA TakeKeeps ==
    ASSUME AiInv, NEW t \in Tracks, NEW a \in Answers, Claude!Take(t, a)
    PROVE  AiInv'
<1> DEFINE x == [track |-> t, live |-> t \in trading, age |-> now - asking[t].at, bid |-> bid,
                 setup |-> asking[t].setup, answer |-> a]
<1>0. AiTypes /\ AtTheEnd /\ AllFit /\ InBudget /\ AnswersCount
  BY DEF AiInv
<1>1. /\ t \in DOMAIN asking /\ Claude!Accepts(t, a) /\ sent' = Append(sent, x) /\ Claude!Done(t)
      /\ UNCHANGED <<now, wall, bid, calls, asked>>
  BY DEF Claude!Take
<1>2. /\ DOMAIN asking' = DOMAIN asking \ {t} /\ asking' \in [DOMAIN asking' -> Question]
      /\ IsFiniteSet(DOMAIN asking') /\ DOMAIN asking' \subseteq Tracks
      /\ Cardinality(DOMAIN asking') = Cardinality(DOMAIN asking) - 1 /\ Cardinality(DOMAIN asking) \in Nat
  BY <1>0, <1>1, DoneEnds
<1>3. asking[t] \in Question /\ now \in Int /\ bid \in Bids \union {0} /\ sent \in Seq(Sent)
  BY <1>0, <1>1 DEF AiTypes
<1>4. x.live = (t \in trading) /\ x.age = now - asking[t].at /\ x.bid = bid /\ x.setup = asking[t].setup /\ x.answer = a
  BY Zenon
<1>5. x \in Sent
  <2>1. (t \in trading) \in BOOLEAN
    OBVIOUS
  <2>2. now - asking[t].at \in Int /\ asking[t].setup \in Setups \union {Claude!NoSetup}
    BY <1>3 DEF Question
  <2> QED
    BY <1>3, <2>1, <2>2 DEF Sent
<1>6. Fits(x)
  <2>1. t \in trading /\ now - asking[t].at <= MaxAge /\ Claude!Passes(a, asking[t].setup, bid)
    BY <1>1 DEF Claude!Accepts
  <2> HIDE DEF x
  <2> QED
    BY <1>4, <2>1, Zenon DEF Fits
<1> HIDE DEF x
<1>7. sent' \in Seq(Sent) /\ Len(sent') = Len(sent) + 1 /\ Len(sent) \in Nat /\ sent'[Len(sent) + 1] = x
      /\ \A i \in 1..Len(sent) : sent'[i] = sent[i]
  BY <1>1, <1>3, <1>5
<1>8. AiTypes'
  BY <1>0, <1>1, <1>2, <1>7 DEF AiTypes
<1>9. AtTheEnd' /\ InBudget'
  BY <1>0, <1>1, QuestionsStay
<1>10. AllFit'
  <2>1. \A i \in 1..(Len(sent) + 1) : Fits(sent'[i])
    BY <1>0, <1>3, <1>6, <1>7 DEF AllFit
  <2>2. DOMAIN sent' = 1..(Len(sent) + 1)
    BY <1>7
  <2> QED
    BY <2>1, <2>2 DEF AllFit, Fits
<1>11. AnswersCount'
  BY <1>0, <1>1, <1>2, <1>7 DEF AnswersCount
<1> QED
  BY <1>8, <1>9, <1>10, <1>11 DEF AiInv

(* An answer that is not used leaves nothing. *)
LEMMA PassKeeps == ASSUME AiInv, NEW t \in Tracks, Claude!Pass(t) PROVE AiInv'
<1>0. AiTypes /\ AtTheEnd /\ AllFit /\ InBudget /\ AnswersCount
  BY DEF AiInv
<1>1. t \in DOMAIN asking /\ Claude!Done(t) /\ UNCHANGED <<now, wall, bid, calls, asked, sent>>
  BY DEF Claude!Pass
<1>2. /\ DOMAIN asking' = DOMAIN asking \ {t} /\ asking' \in [DOMAIN asking' -> Question]
      /\ IsFiniteSet(DOMAIN asking') /\ DOMAIN asking' \subseteq Tracks
      /\ Cardinality(DOMAIN asking') = Cardinality(DOMAIN asking) - 1 /\ Cardinality(DOMAIN asking) \in Nat
  BY <1>0, <1>1, DoneEnds
<1>3. AiTypes'
  BY <1>0, <1>1, <1>2 DEF AiTypes
<1>4. AtTheEnd' /\ InBudget'
  BY <1>0, <1>1, QuestionsStay
<1>5. AllFit'
  BY <1>0, <1>1 DEF AllFit, Fits
<1>6. AnswersCount'
  <2>1. Len(sent) \in Nat /\ Len(asked) \in Nat
    BY <1>0 DEF AiTypes
  <2> QED
    BY <1>0, <1>1, <1>2, <2>1 DEF AnswersCount
<1> QED
  BY <1>3, <1>4, <1>5, <1>6 DEF AiInv

(* Time passes, and the market and the hub go on. *)
LEMMA WorldKeeps ==
    ASSUME AiAssumption, AiInv,
           \/ Claude!Tick \/ (\E t \in Tracks : Claude!OnStage(t))
           \/ (\E S \in SUBSET Tracks : Claude!OnAccount(S)) \/ (\E b \in Bids : Claude!OnQuote(b))
    PROVE  AiInv'
<1>0. AiTypes /\ AtTheEnd /\ AllFit /\ InBudget /\ AnswersCount
  BY DEF AiInv
<1>1. UNCHANGED <<asking, calls, asked, sent>>
  BY DEF Claude!Tick, Claude!OnStage, Claude!OnAccount, Claude!OnQuote
<1>2. bid' \in Bids \union {0} /\ now' \in Int /\ wall' \in Int /\ wall <= wall'
  BY <1>0 DEF Claude!Tick, Claude!OnStage, Claude!OnAccount, Claude!OnQuote, AiTypes
<1>3. AiTypes'
  BY <1>0, <1>1, <1>2 DEF AiTypes
<1>4. AtTheEnd'
  <2>1. wall \in Int /\ asked \in Seq(Int) /\ Len(asked) \in Nat /\ Len(calls) \in Nat /\ Window \in Int
    BY <1>0 DEF AiTypes, AiAssumption
  <2>2. ASSUME NEW j \in 1..(Len(asked) - Len(calls)) PROVE wall' - asked[j] > Window
    <3>1. asked[j] \in Int /\ wall - asked[j] > Window
      BY <1>0, <2>1 DEF AtTheEnd
    <3> QED
      BY <1>2, <2>1, <3>1
  <2> QED
    BY <1>0, <1>1, <2>2 DEF AtTheEnd
<1>5. AllFit' /\ InBudget' /\ AnswersCount'
  BY <1>0, <1>1 DEF AllFit, Fits, InBudget, Within, AnswersCount
<1> QED
  BY <1>3, <1>4, <1>5 DEF AiInv

(* Whatever the hub, the market and the account do while Claude thinks: a signal is sent by a track that is trading, no later
   than the age allowed, and keeps the rules of the method at the price it will get; in no window are there more
   questions than the budget; and no answer is used that was not asked for (ai/trader.py; ai/decision.py, check). *)
THEOREM AnswersComeInTime ==
    ASSUME AiAssumption
    PROVE  Claude!Spec => []Claude!AnswersInTime
<1>1. Claude!Init => AiInv
  <2> SUFFICES ASSUME Claude!Init PROVE AiInv
    OBVIOUS
  <2>1. now = 0 /\ wall = 0 /\ bid = 0 /\ asking = <<>> /\ calls = <<>> /\ asked = <<>> /\ sent = <<>>
    BY DEF Claude!Init
  <2>2. DOMAIN asking = {}
    BY <2>1
  <2>3. IsFiniteSet(DOMAIN asking) /\ Cardinality(DOMAIN asking) = 0
    BY <2>2, FS_EmptySet
  <2>4. asking \in [DOMAIN asking -> Question]
    BY <2>1, <2>2
  <2>5. AiTypes
    BY <2>1, <2>2, <2>3, <2>4 DEF AiTypes
  <2>6. AtTheEnd /\ AllFit /\ InBudget
    BY <2>1 DEF AtTheEnd, AllFit, InBudget
  <2>7. AnswersCount
    BY <2>1, <2>3 DEF AnswersCount
  <2> QED
    BY <2>5, <2>6, <2>7 DEF AiInv
<1>2. AiInv /\ [Claude!Next]_(Claude!vars) => AiInv'
  <2> SUFFICES ASSUME AiInv, [Claude!Next]_(Claude!vars) PROVE AiInv'
    OBVIOUS
  <2>1. CASE UNCHANGED Claude!vars
    <3>1. UNCHANGED <<now, wall, bid, asking, calls, asked, sent>>
      BY <2>1 DEF Claude!vars
    <3>2. AiTypes /\ AtTheEnd /\ AllFit /\ InBudget /\ AnswersCount
      BY DEF AiInv
    <3>3. AiTypes'
      BY <3>1, <3>2 DEF AiTypes
    <3>4. AtTheEnd' /\ InBudget'
      BY <3>1, <3>2, QuestionsStay
    <3>5. AllFit' /\ AnswersCount'
      BY <3>1, <3>2 DEF AllFit, Fits, AnswersCount
    <3> QED
      BY <3>3, <3>4, <3>5 DEF AiInv
  <2>2. CASE \E t \in Tracks, setup \in Setups \union {Claude!NoSetup} : Claude!Ask(t, setup)
    BY <2>2, AskKeeps
  <2>3. CASE \E t \in Tracks, a \in Answers : Claude!Take(t, a)
    BY <2>3, TakeKeeps
  <2>4. CASE \E t \in Tracks : Claude!Pass(t)
    BY <2>4, PassKeeps
  <2>5. CASE \/ Claude!Tick \/ (\E t \in Tracks : Claude!OnStage(t))
             \/ (\E S \in SUBSET Tracks : Claude!OnAccount(S)) \/ (\E b \in Bids : Claude!OnQuote(b))
    BY <2>5, WorldKeeps
  <2> QED
    BY <2>1, <2>2, <2>3, <2>4, <2>5 DEF Claude!Next
<1>3. AiInv => Claude!AnswersInTime
  <2> SUFFICES ASSUME AiInv PROVE Claude!AnswersInTime
    OBVIOUS
  <2>1. AllFit /\ InBudget /\ AnswersCount
    BY DEF AiInv
  <2>2. \A i \in DOMAIN sent : /\ sent[i].live /\ sent[i].age <= MaxAge
                               /\ Claude!Passes(sent[i].answer, sent[i].setup, sent[i].bid)
    BY <2>1, Zenon DEF AllFit, Fits
  <2>3. \A i \in DOMAIN asked : Claude!Cardinality({j \in 1..i : asked[i] - asked[j] <= Window}) <= MaxCalls
    BY <2>1, SameCardinality DEF InBudget, Within
  <2>4. Len(sent) + Claude!Cardinality(DOMAIN asking) <= Len(asked)
    BY <2>1, SameCardinality DEF AnswersCount
  <2> QED
    BY <2>2, <2>3, <2>4 DEF Claude!AnswersInTime
<1> QED
  BY <1>1, <1>2, <1>3, PTL DEF Claude!Spec
=============================================================================
