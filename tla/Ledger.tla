-------------------------------- MODULE Ledger --------------------------------
(***************************************************************************)
(* The hash-chained ledger: the JSON Lines file (core/ledger.py) and the   *)
(* audit table in Postgres (monitor/pg_ledger.py), with several writers.   *)
(*                                                                         *)
(* An append takes the lock, finds the last hash and writes the record     *)
(* that carries it.  A hash is a number of its own for every record.  A    *)
(* crash may leave half a line in the file; Postgres rolls back.           *)
(***************************************************************************)
EXTENDS Integers, Sequences

CONSTANTS Writers,
          Stores,        \* "jsonl", "postgres"
          MaxAppends, MaxCrashes    \* bounds

VARIABLES store,
          file,          \* the lines, in order
          holder,        \* who holds the lock
          prev,          \* writer -> the last hash as its append found it
          tail,          \* writer -> JsonlLedger._tail
          hashes, crashes

vars == <<store, file, holder, prev, tail, hashes, crashes>>

NoOne == "no one"
GENESIS == 0
NotRead == -1
NoTail == [size |-> -1, hash |-> GENESIS]
Torn == [prev |-> NotRead, hash |-> NotRead]

Init ==
    /\ store \in Stores
    /\ file = <<>> /\ holder = NoOne
    /\ prev = [w \in Writers |-> NotRead]
    /\ tail = [w \in Writers |-> NoTail]
    /\ hashes = 0 /\ crashes = 0

(* Mutant: the lock is not exclusive. *)
LockShared(w) ==
    /\ prev[w] = NotRead /\ hashes < MaxAppends
    /\ holder' = w
    /\ UNCHANGED <<store, file, prev, tail, hashes, crashes>>

(* flock, or the advisory lock of the transaction. *)
Lock(w) ==
    /\ holder = NoOne /\ prev[w] = NotRead /\ hashes < MaxAppends
    /\ holder' = w
    /\ UNCHANGED <<store, file, prev, tail, hashes, crashes>>

(* The hash of this writer's last record, unless the file has another size by now. *)
Remembers(w) == store = "jsonl" /\ tail[w].size = Len(file)

(* _last_hash; half a line cannot be read, and the append fails. *)
LastHash(w) ==
    /\ holder = w /\ prev[w] = NotRead
    /\ IF ~Remembers(w) /\ \E i \in DOMAIN file : file[i] = Torn
       THEN holder' = NoOne /\ UNCHANGED prev
       ELSE /\ prev' = [prev EXCEPT ![w] = IF Remembers(w) THEN tail[w].hash
                                           ELSE IF file = <<>> THEN GENESIS ELSE file[Len(file)].hash]
            /\ UNCHANGED holder
    /\ UNCHANGED <<store, file, tail, hashes, crashes>>

(* The record is written, and the lock released. *)
Write(w) ==
    /\ prev[w] # NotRead
    /\ hashes' = hashes + 1
    /\ file' = Append(file, [prev |-> prev[w], hash |-> hashes'])
    /\ tail' = [tail EXCEPT ![w] = [size |-> Len(file'), hash |-> hashes']]
    /\ prev' = [prev EXCEPT ![w] = NotRead]
    /\ holder' = IF holder = w THEN NoOne ELSE holder
    /\ UNCHANGED <<store, crashes>>

(* A writer dies; in the middle of its write it leaves half a line in the file. *)
Crash(w) ==
    /\ crashes < MaxCrashes /\ crashes' = crashes + 1
    /\ \/ UNCHANGED file
       \/ store = "jsonl" /\ prev[w] # NotRead /\ file' = Append(file, Torn)
    /\ holder' = IF holder = w THEN NoOne ELSE holder
    /\ prev' = [prev EXCEPT ![w] = NotRead]
    /\ tail' = [tail EXCEPT ![w] = NoTail]
    /\ UNCHANGED <<store, hashes>>

Next == \E w \in Writers : Lock(w) \/ LastHash(w) \/ Write(w) \/ Crash(w)

Spec == Init /\ [][Next]_vars

-----------------------------------------------------------------------------
(* The lock has one holder at most, and no append found a hash that was never written. *)
LedgerTypeOK ==
    /\ store \in Stores /\ holder \in Writers \union {NoOne}
    /\ \A w \in Writers : prev[w] \in NotRead..MaxAppends /\ tail[w].size \in -1..Len(file)
    /\ hashes \in 0..MaxAppends

(* verify: whoever writes, and whoever dies in the middle of a line, each record carries the hash of
   the one before it; half a line is the last thing in the file, since nothing is written after it. *)
ChainUnbroken ==
    \A i \in DOMAIN file :
        IF file[i] = Torn THEN i = Len(file)
        ELSE file[i].prev = IF i = 1 THEN GENESIS ELSE file[i - 1].hash
=============================================================================
