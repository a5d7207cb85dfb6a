------------------------------ MODULE Calendar ------------------------------
(***************************************************************************)
(* The economic calendar that the news blackout goes by                    *)
(* (data/calendar.py, ForexFactoryCalendar): a weekly export fetched at    *)
(* most once in an interval, cached in a file, and used as long as it is   *)
(* fresh.                                                                  *)
(*                                                                         *)
(* The export is the number of the week it was made in.  A process may die *)
(* between taking a new export into memory and writing it to the file, and *)
(* a write may fail.                                                       *)
(***************************************************************************)
EXTENDS Integers

CONSTANTS MaxAge, MinInterval,  \* max_age and min_interval
          Week,         \* time in a week
          None,
          MaxTime, MaxRestarts  \* bounds

VARIABLES now,
          fetchedAt, export,    \* fetched_at, and the rows and events
          lastTry,      \* _last_try
          cache,        \* the file: [at, export]
          writing,      \* whether refresh still has to write the file
          dead,         \* refresh raised: the task that calls it has ended
          fetches,      \* history: when the site was asked in this run
          restarts

vars == <<now, fetchedAt, export, lastTry, cache, writing, dead, fetches, restarts>>

(* A file that is broken is a missing one. *)
Missing == [at |-> None, export |-> None]

-----------------------------------------------------------------------------
Init ==
    /\ now = 0
    /\ fetchedAt = None /\ export = None /\ lastTry = None
    /\ cache = Missing /\ writing = FALSE
    /\ dead = FALSE /\ fetches = {} /\ restarts = 0

Passes == now < MaxTime /\ now' = now + 1 /\ UNCHANGED <<fetchedAt, export, lastTry, cache, writing, dead, fetches, restarts>>

(* refresh, up to the file: an export that does not come, or does not parse, changes nothing. *)
Refresh(comes) ==
    /\ ~writing /\ ~dead
    /\ lastTry # None => now - lastTry >= MinInterval
    /\ lastTry' = now
    /\ fetches' = fetches \union {now}
    /\ IF comes THEN fetchedAt' = now /\ export' = now \div Week /\ writing' = TRUE
                ELSE UNCHANGED <<fetchedAt, export, writing>>
    /\ UNCHANGED <<now, cache, dead, restarts>>

(* refresh, the file: written beside and moved over the old one; an error is not caught. *)
Write(ok) ==
    /\ writing
    /\ writing' = FALSE
    /\ IF ok THEN cache' = [at |-> fetchedAt, export |-> export] /\ UNCHANGED dead
             ELSE dead' = TRUE /\ UNCHANGED cache
    /\ UNCHANGED <<now, fetchedAt, export, lastTry, fetches, restarts>>

(* __init__ after a restart. *)
Restart ==
    /\ restarts < MaxRestarts
    /\ fetchedAt' = cache.at /\ export' = cache.export
    /\ lastTry' = None /\ writing' = FALSE /\ dead' = FALSE /\ fetches' = {}
    /\ restarts' = restarts + 1
    /\ UNCHANGED <<now, cache>>

Next == Passes \/ Restart \/ (\E b \in BOOLEAN : Refresh(b) \/ Write(b))

Spec == Init /\ [][Next]_vars

(* fresh: whether the calendar may be traded on. *)
Fresh == fetchedAt # None /\ now - fetchedAt <= MaxAge

-----------------------------------------------------------------------------
(* The type invariant. *)
CalendarTypeOK ==
    /\ now \in 0..MaxTime /\ restarts \in 0..MaxRestarts
    /\ fetchedAt \in {None} \union 0..now /\ lastTry \in {None} \union 0..now
    /\ writing \in BOOLEAN /\ dead \in BOOLEAN /\ fetches \subseteq 0..now

(* calendar.py: a calendar that is fresh holds the export of when it was fetched, so that it is never older than it says,
   whatever failed and whatever was read back from the file; the file is never newer than memory, and no run asks the
   site twice in an interval. *)
CalendarHonest ==
    /\ fetchedAt # None => export = fetchedAt \div Week
    /\ cache # Missing => cache.export = cache.at \div Week /\ fetchedAt # None /\ cache.at <= fetchedAt
    /\ \A a, b \in fetches : a < b => b - a >= MinInterval
    /\ Fresh => now - MaxAge <= fetchedAt /\ (export = now \div Week \/ (now - MaxAge) \div Week <= export)
=============================================================================
