------------------------------ MODULE Watchdog ------------------------------
(***************************************************************************)
(* The watchdog of the execution service (execution/watchdog.py): when a   *)
(* watched service has been silent for too long, the entry orders that     *)
(* rest at the broker are cancelled, once per outage, and again from the   *)
(* start if the broker cannot be reached on the way.                       *)
(*                                                                         *)
(* A pass over the orders awaits the broker for the list and for each      *)
(* cancel, so that orders come and go meanwhile; heartbeats carry the time *)
(* they were sent at and arrive later.                                     *)
(***************************************************************************)
EXTENDS Integers

CONSTANTS Services,     \* watched_services
          Orders, Ours, \* the entry orders, and those with the system's comment
          Timeout,      \* watchdog_timeout_seconds
          None,
          MaxTime, MaxRestarts  \* bounds

VARIABLES now,
          startedAt, lastBeat,  \* started_at and last_beat
          tripped, cancelDone,  \* tripped and _cancel_done
          entries,      \* at the broker: "unsent", "resting" or "gone"
          cancelled,    \* the orders the journal calls cancelled
          passing, todo,        \* whether cancel_pending_entries runs, and the orders it has listed and not yet cancelled
          refused,      \* history: the orders whose cancel the broker refused in the last pass
          late,         \* history: the orders placed since the last pass asked for its list
          restarts

dogVars == <<startedAt, lastBeat, tripped, cancelDone>>
passVars == <<cancelled, passing, todo, refused>>
vars == <<now, dogVars, entries, passVars, late, restarts>>

-----------------------------------------------------------------------------
Init ==
    /\ now = 0
    /\ startedAt = 0 /\ lastBeat = [s \in Services |-> None]
    /\ tripped = {} /\ cancelDone = TRUE
    /\ entries = [o \in Orders |-> "unsent"] /\ cancelled = {}
    /\ passing = FALSE /\ todo = {} /\ refused = {} /\ late = {}
    /\ restarts = 0

Passes == now < MaxTime /\ now' = now + 1 /\ UNCHANGED <<dogVars, entries, passVars, late, restarts>>

(* beat: the heartbeats of a service arrive in the order in which they were sent. *)
Beat(s, at) ==
    /\ lastBeat[s] # None => at > lastBeat[s]
    /\ lastBeat' = [lastBeat EXCEPT ![s] = at]
    /\ UNCHANGED <<now, startedAt, tripped, cancelDone, entries, passVars, late, restarts>>

(* silent *)
Since(s) == IF lastBeat[s] = None THEN startedAt ELSE lastBeat[s]
Silent == {s \in Services : now - Since(s) > Timeout}

Resting == {o \in Orders : entries[o] = "resting"}

(* Whether the pass of this outage is still owed after a check that finds the services in lost. *)
Owed(lost) == lost # {} /\ (~cancelDone \/ lost \ tripped # {})

(* check, up to the list of orders: a service newly lost asks for a pass over the entries, a restored one does not
   take it back while another is lost. *)
Check(reached) ==
    LET lost == Silent IN
    /\ ~passing
    /\ tripped' = lost
    /\ cancelDone' = (cancelDone /\ lost \subseteq tripped)
    /\ IF Owed(lost) /\ reached
         THEN passing' = TRUE /\ todo' = Resting \intersect Ours /\ refused' = {} /\ late' = {}
         ELSE UNCHANGED <<passing, todo, refused, late>>
    /\ UNCHANGED <<now, startedAt, lastBeat, entries, cancelled, restarts>>

(* cancel_pending_entries: one order of the list.  The broker cancels it or refuses; it refuses an order that is gone. *)
Cancel(o) ==
    /\ o \in todo
    /\ todo' = todo \ {o}
    /\ \/ /\ o \in Resting
          /\ entries' = [entries EXCEPT ![o] = "gone"] /\ cancelled' = cancelled \union {o}
          /\ UNCHANGED refused
       \/ refused' = refused \union {o} /\ UNCHANGED <<entries, cancelled>>
    /\ UNCHANGED <<now, dogVars, passing, late, restarts>>

(* The broker cannot be reached: the pass ends, to be repeated by the next check; the cancel may have been applied. *)
Unreachable(o) ==
    /\ o \in todo
    /\ passing' = FALSE /\ todo' = {}
    /\ entries' \in {entries} \union {[entries EXCEPT ![o] = "gone"]}
    /\ UNCHANGED <<now, dogVars, cancelled, refused, late, restarts>>

(* check, its end *)
Done ==
    /\ passing /\ todo = {}
    /\ passing' = FALSE /\ cancelDone' = TRUE
    /\ UNCHANGED <<now, startedAt, lastBeat, tripped, entries, cancelled, todo, refused, late, restarts>>

(* The order manager and the owner place entries; the market fills them, time ends them, the owner cancels them. *)
Place(o) ==
    /\ entries[o] = "unsent"
    /\ entries' = [entries EXCEPT ![o] = "resting"]
    /\ late' = late \union {o}
    /\ UNCHANGED <<now, dogVars, passVars, restarts>>

Leaves(o) ==
    /\ o \in Resting
    /\ entries' = [entries EXCEPT ![o] = "gone"]
    /\ UNCHANGED <<now, dogVars, passVars, late, restarts>>

(* The process dies, in a pass or outside: the journal is read back, of the outage nothing is. *)
Restart ==
    /\ restarts < MaxRestarts
    /\ startedAt' = now /\ lastBeat' = [s \in Services |-> None]
    /\ tripped' = {} /\ cancelDone' = TRUE
    /\ passing' = FALSE /\ todo' = {}
    /\ \E kept \in SUBSET cancelled : cancelled' = kept
    /\ restarts' = restarts + 1
    /\ UNCHANGED <<now, entries, refused, late>>

Next ==
    \/ Passes \/ Done \/ Restart
    \/ \E b \in BOOLEAN : Check(b)
    \/ \E s \in Services, at \in 0..now : Beat(s, at)
    \/ \E o \in Orders : Cancel(o) \/ Unreachable(o) \/ Place(o) \/ Leaves(o)

Spec == Init /\ [][Next]_vars

-----------------------------------------------------------------------------
(* The type invariant. *)
WatchdogTypeOK ==
    /\ now \in 0..MaxTime /\ startedAt \in 0..now /\ restarts \in 0..MaxRestarts
    /\ lastBeat \in [Services -> {None} \union 0..now]
    /\ tripped \subseteq Services /\ cancelDone \in BOOLEAN
    /\ entries \in [Orders -> {"unsent", "resting", "gone"}]
    /\ passing \in BOOLEAN /\ todo \subseteq Ours
    /\ refused \subseteq Orders /\ cancelled \subseteq Orders /\ late \subseteq Orders

(* watchdog.py:3-7: when a service is lost every entry the system had resting is cancelled: while it is lost and no pass
   is owed, what rests was placed after the last pass asked for the list, or the broker refused to cancel it in that
   pass, however often the pass broke off, and whichever other service was lost or restored meanwhile.  The journal
   calls no order cancelled that rests, and nobody else's order was cancelled. *)
OutageCancels ==
    /\ tripped # {} /\ cancelDone => Resting \intersect Ours \subseteq refused \union late
    /\ cancelled \intersect Resting = {}
    /\ cancelled \subseteq Ours
=============================================================================
