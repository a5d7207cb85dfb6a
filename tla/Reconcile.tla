------------------------------- MODULE Reconcile -------------------------------
(***************************************************************************)
(* What reconciliation compares and what a resync writes (execution/       *)
(* reconcile.py), while the broker's side moves between any two calls.     *)
(*                                                                         *)
(* A check applies the new deals, then reads the account, the positions    *)
(* and the orders, one call each.  A mismatch halts, and one resync reads  *)
(* all of it again with the deals and writes what they explain; the check  *)
(* after it decides whether the halt ends.  When a call fails, nothing has *)
(* been written yet; HaltControl has what follows then.                    *)
(***************************************************************************)
EXTENDS Integers, Sequences, FiniteSetsExt, SequencesExt

CONSTANTS Orders,
          Expired,      \* the orders whose expiry has passed
          Lots,         \* the size of an entry
          MaxEvents     \* bound: what happens at the broker

VARIABLES journal,      \* order -> its TrackedOrder
          broker,       \* order -> what the broker holds of it, and its own id for it
          deals,        \* the broker's deals, and how many of them its query returns
          seen,         \* how many of them sync_deals has applied
          expected,     \* expected_balance, and the broker's balance
          episode, halted,
          job,          \* where a check or a resync is, and what it has read
          trades,       \* history: the orders whose trade was published
          raced,        \* history: orders that a resync wrote while a deal of theirs was not yet applied
          adopted,      \* history: orders that the owner's resync wrote
          quiet,        \* history: nothing happened at the broker since the last check began
          events

vars == <<journal, broker, deals, seen, expected, episode, halted, job, trades, raced, adopted, quiet, events>>

Unknown == [state |-> "none", lots |-> 0, pos |-> FALSE, entry |-> FALSE]
Absent == [rests |-> FALSE, lots |-> 0, stop |-> FALSE]
NotRead == [balance |-> 0, positions |-> [o \in Orders |-> Absent], resting |-> {}]
Idle == [at |-> "idle", owner |-> FALSE, again |-> FALSE, view |-> NotRead, report |-> {}]
Active == {"sending", "pending", "open"}

(* An order is not sent, or the journal that knew it is lost. *)
Init ==
    /\ journal = [o \in Orders |-> Unknown]
    /\ broker \in [Orders -> {Absent, [rests |-> TRUE, lots |-> 0, stop |-> TRUE],
                              [rests |-> FALSE, lots |-> Lots, stop |-> TRUE]}]
    /\ deals = [all |-> <<>>, shown |-> 0] /\ seen = 0
    /\ expected = [journal |-> 0, broker |-> 0]
    /\ episode = "clean" /\ halted = FALSE
    /\ job = Idle
    /\ trades = {} /\ raced = {} /\ adopted = {} /\ quiet = FALSE /\ events = 0

-----------------------------------------------------------------------------
(* The broker's side, between any two calls. *)
Happens == events < MaxEvents /\ events' = events + 1 /\ quiet' = FALSE
Deal(o, entry, lots) == [order |-> o, entry |-> entry, lots |-> lots]

(* A deal is booked, and returned by the query at once or later; a profit moves the balance. *)
Books(d) ==
    /\ \E late \in BOOLEAN :
          deals' = [all |-> Append(deals.all, d), shown |-> IF late THEN deals.shown ELSE Len(deals.all) + 1]
    /\ expected' = [expected EXCEPT !.broker = IF d.entry = "in" THEN @ ELSE @ + d.lots]

Shows ==
    /\ deals.shown < Len(deals.all) /\ quiet' = FALSE
    /\ deals' = [deals EXCEPT !.shown = @ + 1]
    /\ UNCHANGED <<journal, broker, seen, expected, episode, halted, job, trades, raced, adopted, events>>

Others == UNCHANGED <<journal, seen, episode, halted, job, trades, raced, adopted>>

Fills(o) ==
    /\ Happens /\ broker[o].rests
    /\ broker' = [broker EXCEPT ![o] = [rests |-> FALSE, lots |-> Lots, stop |-> TRUE]]
    /\ Books(Deal(o, "in", Lots)) /\ Others

(* The stop, the target, or the owner at the terminal closes all of a position or a part of it. *)
Closes(o, n) ==
    /\ Happens /\ n \in 1..broker[o].lots
    /\ broker' = [broker EXCEPT ![o] = IF n = @.lots THEN Absent ELSE [@ EXCEPT !.lots = @ - n]]
    /\ Books(Deal(o, "out", n)) /\ Others

(* The owner cancels an order or takes a stop away; an order sent in vain comes through late. *)
Meddles(o) ==
    /\ Happens
    /\ \/ broker[o].rests /\ broker' = [broker EXCEPT ![o] = Absent]
       \/ broker[o].lots > 0 /\ broker' = [broker EXCEPT ![o].stop = FALSE]
       \/ /\ journal[o].state \in {"sending", "failed"} /\ broker[o] = Absent
          /\ ~\E i \in DOMAIN deals.all : deals.all[i].order = o
          /\ broker' = [broker EXCEPT ![o].rests = TRUE, ![o].stop = TRUE]
    /\ UNCHANGED <<deals, expected>> /\ Others

(* Money comes or goes, with a deal or without. *)
Pays ==
    /\ Happens
    /\ \/ Books(Deal("none", "balance", 1))
       \/ expected' = [expected EXCEPT !.broker = @ + 1] /\ UNCHANGED deals
    /\ UNCHANGED broker /\ Others

-----------------------------------------------------------------------------
(* execute, with the task of reconciliation at rest: the order is sent, and its answer comes or is lost. *)
Send(o) ==
    /\ job = Idle /\ journal[o] = Unknown /\ broker[o] = Absent /\ deals.all = <<>> /\ ~halted
    /\ quiet' = FALSE
    /\ \E answered, arrives, rests \in BOOLEAN :
          /\ answered => arrives
          /\ broker' = [broker EXCEPT ![o] =
                          CASE ~arrives -> Absent
                            [] rests -> [rests |-> TRUE, lots |-> 0, stop |-> TRUE]
                            [] OTHER -> [rests |-> FALSE, lots |-> Lots, stop |-> TRUE]]
          /\ journal' = [journal EXCEPT ![o] =
                          CASE ~answered -> [Unknown EXCEPT !.state = "sending", !.lots = Lots]
                            [] rests -> [Unknown EXCEPT !.state = "pending", !.lots = Lots]
                            [] OTHER -> [state |-> "open", lots |-> Lots, pos |-> TRUE, entry |-> TRUE]]
          /\ IF arrives /\ ~rests THEN Books(Deal(o, "in", Lots)) ELSE UNCHANGED <<deals, expected>>
    /\ UNCHANGED <<seen, episode, halted, job, trades, raced, adopted, events>>

(* expire_pending takes an order that is gone from the broker for expired. *)
Expire(o) ==
    /\ job = Idle /\ o \in Expired /\ journal[o].state = "pending"
    /\ broker' = [broker EXCEPT ![o] = IF @.rests THEN Absent ELSE @]
    /\ journal' = [journal EXCEPT ![o].state = "expired"]
    /\ UNCHANGED <<deals, seen, expected, episode, halted, job, trades, raced, adopted, quiet, events>>

-----------------------------------------------------------------------------
(* sync_deals: one deal, and all that are new. *)
Applied(s, d) ==
    LET o == d.order
        t == s.journal[o]
    IN  CASE d.entry = "balance" -> [s EXCEPT !.money = @ + d.lots]
          [] d.entry = "in" /\ t.state \in {"pending", "sending"} ->
                [s EXCEPT !.journal[o] = [state |-> "open", lots |-> d.lots, pos |-> TRUE, entry |-> TRUE]]
          [] d.entry = "out" /\ t.state = "open" /\ t.pos ->
                [s EXCEPT !.journal[o] = IF t.lots <= d.lots THEN [t EXCEPT !.state = "closed", !.lots = 0]
                                                             ELSE [t EXCEPT !.lots = @ - d.lots],
                          !.money = @ + d.lots,
                          !.trades = IF t.lots <= d.lots /\ t.entry THEN @ \union {o} ELSE @]
          [] d.entry = "out" -> [s EXCEPT !.money = @ + d.lots]
          [] OTHER -> s

SyncDeals ==
    LET s == FoldLeft(Applied,
                     [journal |-> journal, money |-> expected.journal, trades |-> trades],
                     SubSeq(deals.all, seen + 1, deals.shown))
    IN  /\ journal' = s.journal /\ trades' = s.trades
        /\ expected' = [expected EXCEPT !.journal = s.money]
        /\ seen' = deals.shown
        /\ broker' = [o \in Orders |->        \* confirm_stop
                          IF s.journal[o].state = "open" /\ journal[o].state # "open" /\ broker[o].lots > 0
                          THEN [broker[o] EXCEPT !.stop = TRUE] ELSE broker[o]]

(* check: the new deals, then the account, the positions and the orders. *)
Begins(next) ==
    /\ SyncDeals /\ quiet' = TRUE
    /\ job' = next
    /\ UNCHANGED <<deals, episode, halted, raced, adopted, events>>

RunOnce == job = Idle /\ Begins([Idle EXCEPT !.at = "account"])
OwnerResync == job = Idle /\ episode = "stuck" /\ Begins([Idle EXCEPT !.at = "account", !.owner = TRUE])
CheckAgain == job.at = "again" /\ Begins([job EXCEPT !.at = "account", !.again = TRUE])

Reads ==
    /\ \/ job.at = "account" /\ job' = [job EXCEPT !.at = "positions", !.view.balance = expected.broker]
       \/ job.at = "positions" /\ job' = [job EXCEPT !.at = "orders", !.view.positions = broker]
       \/ job.at = "reread" /\ job' = [job EXCEPT !.at = "reread orders", !.view.positions = broker,
                                                  !.view.balance = expected.broker]
       \/ job.at = "reread orders" /\ job' = [job EXCEPT !.at = "deals",
                                                         !.view.resting = {o \in Orders : broker[o].rests}]
    /\ UNCHANGED <<journal, broker, deals, seen, expected, episode, halted, trades, raced, adopted, quiet, events>>

(* The mismatches of journal and view.  An order that was never answered counts once its grace is
   over: overdue. *)
Position(o) == job.view.positions[o]
Missing(resting, overdue) ==
    {[kind |-> "unconfirmed_send", ref |-> o] : o \in overdue}
    \union {[kind |-> "missing_order", ref |-> o] : o \in {o \in Orders : journal[o].state = "pending" /\ o \notin resting}}
    \union {[kind |-> "missing_position", ref |-> o] :
               o \in {o \in Orders : journal[o].state = "open" /\ Position(o).lots = 0}}
Differing ==
    LET both == {o \in Orders : journal[o].state = "open" /\ Position(o).lots > 0}
    IN  {[kind |-> "lots", ref |-> o] : o \in {o \in both : Position(o).lots # journal[o].lots}}
        \union {[kind |-> "missing_stop", ref |-> o] : o \in {o \in both : ~Position(o).stop}}

(* Mutant: an item counts as tracked when the journal has its client order id. *)
UntrackedByName(resting) ==
    {[kind |-> "untracked_position", ref |-> o] :
        o \in {o \in Orders : Position(o).lots > 0 /\ journal[o] = Unknown}}
    \union {[kind |-> "untracked_order", ref |-> o] : o \in {o \in resting : journal[o] = Unknown}}

(* by_position and by_broker_order look at every order of the journal, whatever its state. *)
Untracked(resting) ==
    {[kind |-> "untracked_position", ref |-> o] : o \in {o \in Orders : Position(o).lots > 0 /\ ~journal[o].pos}}
    \union {[kind |-> "untracked_order", ref |-> o] :
               o \in {o \in resting : journal[o].state \in {"none", "sending", "failed"}}}

Unbalanced ==
    IF job.view.balance # expected.journal THEN {[kind |-> "balance", ref |-> "none"]} ELSE {}

(* run_once and owner_resync, from the last call of a check on.  The halt cancels what rests. *)
Clean == episode' = "clean" /\ halted' = FALSE
Halts ==
    /\ episode' = "resyncing" /\ halted' = TRUE
    /\ IF halted THEN UNCHANGED <<journal, broker>>
       ELSE /\ broker' = [o \in Orders |-> IF broker[o].rests THEN Absent ELSE broker[o]]
            /\ journal' = [o \in Orders |-> IF broker[o].rests /\ journal[o].state = "pending"
                                            THEN [journal[o] EXCEPT !.state = "cancelled"] ELSE journal[o]]

Verdict ==
    /\ job.at = "orders"
    /\ LET resting == {o \in Orders : broker[o].rests}
       IN  \E overdue \in SUBSET {o \in Orders : journal[o].state = "sending"} :
             LET report == Missing(resting, overdue) \union Differing \union Untracked(resting) \union Unbalanced
             IN  CASE job.owner /\ ~job.again ->
                        /\ job' = [job EXCEPT !.at = IF report = {} THEN "again" ELSE "reread", !.report = report]
                        /\ UNCHANGED <<journal, broker, episode, halted>>
                   [] report = {} ->
                        /\ job' = Idle
                        /\ IF job.again \/ episode = "resyncing" THEN Clean ELSE UNCHANGED <<episode, halted>>
                        /\ UNCHANGED <<journal, broker>>
                   [] OTHER ->
                        IF job.again \/ episode = "stuck"
                        THEN /\ job' = Idle /\ episode' = "stuck"
                             /\ UNCHANGED <<journal, broker, halted>>
                        ELSE /\ job' = [job EXCEPT !.at = "reread", !.report = report]
                             /\ Halts
    /\ UNCHANGED <<deals, seen, expected, trades, raced, adopted, quiet, events>>

-----------------------------------------------------------------------------
(* resync: what the broker's records say of each mismatch, or, for the owner, what the broker holds. *)
Returned == {deals.all[i] : i \in 1..deals.shown}
LotsOf(o, entry) ==
    FoldSeq(LAMBDA d, n : IF d.order = o /\ d.entry = entry THEN n + d.lots ELSE n, 0,
            SubSeq(deals.all, 1, deals.shown))
Explained(o) == LotsOf(o, "in") > 0 /\ LotsOf(o, "in") - LotsOf(o, "out") = Position(o).lots

Found(o, t) ==
    CASE Position(o).lots > 0 -> [t EXCEPT !.state = "open", !.pos = TRUE, !.lots = Position(o).lots]
      [] o \in job.view.resting -> [t EXCEPT !.state = "pending"]
      [] t = Unknown -> t
      [] ~\E d \in Returned : d.order = o /\ d.entry = "in" -> [t EXCEPT !.state = "failed"]
      [] job.owner -> [t EXCEPT !.state = "closed"]
      [] OTHER -> t

Resolved(m, t) ==
    LET o == m.ref
    IN  CASE m.kind \in {"unconfirmed_send", "untracked_position", "untracked_order"} ->
               IF t = Unknown /\ ~job.owner THEN t ELSE Found(o, t)
          [] m.kind = "missing_position" ->
               IF LotsOf(o, "out") >= t.lots \/ job.owner THEN [t EXCEPT !.state = "closed", !.lots = 0] ELSE t
          [] m.kind = "missing_order" ->
               CASE LotsOf(o, "in") > 0 -> [t EXCEPT !.state = "open", !.pos = TRUE, !.lots = Lots]
                 [] o \in Expired -> [t EXCEPT !.state = "expired"]
                 [] job.owner -> [t EXCEPT !.state = "cancelled"]
                 [] OTHER -> t
          [] m.kind = "lots" ->
               IF Position(o).lots > 0 /\ (job.owner \/ Explained(o)) THEN [t EXCEPT !.lots = Position(o).lots] ELSE t
          [] OTHER -> t

(* The mismatches one after the other; confirm_stop sets a missing stop again. *)
Resync ==
    LET written == FoldSet(LAMBDA m, j : IF m.ref \in Orders THEN [j EXCEPT ![m.ref] = Resolved(m, @)] ELSE j,
                           journal, job.report)
        unapplied == {deals.all[i].order : i \in (seen + 1)..Len(deals.all)}
    IN  /\ job.at = "deals"
        /\ journal' = written
        /\ broker' = [o \in Orders |-> IF [kind |-> "missing_stop", ref |-> o] \in job.report /\ broker[o].lots > 0
                                       THEN [broker[o] EXCEPT !.stop = TRUE] ELSE broker[o]]
        /\ expected' = IF job.owner THEN [expected EXCEPT !.journal = job.view.balance] ELSE expected
        /\ raced' = raced \union {o \in Orders : written[o] # journal[o] /\ o \in unapplied}
        /\ adopted' = IF job.owner THEN adopted \union {o \in Orders : written[o] # journal[o]} ELSE adopted
        /\ job' = [job EXCEPT !.at = "again"]
        /\ UNCHANGED <<deals, seen, episode, halted, trades, quiet, events>>

-----------------------------------------------------------------------------
Next ==
    \/ RunOnce \/ OwnerResync \/ CheckAgain \/ Reads \/ Verdict \/ Resync
    \/ Shows \/ Pays
    \/ \E o \in Orders : Fills(o) \/ Meddles(o) \/ Send(o) \/ Expire(o) \/ \E n \in 1..Lots : Closes(o, n)

Spec == Init /\ [][Next]_vars

-----------------------------------------------------------------------------
(* The journal's orders and the job have their types, and only deals that were returned are applied. *)
ReconcileTypeOK ==
    /\ \A o \in Orders : /\ journal[o].state \in Active \union {"none", "closed", "failed", "expired", "cancelled"}
                         /\ journal[o].lots \in 0..Lots /\ broker[o].lots \in 0..Lots
                         /\ journal[o].state = "open" => journal[o].pos
    /\ seen \in 0..deals.shown /\ deals.shown \in 0..Len(deals.all)
    /\ episode \in {"clean", "resyncing", "stuck"}

(* The journal says of an order what the broker holds of it. *)
Agrees(o) ==
    /\ journal[o].state = "open" <=> broker[o].lots > 0
    /\ journal[o].state = "open" => journal[o].lots = broker[o].lots /\ broker[o].stop
    /\ journal[o].state = "pending" => broker[o].rests
    /\ broker[o].rests => journal[o].state \in {"pending", "cancelled", "expired"}

(* Whatever was lost, late or done by hand, and whenever during a check it happened: a check that ends
   without a halt, nothing having moved since it began, leaves journal and broker agreed, and
   no closed position without its trade. *)
BooksRepaired ==
    job = Idle /\ quiet /\ episode = "clean" =>
        /\ \A o \in Orders \ raced : journal[o].state # "sending" => Agrees(o)
        /\ raced = {} => expected.journal = expected.broker
        /\ \A o \in Orders \ (raced \union adopted) :
              journal[o].state = "closed" /\ journal[o].entry => o \in trades
=============================================================================
