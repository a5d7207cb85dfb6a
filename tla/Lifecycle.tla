------------------------------ MODULE Lifecycle ------------------------------
(***************************************************************************)
(* The lifecycle of one strategy's versions: the registry with its ledger, *)
(* the evaluator that climbs the promotion ladder, swaps a champion for a  *)
(* challenger, demotes and rolls back, and the service that tells the      *)
(* other services (packages/lifecycle).                                    *)
(*                                                                         *)
(* The registry's state is a replay of its ledger, so the ledger is the    *)
(* state here.  A handler is a job: a list of steps of which each writes   *)
(* one ledger record, queues one order or publishes one message, so that a *)
(* crash or an exception may fall between any two of them.  What trades,   *)
(* signals and fills make of a version is a choice; time counts periods of *)
(* four weeks.                                                             *)
(***************************************************************************)
EXTENDS Naturals, SequencesExt

CONSTANTS Versions,
          Parent,          \* version -> the version it was learned from, or NoVersion
          NoVersion,
          DemoOnly,        \* the versions that only trade on paper
          MinWeeks,        \* shadow exit and swap test: the least time in shadow
          SwapGap,         \* the least time between two swaps
          RollbackWindow,  \* how long after a swap a demotion rolls it back
          LiveWindow, LiveLimit,        \* so many promotions to live in so much time
          RetireWindow, RetireAfter,    \* so many demotions in so much time retire a version
          StartLedgers,    \* the ledgers found at the start
          MaxTime, MaxRecords, MaxCrashes    \* bounds

MONEY_STAGES == {"micro", "live", "scaled"}
Stages == MONEY_STAGES \union {"candidate", "shadow", "demo_only", "retired"}

(* A record of the ledger; the first one of a version comes from no stage. *)
Reasons ==
    {"submitted", "submitted with profile", "ladder", "demoted", "swapped in", "swapped out", "rolled back",
     "restored", "owner"}
Records == [v : Versions, from : Stages \union {"none"}, to : Stages, at : Nat, why : Reasons]

ALLOWED ==
    {<<"candidate", "shadow">>, <<"shadow", "micro">>, <<"micro", "live">>, <<"live", "scaled">>,
     <<"scaled", "live">>, <<"live", "micro">>, <<"micro", "retired">>, <<"micro", "shadow">>,
     <<"shadow", "retired">>, <<"candidate", "retired">>, <<"shadow", "demo_only">>,
     <<"demo_only", "shadow">>, <<"demo_only", "retired">>}
DEMOTIONS ==
    {<<"scaled", "live">>, <<"live", "micro">>, <<"micro", "shadow">>, <<"micro", "retired">>}

ProfiledIn(L, v) == \E i \in DOMAIN L : L[i].v = v /\ L[i].why = "submitted with profile"

(* What a reason may do to a stage. *)
Lawful(from, to, why) ==
    CASE why \in {"submitted", "submitted with profile"} -> from = "none" /\ to = "candidate"
      [] why = "ladder" -> <<from, to>> \in ALLOWED
      [] why = "demoted" -> <<from, to>> \in DEMOTIONS
      [] why = "owner" -> <<from, to>> \in ALLOWED \/ (from \notin {"none", "retired"} /\ to = "retired")
      [] why \in {"swapped in", "restored"} -> from = "shadow" /\ to \in MONEY_STAGES
      [] why = "swapped out" -> from \in MONEY_STAGES /\ to = "shadow"
      [] why = "rolled back" -> from \in MONEY_STAGES \union {"retired"} /\ to = "shadow"

(* A ledger that keeps to the ladder: every record is a legal move of its reason; only a version with
   a profile holds money, and it is not one made for paper; only those and the profiled are tried in
   shadow; and none comes back from retirement but one that was just retired by a demotion, which
   its rollback undoes. *)
Climbed(L) ==
    \A i \in DOMAIN L :
        LET r == L[i] IN
        /\ Lawful(r.from, r.to, r.why)
        /\ {r.from, r.to} \cap MONEY_STAGES # {} => r.v \notin DemoOnly /\ ProfiledIn(L, r.v)
        /\ r.to = "shadow" => r.v \in DemoOnly \/ ProfiledIn(L, r.v)
        /\ r.to = "demo_only" => r.v \in DemoOnly
        /\ r.from = "retired" => i > 1 /\ L[i - 1].v = r.v /\ L[i - 1].why = "demoted"

(* The ledgers of the start are ones the registry may have written, where a version is swapped in for
   a parent that held money.  A learned version is made for paper only if its parent is. *)
ASSUME LifecycleAssumption ==
    /\ Parent \in [Versions -> Versions \union {NoVersion}] /\ NoVersion \notin Versions
    /\ DemoOnly \subseteq Versions
    /\ \A v \in Versions : Parent[v] # v /\ (Parent[v] \in Versions \ DemoOnly => v \notin DemoOnly)
    /\ {MinWeeks, SwapGap, RollbackWindow, LiveWindow, LiveLimit, RetireWindow} \subseteq Nat
    /\ RetireAfter \in Nat \ {0}
    /\ {MaxTime, MaxRecords, MaxCrashes} \subseteq Nat
    /\ \A L \in StartLedgers :
           /\ L \in Seq(Records) /\ Climbed(L)
           /\ \A i \in DOMAIN L :
                 /\ L[i].at = 0
                 /\ L[i].why = "swapped in" =>
                        \E j \in DOMAIN L : L[j].v = Parent[L[i].v] /\ L[j].to \in MONEY_STAGES

VARIABLES ledger,     \* the registry's records
          now, up, crashes,
          job,        \* what the running handler still has to do
          changes,    \* LifecycleService._changes: stage changes not published yet
          orders,     \* BusDemotionActions.queue: demotion orders not published yet
          told,       \* the stages as the readers of STAGES know them
          due, closed, \* history: versions taken out of the money, and those whose close order went out
          kept        \* history: versions last taken out of it by a swap or a rollback, which order nothing

vars == <<ledger, now, up, crashes, job, changes, orders, told, due, closed, kept>>

-----------------------------------------------------------------------------
(* The registry, replayed from its records. *)
Known == {ledger[i].v : i \in DOMAIN ledger}
RecordsOf(v) == {i \in DOMAIN ledger : ledger[i].v = v}
Latest(v) == ledger[CHOOSE i \in RecordsOf(v) : \A j \in RecordsOf(v) : j <= i]
Stage(v) == Latest(v).to
Since(v) == Latest(v).at
Profiled(v) == ProfiledIn(ledger, v)
StageMap == [v \in Known |-> Stage(v)]

(* The versions of some records, in the order of the ledger; versions() is that of their submissions. *)
Listed(S) == [k \in 1..Cardinality(S) |-> ledger[CHOOSE i \in S : Cardinality({j \in S : j <= i}) = k].v]
Submissions == {i \in DOMAIN ledger : ledger[i].from = "none"}
InOrder == Listed(Submissions)

After(at, window) == at + window >= now
Demoted(v) ==
    Cardinality({i \in DOMAIN ledger : /\ ledger[i].v = v /\ After(ledger[i].at, RetireWindow)
                                       /\ <<ledger[i].from, ledger[i].to>> \in DEMOTIONS})
PromotedToLive ==
    Cardinality({i \in DOMAIN ledger : ledger[i].to = "live" /\ After(ledger[i].at, LiveWindow)})

Swaps == {i \in DOMAIN ledger : ledger[i].why = "swapped in"}
LastSwap == ledger[CHOOSE i \in Swaps : \A j \in Swaps : ledger[j].at <= ledger[i].at]

(* transition: whether the registry takes it. *)
Legal(v, to, owner) ==
    /\ \/ <<Stage(v), to>> \in ALLOWED
       \/ to = "retired" /\ owner /\ Stage(v) # "retired"
    /\ v \in DemoOnly /\ Stage(v) = "shadow" => to \in {"retired", "demo_only"}
    /\ to = "demo_only" => v \in DemoOnly /\ owner
    /\ <<Stage(v), to>> = <<"candidate", "shadow">> => Profiled(v) \/ v \in DemoOnly

-----------------------------------------------------------------------------
(* The steps of a handler. *)
Evaluate(v) == [do |-> "evaluate", v |-> v, to |-> "none", why |-> "none"]
Review(v) == [do |-> "review", v |-> v, to |-> "none", why |-> "none"]
Reviews == [do |-> "reviews", v |-> NoVersion, to |-> "none", why |-> "none"]
Record(v, to, why) == [do |-> "record", v |-> v, to |-> to, why |-> why]
Order(v, to) == [do |-> "order", v |-> v, to |-> to, why |-> "none"]
Rollback(v) == [do |-> "rollback", v |-> v, to |-> "none", why |-> "none"]
FlushAll == [do |-> "flush", v |-> NoVersion, to |-> "none", why |-> "none"]
Snapshot == [do |-> "snapshot", v |-> NoVersion, to |-> "none", why |-> "none"]

Then(steps) == job' = steps \o Tail(job)
Raise == job' = <<>>

(* Bound: the evidence that moves a version is there so often. *)
Evidence == Len(ledger) < MaxRecords

(* Mutant: the orders of a demotion come after its rollback. *)
DemotionLate(v, to) ==
    <<Record(v, to, "demoted"), Rollback(v), Order(v, "cancel")>>
    \o IF to \in {"shadow", "retired"} THEN <<Order(v, "close")>> ELSE <<>>

(* _demote, _act and _maybe_rollback, in that order. *)
Demotion(v, to) ==
    IF to \in {"shadow", "retired"}
    THEN <<Record(v, to, "demoted"), Order(v, "cancel"), Order(v, "close"), Rollback(v)>>
    ELSE <<Record(v, to, "demoted"), Order(v, "cancel"), Rollback(v)>>

DemotesTo(v) ==
    CASE Stage(v) = "scaled" -> "live"
      [] Stage(v) = "live" -> "micro"
      [] OTHER -> IF Demoted(v) + 1 >= RetireAfter THEN "retired" ELSE "shadow"

(* evaluate: by the stage, what the evidence may lead to. *)
Outcomes(v) ==
    CASE Stage(v) = "shadow" ->
             IF now < Since(v) + MinWeeks \/ v \in DemoOnly \/ ~Profiled(v) THEN {}
             ELSE {<<Record(v, "micro", "ladder")>>, <<Record(v, "retired", "ladder")>>}
      [] Stage(v) = "micro" ->
             {Demotion(v, DemotesTo(v))}
             \union IF PromotedToLive >= LiveLimit THEN {} ELSE {<<Record(v, "live", "ladder")>>}
      [] Stage(v) = "live" -> {Demotion(v, DemotesTo(v)), <<Record(v, "scaled", "ladder")>>}
      [] Stage(v) = "scaled" -> {Demotion(v, DemotesTo(v))}
      [] OTHER -> {}

DoEvaluate(v) ==
    /\ \/ Then(<<>>)
       \/ Evidence /\ \E steps \in Outcomes(v) : Then(steps)
    /\ UNCHANGED <<ledger, changes, orders, told, due, closed, kept>>

(* review_challengers: each learned version in shadow; swap_test; swap, challenger first. *)
Challengers ==
    Listed({i \in Submissions : Stage(ledger[i].v) = "shadow" /\ Parent[ledger[i].v] # NoVersion})
DoReviews ==
    /\ Then([i \in DOMAIN Challengers |-> Review(Challengers[i])])
    /\ UNCHANGED <<ledger, changes, orders, told, due, closed, kept>>

SwapDue(v) ==
    /\ Parent[v] \in Known /\ Stage(Parent[v]) \in MONEY_STAGES
    /\ now >= Since(v) + MinWeeks
    /\ Swaps # {} => now >= LastSwap.at + SwapGap
DoReview(v) ==
    /\ \/ Then(<<>>)
       \/ /\ Evidence /\ SwapDue(v)
          /\ IF Stage(v) = "shadow"
             THEN Then(<<Record(v, Stage(Parent[v]), "swapped in"), Record(Parent[v], "shadow", "swapped out")>>)
             ELSE Raise
    /\ UNCHANGED <<ledger, changes, orders, told, due, closed, kept>>

TakesOut(record) == record.from \in MONEY_STAGES /\ record.to \notin MONEY_STAGES

(* _record: the ledger, then the service's queue by the callback. *)
DoRecord(s) ==
    LET record == [v |-> s.v, from |-> Stage(s.v), to |-> s.to, at |-> now, why |-> s.why]
    IN  /\ ledger' = Append(ledger, record)
        /\ changes' = Append(changes, record)
        /\ IF TakesOut(record)
           THEN /\ due' = due \union {s.v} /\ closed' = closed \ {s.v}
                /\ kept' = IF s.why = "demoted" THEN kept \ {s.v} ELSE kept \union {s.v}
           ELSE UNCHANGED <<due, closed, kept>>
        /\ Then(<<>>)
        /\ UNCHANGED <<orders, told>>

(* BusDemotionActions: queued. *)
DoOrder(s) ==
    /\ orders' = Append(orders, [v |-> s.v, close |-> s.to = "close"])
    /\ Then(<<>>)
    /\ UNCHANGED <<ledger, changes, told, due, closed, kept>>

(* _maybe_rollback and Registry.rollback: a new champion demoted soon after its swap goes to
   shadow, and the old one gets its stage back; an old one no longer in shadow raises. *)
DoRollback(v) ==
    LET old == Parent[v]
    IN  /\ IF Swaps = {} \/ LastSwap.v # v \/ now > LastSwap.at + RollbackWindow
           THEN Then(<<>>)
           ELSE IF Stage(old) # "shadow"
           THEN Raise
           ELSE IF Stage(v) = "shadow"
           THEN Then(<<Record(old, LastSwap.to, "restored")>>)
           ELSE Then(<<Record(v, "shadow", "rolled back"), Record(old, LastSwap.to, "restored")>>)
        /\ UNCHANGED <<ledger, changes, orders, told, due, closed, kept>>

(* flush: all stage changes, then all orders, one message at a time. *)
DoFlush ==
    /\ CASE changes # <<>> ->
                /\ changes' = Tail(changes)
                /\ told' = [v \in {Head(changes).v} \union DOMAIN told |->
                               IF v = Head(changes).v THEN Head(changes).to ELSE told[v]]
                /\ UNCHANGED <<orders, closed, job>>
         [] changes = <<>> /\ orders # <<>> ->
                /\ orders' = Tail(orders)
                /\ closed' = IF Head(orders).close THEN closed \union {Head(orders).v} ELSE closed
                /\ UNCHANGED <<changes, told, job>>
         [] OTHER -> Then(<<>>) /\ UNCHANGED <<changes, orders, told, closed>>
    /\ UNCHANGED <<ledger, due, kept>>

(* Mutant: the snapshot is not published. *)
DoNoSnapshot == Then(<<>>) /\ UNCHANGED <<ledger, changes, orders, told, due, closed, kept>>

(* publish_snapshot *)
DoSnapshot ==
    /\ told' = StageMap
    /\ Then(<<>>)
    /\ UNCHANGED <<ledger, changes, orders, due, closed, kept>>

Step ==
    /\ job # <<>>
    /\ LET s == Head(job)
       IN  \/ s.do = "evaluate" /\ DoEvaluate(s.v)
           \/ s.do = "reviews" /\ DoReviews
           \/ s.do = "review" /\ DoReview(s.v)
           \/ s.do = "record" /\ DoRecord(s)
           \/ s.do = "order" /\ DoOrder(s)
           \/ s.do = "rollback" /\ DoRollback(s.v)
           \/ s.do = "flush" /\ DoFlush
           \/ s.do = "snapshot" /\ DoSnapshot
    /\ UNCHANGED <<now, up, crashes>>

-----------------------------------------------------------------------------
(* The handlers of the service; they do not overlap. *)
Starts(steps) ==
    /\ up /\ job = <<>> /\ job' = steps
    /\ UNCHANGED <<ledger, now, up, crashes, changes, orders, told, due, closed, kept>>

(* hourly and evaluate_all *)
Hourly ==
    Starts([i \in DOMAIN InOrder |-> Evaluate(InOrder[i])] \o <<Reviews, FlushAll, Snapshot>>)

(* _on_trade *)
OnTrade == \E v \in Known : Starts(<<Evaluate(v), FlushAll>>)

(* The owner's paper-trading switch of the running demo. *)
PaperTrade ==
    \E v \in Known, to \in {"demo_only", "shadow"} :
        /\ Evidence /\ Legal(v, to, TRUE) /\ v \in DemoOnly
        /\ Starts(<<Record(v, to, "owner"), FlushAll>>)

(* The registry's operations outside the service: validation, the owner, building the demo
   (bound: before the first start). *)
Offline(record) ==
    /\ ~up /\ crashes = 0 /\ Evidence
    /\ ledger' = Append(ledger, record)
    /\ UNCHANGED <<now, up, crashes, job, changes, orders, told, due, closed, kept>>

(* submit_candidate and set_profile; a version is submitted once. *)
SubmitCandidate ==
    \E v \in Versions \ Known, why \in {"submitted", "submitted with profile"} :
        Offline([v |-> v, from |-> "none", to |-> "candidate", at |-> now, why |-> why])

(* promote_candidate, retire and paper_trade. *)
Transition ==
    \E v \in Known, to \in Stages :
        LET validated == Stage(v) = "candidate" /\ to \in {"shadow", "retired"}
            owned == to = "retired" \/ (v \in DemoOnly /\ to \in {"demo_only", "shadow"})
        IN  /\ validated \/ owned
            /\ Legal(v, to, owned)
            /\ Offline([v |-> v, from |-> Stage(v), to |-> to, at |-> now, why |-> "owner"])

Crash ==
    /\ up /\ crashes < MaxCrashes
    /\ up' = FALSE /\ crashes' = crashes + 1
    /\ job' = <<>> /\ changes' = <<>> /\ orders' = <<>> /\ due' = {} /\ closed' = {} /\ kept' = {}
    /\ UNCHANGED <<ledger, now, told>>

Start ==
    /\ ~up
    /\ up' = TRUE /\ job' = <<Snapshot>>
    /\ UNCHANGED <<ledger, now, crashes, changes, orders, told, due, closed, kept>>

Tick ==
    /\ job = <<>> /\ now < MaxTime
    /\ now' = now + 1
    /\ UNCHANGED <<ledger, up, crashes, job, changes, orders, told, due, closed, kept>>

Init ==
    /\ ledger \in StartLedgers
    /\ now = 0 /\ up = FALSE /\ crashes = 0
    /\ job = <<>> /\ changes = <<>> /\ orders = <<>>
    /\ told = <<>>
    /\ due = {} /\ closed = {} /\ kept = {}

Next ==
    \/ Step \/ Hourly \/ OnTrade \/ PaperTrade
    \/ SubmitCandidate \/ Transition
    \/ Crash \/ Start \/ Tick

Spec == Init /\ [][Next]_vars

-----------------------------------------------------------------------------
(* Records, stages and queued changes are those of known versions. *)
LifecycleTypeOK ==
    /\ \A i \in DOMAIN ledger :
           ledger[i].v \in Versions /\ ledger[i].to \in Stages /\ ledger[i].from \in Stages \union {"none"}
    /\ now \in 0..MaxTime /\ up \in BOOLEAN /\ crashes \in 0..MaxCrashes
    /\ \A v \in DOMAIN told : told[v] \in Stages
    /\ due \subseteq Versions /\ closed \subseteq due /\ kept \subseteq due

(* A version that a demotion takes out of the money has its positions closed: when the handler is
   through, the close order is queued or was published, whether or not the rollback that follows
   the demotion raised.  Two ways out of the money order nothing and are excepted (kept): a
   champion swapped out, and its challenger rolled back after a demotion that left it money, whose
   positions stay although evaluator.py:4-6 closes those of a version that drops to shadow; and a
   crash, which starts the histories anew, loses the orders that were queued.  And no close order
   goes out before the change that took the version out of the money, which keeps the gate from
   opening more. *)
DemotedIsClosed ==
    /\ job = <<>> => \A v \in due \ (closed \union kept) : Contains(orders, [v |-> v, close |-> TRUE])
    /\ \A v \in closed : \A i \in DOMAIN changes : ~(changes[i].v = v /\ TakesOut(changes[i]))

(* Whatever a crash or an exception lost between a stage's change and its publication: when no
   handler runs and no change is queued, the other services know the stages of the registry
   (service.py, flush and publish_snapshot). *)
StagesTold == up /\ job = <<>> /\ changes = <<>> => told = StageMap

(* The ladder is kept although a handler's records are written one after the other, swaps and
   rollbacks pass by transition's checks, and a crash may keep the second record of two from being
   written (registry.py, transition, swap and rollback). *)
LadderKept == Climbed(ledger)
=============================================================================
