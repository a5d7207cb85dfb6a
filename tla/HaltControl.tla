---------------------------- MODULE HaltControl ----------------------------
(***************************************************************************)
(* The halts: what enters one, what clears one, and who is told.           *)
(* RiskGate's halt half and RiskState (risk/gate.py, risk/state.py), the   *)
(* service around it (risk/service.py), the demo scheduler's rollover      *)
(* (cli/demo.py) and the Reconciler (execution/reconcile.py), which enters *)
(* and clears RECON_HALT through the gate in the same process.             *)
(*                                                                         *)
(* Both sides persist: the gate its RiskState on every change, the         *)
(* reconciler its episode in execution's journal.  These are two files,    *)
(* and the process may die between the two writes.                         *)
(***************************************************************************)
EXTENDS Naturals, FiniteSets

CONSTANTS Equity,       \* the account's equity, the levels explored
          OldEquity,    \* the loss references a state file may hold at the first start
          DailyLimit, WeeklyLimit, PeakLimit,    \* loss limits, per cent
          WeekDays,     \* trading days in a week
          MaxDays,      \* bound: days
          Nonces,       \* the owner's resume tokens
          MaxFaults,    \* bound: mismatches, and broker outages
          MaxCrashes    \* bound: crashes

ASSUME HaltControlAssumption ==
    /\ Equity \subseteq Nat \ {0}
    /\ OldEquity \subseteq Equity
    /\ DailyLimit \in Nat \ {0} /\ WeeklyLimit \in Nat \ {0} /\ PeakLimit \in Nat \ {0}
    /\ WeekDays \in Nat \ {0}
    /\ MaxDays \in Nat /\ MaxFaults \in Nat /\ MaxCrashes \in Nat

VARIABLES risk,      \* RiskState, saved by every operation that changes it
          account,   \* RiskGateService.account: the last equity, None after a start
          up,        \* RiskGateService.start has run
          unsent,    \* a halt entered and not yet published
          acted,     \* execution has been told of the halt in force
          day, evening,    \* the calendar: the day, and whether it is past 17:00 New York
          rolled,    \* Scheduler.rollover_day
          lapsed,    \* resume tokens past their expires_at
          world,     \* broker against journal: "match", "explained" or "unexplained" mismatch
          reachable, \* the broker answers
          episode,   \* ExecState.recon_episode, saved when it changes
          recon,     \* where run_once or owner_resync is, and the last report
          masked,    \* history: the open episode may be without its halt, see Masks and Crash
          faults, crashes

gateVars == <<risk, account, up, unsent, acted, rolled>>
calendarVars == <<day, evening, lapsed>>
reconVars == <<episode, recon, masked>>
worldVars == <<world, reachable, faults>>
vars == <<gateVars, calendarVars, reconVars, worldVars, crashes>>

None == 0     \* no equity: before the first rollover or account update
NoDay == MaxDays + 1

HaltStates == {"NORMAL", "RECON_HALT", "DAILY_HALT", "WEEKLY_HALT", "FULL_HALT"}
SEVERITY == [NORMAL |-> 0, RECON_HALT |-> 1, DAILY_HALT |-> 2, WEEKLY_HALT |-> 3, FULL_HALT |-> 4]

Reports == {"none", "ok", "mismatch", "unreachable"}
Idle == [pc |-> "idle", report |-> "none"]
ReconPoints == {"idle", "check", "enter", "apply", "resync", "recheck", "settle",
                "owner_check", "owner_resync", "owner_recheck"}

NewRiskState == [halt |-> "NORMAL", day_ref |-> None, week_ref |-> None, peak |-> None, used |-> {}]

(* The first start, or one with the references of an earlier run. *)
Init ==
    /\ risk \in {NewRiskState} \union
         {[NewRiskState EXCEPT !.day_ref = e, !.week_ref = e, !.peak = e] : e \in OldEquity}
    /\ account = None
    /\ up = FALSE
    /\ unsent = FALSE
    /\ acted = TRUE
    /\ day = 0 /\ evening = FALSE /\ rolled = NoDay
    /\ lapsed = {}
    /\ world = "match" /\ reachable = TRUE
    /\ episode = "clean"
    /\ recon = Idle
    /\ masked = FALSE
    /\ faults = 0 /\ crashes = 0

(* Between "enter" or "settle" and the next await nothing else in the process runs. *)
Awake == up /\ recon.pc \notin {"enter", "settle"}

-----------------------------------------------------------------------------
(* The gate. *)
Loss(ref, equity, limit) == ref # None /\ equity < ref /\ (ref - equity) * 100 >= limit * ref

(* escalate, then save: only ever to a more severe halt. *)
Escalates(new) == SEVERITY[new] > SEVERITY[risk.halt]

LossHalt(equity) ==
    CASE Loss(risk.peak, equity, PeakLimit) -> "FULL_HALT"
      [] Loss(risk.week_ref, equity, WeeklyLimit) -> "WEEKLY_HALT"
      [] Loss(risk.day_ref, equity, DailyLimit) -> "DAILY_HALT"
      [] OTHER -> "NORMAL"

(* Mutant: a halt that survived is not published again. *)
StartQuietly ==
    /\ ~up
    /\ up' = TRUE
    /\ UNCHANGED <<risk, account, unsent, acted, rolled, calendarVars, reconVars, worldVars, crashes>>

(* start: a halt that survived is published again. *)
Start ==
    /\ ~up
    /\ up' = TRUE
    /\ acted' = TRUE
    /\ UNCHANGED <<risk, account, unsent, rolled, calendarVars, reconVars, worldVars, crashes>>

(* _on_account and on_account; the publication is an await of its own. *)
OnAccount(equity) ==
    /\ Awake /\ ~unsent
    /\ account' = equity
    /\ IF Escalates(LossHalt(equity))
       THEN /\ risk' = [risk EXCEPT !.halt = LossHalt(equity)]
            /\ unsent' = TRUE
            /\ acted' = FALSE
       ELSE UNCHANGED <<risk, unsent, acted>>
    /\ masked' = (masked \/ (risk'.halt \notin {"NORMAL", "RECON_HALT"} /\ episode # "clean"))
    /\ UNCHANGED <<up, rolled, calendarVars, episode, recon, worldVars, crashes>>

PublishHalt ==
    /\ Awake /\ unsent
    /\ unsent' = FALSE
    /\ acted' = TRUE
    /\ UNCHANGED <<risk, account, up, rolled, calendarVars, reconVars, worldVars, crashes>>

(* roll_day: new references, and the loss halts whose time is over clear. *)
Highest(a, b) == IF a > b THEN a ELSE b
NewWeek == day % WeekDays = WeekDays - 1

(* Mutants: the halt and its reason are swapped; every halt but FULL_HALT clears. *)
ReleasedSwapped(newWeek) ==
    IF risk.halt = "DAILY_HALT" \/ (newWeek /\ risk.halt = "WEEKLY_HALT") THEN "" ELSE risk.halt
ReleasedAll(newWeek) == IF risk.halt # "FULL_HALT" THEN "NORMAL" ELSE risk.halt

Released(newWeek) ==
    IF risk.halt = "DAILY_HALT" \/ (newWeek /\ risk.halt = "WEEKLY_HALT") THEN "NORMAL" ELSE risk.halt

RollDay ==
    risk' = [risk EXCEPT !.peak = Highest(@, account),
                         !.day_ref = account,
                         !.week_ref = IF NewWeek THEN account ELSE @,
                         !.halt = Released(NewWeek)]

(* Scheduler.minute: once per evening, and the day counts as rolled even when no account
   update has arrived since the start, so that the service did nothing. *)
Rollover ==
    /\ Awake
    /\ evening /\ rolled # day
    /\ rolled' = day
    /\ IF account = None THEN UNCHANGED risk ELSE RollDay
    /\ UNCHANGED <<account, up, unsent, acted, calendarVars, reconVars, worldVars, crashes>>

(* Mutant: a token that was used before is accepted. *)
ResumeReused(nonce) ==
    /\ Awake
    /\ risk.halt = "FULL_HALT"
    /\ nonce \notin lapsed
    /\ risk' = [risk EXCEPT !.halt = "NORMAL", !.used = @ \union {nonce}]
    /\ UNCHANGED <<account, up, unsent, acted, rolled, calendarVars, reconVars, worldVars, crashes>>

(* resume: FULL_HALT clears with a token that is signed by the owner, in time and unused. *)
Resume(nonce) ==
    /\ Awake
    /\ risk.halt = "FULL_HALT"
    /\ nonce \notin risk.used
    /\ nonce \notin lapsed
    /\ risk' = [risk EXCEPT !.halt = "NORMAL", !.used = @ \union {nonce}]
    /\ UNCHANGED <<account, up, unsent, acted, rolled, calendarVars, reconVars, worldVars, crashes>>

(* enter_recon_halt and clear_recon_halt. *)
EnterReconHalt == risk' = [risk EXCEPT !.halt = IF Escalates("RECON_HALT") THEN "RECON_HALT" ELSE @]
ClearReconHalt == risk' = [risk EXCEPT !.halt = IF @ = "RECON_HALT" THEN "NORMAL" ELSE @]

-----------------------------------------------------------------------------
(* The reconciler. *)
Checked ==
    IF ~reachable THEN "unreachable" ELSE IF world = "match" THEN "ok" ELSE "mismatch"

At(pc) == up /\ recon.pc = pc
Goto(pc, report) == recon' = [pc |-> pc, report |-> report]
Rest == recon' = Idle
Quiet == UNCHANGED <<account, up, unsent, rolled, calendarVars, crashes>>

(* A more severe halt hides RECON_HALT: neither entered under it nor still there after it. *)
Masks == masked' = (masked \/ (risk.halt \notin {"NORMAL", "RECON_HALT"} /\ episode' # "clean"))

RunOnce ==
    /\ At("idle")
    /\ Goto("check", recon.report)
    /\ UNCHANGED <<risk, acted, episode, masked, worldVars>> /\ Quiet

(* The episodes whose halt a clean check clears.  Mutant: an interrupted resync is not one. *)
SelfClearingMutant == {"unreachable"}
SelfClearing == {"unreachable", "resyncing"}

(* The episode of a check that is not clean.  Mutant: it stays what it was. *)
EpisodeMutant == episode
Episode == IF Checked = "unreachable" THEN "unreachable" ELSE "resyncing"

(* The first check.  A clean one ends an episode; a stuck one waits for the owner; otherwise
   the episode is saved before the halt is entered. *)
FirstCheck ==
    /\ At("check")
    /\ \/ /\ Checked = "ok"
          /\ IF episode \in SelfClearing
             THEN ClearReconHalt /\ Goto("settle", "ok")
             ELSE UNCHANGED risk /\ Rest
          /\ UNCHANGED episode
       \/ /\ Checked # "ok" /\ episode = "stuck"
          /\ Rest
          /\ UNCHANGED <<risk, episode>>
       \/ /\ Checked # "ok" /\ episode # "stuck"
          /\ episode' = Episode
          /\ Goto("enter", Checked)
          /\ UNCHANGED risk
    /\ Masks
    /\ UNCHANGED <<acted, worldVars>> /\ Quiet

AfterHalt == IF recon.report = "unreachable" THEN Rest ELSE Goto("resync", recon.report)

EnterHalt ==
    /\ At("enter")
    /\ EnterReconHalt
    /\ IF risk' # risk
       THEN acted' = FALSE /\ Goto("apply", recon.report)
       ELSE UNCHANGED acted /\ AfterHalt
    /\ masked' = (masked /\ risk'.halt # "RECON_HALT")
    /\ UNCHANGED <<episode, worldVars>> /\ Quiet

(* _apply hands the halt to the order manager; a halt entered since is told on its own. *)
ApplyHalt ==
    /\ At("apply")
    /\ acted' = (acted \/ ~unsent)
    /\ AfterHalt
    /\ UNCHANGED <<risk, episode, masked, worldVars>> /\ Quiet

(* resync: what the broker's records explain is adopted; a lost call only ends it. *)
Resync ==
    /\ At("resync")
    /\ Goto("recheck", recon.report)
    /\ \/ /\ reachable /\ world = "explained"
          /\ world' = "match"
          /\ UNCHANGED <<reachable, faults>>
       \/ UNCHANGED worldVars
    /\ UNCHANGED <<risk, acted, episode, masked>> /\ Quiet

SecondCheck ==
    /\ At("recheck")
    /\ \/ /\ Checked = "ok"
          /\ ClearReconHalt
          /\ Goto("settle", "ok")
          /\ UNCHANGED episode
       \/ /\ Checked # "ok"
          /\ episode' = IF Checked = "unreachable" THEN "unreachable" ELSE "stuck"
          /\ Rest
          /\ UNCHANGED risk
    /\ Masks
    /\ UNCHANGED <<acted, worldVars>> /\ Quiet

(* The halt is cleared; now the episode is. *)
Settle ==
    /\ At("settle")
    /\ episode' = "clean"
    /\ masked' = FALSE
    /\ Rest
    /\ UNCHANGED <<risk, acted, worldVars>> /\ Quiet

(* owner_resync: check, adopt the broker's state whatever it is, check. *)
OwnerResync ==
    /\ At("idle")
    /\ Goto("owner_check", recon.report)
    /\ UNCHANGED <<risk, acted, episode, masked, worldVars>> /\ Quiet

OwnerCheck ==
    /\ At("owner_check")
    /\ Goto("owner_resync", Checked)
    /\ UNCHANGED <<risk, acted, episode, masked, worldVars>> /\ Quiet

OwnerAdopts ==
    /\ At("owner_resync")
    /\ \/ recon.report = "ok" /\ Goto("owner_recheck", "ok") /\ UNCHANGED world
       \/ /\ recon.report # "ok"
          /\ IF reachable THEN world' = "match" /\ Goto("owner_recheck", recon.report)
                          ELSE UNCHANGED world /\ Rest
    /\ UNCHANGED <<risk, acted, episode, masked, reachable, faults>> /\ Quiet

OwnerRecheck ==
    /\ At("owner_recheck")
    /\ IF Checked = "ok" THEN ClearReconHalt /\ Goto("settle", "ok")
                         ELSE UNCHANGED risk /\ Rest
    /\ UNCHANGED <<acted, episode, masked, worldVars>> /\ Quiet

ReconSteps ==
    \/ RunOnce \/ FirstCheck \/ EnterHalt \/ ApplyHalt \/ Resync \/ SecondCheck \/ Settle
OwnerSteps == OwnerResync \/ OwnerCheck \/ OwnerAdopts \/ OwnerRecheck

-----------------------------------------------------------------------------
(* The world. *)
Environment == UNCHANGED <<gateVars, reconVars, crashes>>

Diverge(kind) ==
    /\ faults < MaxFaults /\ faults' = faults + 1
    /\ world = "match" /\ world' = kind
    /\ UNCHANGED <<reachable, calendarVars>> /\ Environment

Outage ==
    /\ faults < MaxFaults /\ faults' = faults + 1
    /\ reachable /\ reachable' = FALSE
    /\ UNCHANGED <<world, calendarVars>> /\ Environment

(* The broker is back; or a mismatch went away by itself, as one that a late deal explains. *)
Recover ==
    /\ \/ ~reachable /\ reachable' = TRUE /\ UNCHANGED world
       \/ world # "match" /\ world' = "match" /\ UNCHANGED reachable
    /\ UNCHANGED <<faults, calendarVars>> /\ Environment

Clock ==
    /\ \/ ~evening /\ evening' = TRUE /\ UNCHANGED day
       \/ evening /\ day < MaxDays /\ evening' = FALSE /\ day' = day + 1
    /\ UNCHANGED <<lapsed, worldVars>> /\ Environment

Lapse(nonce) ==
    /\ nonce \notin lapsed \union risk.used
    /\ lapsed' = lapsed \union {nonce}
    /\ UNCHANGED <<day, evening, worldVars>> /\ Environment

(* The process dies and starts from its files; one of the gate's that is unreadable loads as
   FULL_HALT. *)
Crash ==
    /\ crashes < MaxCrashes /\ crashes' = crashes + 1
    /\ \/ UNCHANGED risk
       \/ risk' = [NewRiskState EXCEPT !.halt = "FULL_HALT"]
    /\ account' = None /\ up' = FALSE /\ unsent' = FALSE /\ acted' = FALSE
    /\ rolled' = NoDay
    /\ recon' = Idle
    /\ masked' = (masked \/ (risk' # risk /\ episode # "clean")
                         \/ (recon.pc = "settle" /\ episode = "stuck"))
    /\ UNCHANGED <<calendarVars, episode, worldVars>>

Next ==
    \/ Start \/ PublishHalt \/ Rollover
    \/ \E equity \in Equity : OnAccount(equity)
    \/ \E nonce \in Nonces : Resume(nonce) \/ Lapse(nonce)
    \/ ReconSteps \/ OwnerSteps
    \/ \E kind \in {"explained", "unexplained"} : Diverge(kind)
    \/ Outage \/ Recover \/ Clock \/ Crash

Spec == Init /\ [][Next]_vars

(* The process is started again, reconciliation runs every minute, and what is under way ends. *)
Fairness == WF_vars(Start \/ ReconSteps \/ OwnerCheck \/ OwnerAdopts \/ OwnerRecheck)

FairSpec == Spec /\ Fairness

-----------------------------------------------------------------------------
References == Equity \union {None}

RiskState == [halt : HaltStates, day_ref : References, week_ref : References, peak : References,
              used : SUBSET Nonces]

(* Every variable has its type. *)
TypeOK ==
    /\ risk \in RiskState
    /\ account \in References
    /\ up \in BOOLEAN /\ unsent \in BOOLEAN /\ acted \in BOOLEAN
    /\ day \in 0..MaxDays /\ evening \in BOOLEAN /\ rolled \in 0..NoDay
    /\ lapsed \in SUBSET Nonces
    /\ world \in {"match", "explained", "unexplained"} /\ reachable \in BOOLEAN
    /\ episode \in {"clean", "unreachable", "resyncing", "stuck"}
    /\ recon \in [pc : ReconPoints, report : Reports]
    /\ masked \in BOOLEAN
    /\ faults \in 0..MaxFaults /\ crashes \in 0..MaxCrashes

(* run_once saves the episode before it enters the halt and forgets it after it cleared it: a
   RECON_HALT in force always has an open episode on disk, whenever the process dies. *)
HaltHasEpisode == risk.halt = "RECON_HALT" => episode # "clean"

(* A halt is left only in the way its severity asks for: RECON_HALT after a check that found no
   mismatch, DAILY_HALT at a rollover, WEEKLY_HALT at a week's last one, FULL_HALT with a token
   of the owner that was neither used nor expired, or upwards. *)
MayLeave ==
    \/ SEVERITY[risk'.halt] > SEVERITY[risk.halt]
    \/ risk.halt = "RECON_HALT" /\ recon'.report = "ok" /\ Checked = "ok"
    \/ risk.halt = "DAILY_HALT" /\ evening /\ rolled # day /\ risk'.day_ref = account
    \/ risk.halt = "WEEKLY_HALT" /\ evening /\ NewWeek /\ risk'.week_ref = account
    \/ /\ risk.halt = "FULL_HALT"
       /\ \E nonce \in Nonces \ (risk.used \union lapsed) : risk'.used = risk.used \union {nonce}
HaltsLeftInOrder == [][risk'.halt # risk.halt => MayLeave]_vars

(* Once the service has started and nothing is in progress, execution has been told of the
   halt in force, whoever entered it and wherever the process died. *)
HaltIsTold ==
    up /\ ~unsent /\ recon.pc = "idle" /\ risk.halt # "NORMAL" => acted

(* A mismatch that a resync did not resolve keeps the gate halted until the owner's resync ends
   it, unless a more severe halt was in force during the episode, or the process died in the
   owner's resync between the two files. *)
StuckStaysHalted ==
    episode = "stuck" /\ recon.pc # "settle" /\ ~masked => risk.halt # "NORMAL"

(* What reconcile.py says of it: "the halt stays until the owner runs an owner resync". *)
MismatchStaysHalted == episode = "stuck" /\ recon.pc # "settle" => risk.halt # "NORMAL"

(* A RECON_HALT that the owner is not needed for ends once the broker is back and agrees. *)
ReconHaltEnds ==
    (risk.halt = "RECON_HALT" /\ episode # "stuck")
        ~> (risk.halt # "RECON_HALT" \/ episode = "stuck" \/ Checked # "ok")
=============================================================================
