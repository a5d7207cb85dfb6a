------------------------- MODULE HaltControl_proofs -------------------------
(***************************************************************************)
(* Proofs about HaltControl: its invariants and the action property, for   *)
(* every set of equities, tokens, limits and bounds.                       *)
(*                                                                         *)
(* The invariants lean on what the reconciler knows at its own points: the *)
(* episode is open from "enter" to "recheck", no RECON_HALT is left at     *)
(* "settle", and a halt more severe than RECON_HALT during an episode is   *)
(* on record in masked.                                                    *)
(***************************************************************************)
EXTENDS HaltControl, TLAPS

Severe == {"DAILY_HALT", "WEEKLY_HALT", "FULL_HALT"}

(* From the first bad check to the second check the episode is open. *)
EpisodeOpen == recon.pc \in {"enter", "apply", "resync", "recheck"} => episode # "clean"

(* When the episode is about to be forgotten its halt is gone. *)
SettledClear == recon.pc = "settle" => risk.halt # "RECON_HALT"

(* A severe halt during an episode is recorded. *)
SevereIsMasked == episode # "clean" /\ risk.halt \in Severe => masked

(* Past "enter" the gate is halted. *)
EnteredHalted ==
    recon.pc \in {"apply", "resync", "recheck"} /\ ~masked => risk.halt # "NORMAL"

(* Who still has to tell execution. *)
ToldOrTelling == up /\ risk.halt # "NORMAL" => acted \/ unsent \/ recon.pc = "apply"

IInv ==
    /\ TypeOK
    /\ HaltHasEpisode
    /\ EpisodeOpen
    /\ SettledClear
    /\ SevereIsMasked
    /\ EnteredHalted
    /\ StuckStaysHalted
    /\ ToldOrTelling

-----------------------------------------------------------------------------
(* The order of the halts, as numbers. *)
LEMMA SeverityOrder ==
    /\ SEVERITY["NORMAL"] = 0 /\ SEVERITY["RECON_HALT"] = 1 /\ SEVERITY["DAILY_HALT"] = 2
    /\ SEVERITY["WEEKLY_HALT"] = 3 /\ SEVERITY["FULL_HALT"] = 4
  BY DEF SEVERITY

(* An escalation never ends in NORMAL, nor in RECON_HALT unless that is what is entered. *)
LEMMA EscalationUp ==
    ASSUME risk \in RiskState, NEW h \in HaltStates, Escalates(h)
    PROVE  h # "NORMAL" /\ h # risk.halt
  BY SeverityOrder DEF Escalates, RiskState, HaltStates

(* A loss never enters RECON_HALT. *)
LEMMA LossHaltType == \A equity : LossHalt(equity) \in HaltStates \ {"RECON_HALT"}
  BY DEF LossHalt, HaltStates

(* What the gate may load from its state file is a RiskState. *)
LEMMA NewRiskStateType ==
    /\ NewRiskState \in RiskState
    /\ [NewRiskState EXCEPT !.halt = "FULL_HALT"] \in RiskState
    /\ \A e \in OldEquity :
          [NewRiskState EXCEPT !.day_ref = e, !.week_ref = e, !.peak = e] \in RiskState
  BY HaltControlAssumption DEF NewRiskState, RiskState, References, HaltStates, None

(* The inductive invariant holds at the first start. *)
LEMMA InitInv == Init => IInv
<1> SUFFICES ASSUME Init PROVE IInv
  OBVIOUS
<1>1. risk \in RiskState /\ risk.halt = "NORMAL"
  <2>1. CASE risk = NewRiskState
    BY <2>1, NewRiskStateType DEF NewRiskState
  <2>2. ASSUME NEW e \in OldEquity,
               risk = [NewRiskState EXCEPT !.day_ref = e, !.week_ref = e, !.peak = e]
        PROVE  risk \in RiskState /\ risk.halt = "NORMAL"
    BY <2>2, NewRiskStateType DEF NewRiskState
  <2> QED
    BY <2>1, <2>2 DEF Init
<1>2. TypeOK
  <2>1. day \in 0..MaxDays /\ rolled \in 0..NoDay /\ faults \in 0..MaxFaults
        /\ crashes \in 0..MaxCrashes
    <3>1. day = 0 /\ rolled = NoDay /\ faults = 0 /\ crashes = 0
      BY DEF Init
    <3> QED
      BY <3>1, HaltControlAssumption DEF NoDay
  <2>2. account \in References /\ lapsed \in SUBSET Nonces
        /\ recon \in [pc : ReconPoints, report : Reports]
    BY DEF Init, References, Idle, ReconPoints, Reports
  <2>3. /\ up \in BOOLEAN /\ unsent \in BOOLEAN /\ acted \in BOOLEAN /\ evening \in BOOLEAN
        /\ reachable \in BOOLEAN /\ masked \in BOOLEAN
    BY DEF Init
  <2>4. world \in {"match", "explained", "unexplained"}
        /\ episode \in {"clean", "unreachable", "resyncing", "stuck"}
    BY DEF Init
  <2> QED
    BY <1>1, <2>1, <2>2, <2>3, <2>4 DEF TypeOK
<1>3. HaltHasEpisode /\ SettledClear /\ SevereIsMasked /\ ToldOrTelling
  BY <1>1 DEF Init, HaltHasEpisode, SettledClear, SevereIsMasked, ToldOrTelling, Severe
<1>4. EpisodeOpen /\ EnteredHalted /\ StuckStaysHalted
  BY <1>1 DEF Init, EpisodeOpen, EnteredHalted, StuckStaysHalted, Idle
<1> QED
  BY <1>2, <1>3, <1>4 DEF IInv

-----------------------------------------------------------------------------
(* The gate's and the reconciler's writes keep the types. *)
LEMMA ReconHaltType ==
    ASSUME risk \in RiskState
    PROVE  /\ EnterReconHalt => risk' \in RiskState
           /\ ClearReconHalt => risk' \in RiskState
  BY DEF EnterReconHalt, ClearReconHalt, RiskState, HaltStates

(* A rollover leaves a RiskState. *)
LEMMA RollDayType ==
    ASSUME risk \in RiskState, account \in References, RollDay
    PROVE  risk' \in RiskState
<1>1. Released(NewWeek) \in HaltStates
  BY DEF Released, RiskState, HaltStates
<1>2. Highest(risk.peak, account) \in References
  BY DEF Highest, RiskState
<1> QED
  BY <1>1, <1>2 DEF RollDay, RiskState

(* Every step keeps the types. *)
LEMMA TypeNext == TypeOK /\ [Next]_vars => TypeOK'
<1> SUFFICES ASSUME TypeOK, [Next]_vars PROVE TypeOK'
  OBVIOUS
<1> USE DEF TypeOK
<1>1. CASE Start
  BY <1>1 DEF Start, calendarVars, reconVars, worldVars
<1>2. CASE PublishHalt
  BY <1>2 DEF PublishHalt, calendarVars, reconVars, worldVars
<1>3. CASE Rollover
  <2>1. risk' \in RiskState
    BY <1>3, RollDayType DEF Rollover
  <2>2. rolled' \in 0..NoDay
    BY <1>3, HaltControlAssumption DEF Rollover, NoDay
  <2> QED
    BY <1>3, <2>1, <2>2 DEF Rollover, calendarVars, reconVars, worldVars
<1>4. ASSUME NEW equity \in Equity, OnAccount(equity) PROVE TypeOK'
  <2>1. risk' \in RiskState
    BY <1>4, LossHaltType DEF OnAccount, RiskState
  <2>2. account' \in References /\ unsent' \in BOOLEAN /\ acted' \in BOOLEAN
    BY <1>4 DEF OnAccount, References
  <2>3. masked' \in BOOLEAN
    BY <1>4 DEF OnAccount
  <2> QED
    BY <1>4, <2>1, <2>2, <2>3 DEF OnAccount, calendarVars, worldVars
<1>5. ASSUME NEW nonce \in Nonces, Resume(nonce) PROVE TypeOK'
  <2>1. risk' \in RiskState
    BY <1>5 DEF Resume, RiskState, HaltStates
  <2> QED
    BY <1>5, <2>1 DEF Resume, calendarVars, reconVars, worldVars
<1>6. ASSUME NEW nonce \in Nonces, Lapse(nonce) PROVE TypeOK'
  BY <1>6 DEF Lapse, Environment, gateVars, reconVars, worldVars
<1>7. CASE ReconSteps
  <2> USE DEF Quiet, Goto, Rest, Idle, ReconPoints, Reports, worldVars, calendarVars
  <2>1. CASE RunOnce
    BY <2>1 DEF RunOnce
  <2>2. CASE FirstCheck
    BY <2>2, ReconHaltType DEF FirstCheck, Masks, Checked, Episode
  <2>3. CASE EnterHalt
    <3>1. risk' \in RiskState
      BY <2>3, ReconHaltType DEF EnterHalt
    <3>2. recon' \in [pc : ReconPoints, report : Reports]
      BY <2>3 DEF EnterHalt, AfterHalt
    <3>3. acted' \in BOOLEAN
      BY <2>3 DEF EnterHalt
    <3>4. masked' \in BOOLEAN
      BY <2>3 DEF EnterHalt
    <3> QED
      BY <2>3, <3>1, <3>2, <3>3, <3>4 DEF EnterHalt
  <2>4. CASE ApplyHalt
    BY <2>4 DEF ApplyHalt, AfterHalt
  <2>5. CASE Resync
    BY <2>5 DEF Resync
  <2>6. CASE SecondCheck
    BY <2>6, ReconHaltType DEF SecondCheck, Masks, Checked
  <2>7. CASE Settle
    BY <2>7 DEF Settle
  <2> QED
    BY <1>7, <2>1, <2>2, <2>3, <2>4, <2>5, <2>6, <2>7 DEF ReconSteps
<1>8. CASE OwnerSteps
  <2> USE DEF Quiet, Goto, Rest, Idle, ReconPoints, Reports, worldVars, calendarVars
  <2>1. CASE OwnerResync
    BY <2>1 DEF OwnerResync
  <2>2. CASE OwnerCheck
    BY <2>2 DEF OwnerCheck, Checked
  <2>3. CASE OwnerAdopts
    BY <2>3 DEF OwnerAdopts
  <2>4. CASE OwnerRecheck
    BY <2>4, ReconHaltType DEF OwnerRecheck
  <2> QED
    BY <1>8, <2>1, <2>2, <2>3, <2>4 DEF OwnerSteps
<1>9. ASSUME NEW kind \in {"explained", "unexplained"}, Diverge(kind) PROVE TypeOK'
  BY <1>9, HaltControlAssumption DEF Diverge, Environment, gateVars, reconVars, calendarVars
<1>10. CASE Outage
  <2>1. faults' \in 0..MaxFaults
    BY <1>10, HaltControlAssumption DEF Outage
  <2>2. reachable' \in BOOLEAN
    BY <1>10 DEF Outage
  <2> QED
    BY <1>10, <2>1, <2>2 DEF Outage, Environment, gateVars, reconVars, calendarVars
<1>11. CASE Recover
  BY <1>11 DEF Recover, Environment, gateVars, reconVars, calendarVars
<1>12. CASE Clock
  <2>1. day' \in 0..MaxDays
    BY <1>12, HaltControlAssumption DEF Clock
  <2>2. evening' \in BOOLEAN
    BY <1>12 DEF Clock
  <2> QED
    BY <1>12, <2>1, <2>2 DEF Clock, Environment, gateVars, reconVars, worldVars
<1>13. CASE Crash
  <2>1. risk' \in RiskState
    BY <1>13, NewRiskStateType DEF Crash
  <2>2. rolled' \in 0..NoDay /\ crashes' \in 0..MaxCrashes /\ account' \in References
    BY <1>13, HaltControlAssumption DEF Crash, NoDay, References
  <2> QED
    BY <1>13, <2>1, <2>2
    DEF Crash, calendarVars, worldVars, Idle, ReconPoints, Reports
<1>14. CASE UNCHANGED vars
  BY <1>14 DEF vars, gateVars, calendarVars, reconVars, worldVars
<1> QED
  BY <1>1, <1>2, <1>3, <1>4, <1>5, <1>6, <1>7, <1>8, <1>9, <1>10, <1>11, <1>12, <1>13, <1>14
  DEF Next

(* TypeOK: every variable keeps its type. *)
THEOREM TypeCorrect == Spec => []TypeOK
<1>1. Init => TypeOK
  BY InitInv DEF IInv
<1> QED
  BY <1>1, TypeNext, PTL DEF Spec

-----------------------------------------------------------------------------
(* What each operation of the gate does to the halt. *)
LEMMA HaltEffects ==
    ASSUME risk \in RiskState
    PROVE  /\ EnterReconHalt =>
                risk'.halt = IF risk.halt = "NORMAL" THEN "RECON_HALT" ELSE risk.halt
           /\ EnterReconHalt /\ risk.halt # "NORMAL" => risk' = risk
           /\ ClearReconHalt =>
                risk'.halt = IF risk.halt = "RECON_HALT" THEN "NORMAL" ELSE risk.halt
           /\ RollDay => \/ risk'.halt = risk.halt
                         \/ /\ risk.halt \in {"DAILY_HALT", "WEEKLY_HALT"}
                            /\ risk'.halt = "NORMAL"
<1>1. EnterReconHalt =>
        risk'.halt = IF risk.halt = "NORMAL" THEN "RECON_HALT" ELSE risk.halt
  BY SeverityOrder DEF EnterReconHalt, Escalates, RiskState, HaltStates
<1>2. EnterReconHalt /\ risk.halt # "NORMAL" => risk' = risk
  BY SeverityOrder DEF EnterReconHalt, Escalates, RiskState, HaltStates
<1>3. ClearReconHalt =>
        risk'.halt = IF risk.halt = "RECON_HALT" THEN "NORMAL" ELSE risk.halt
  BY DEF ClearReconHalt, RiskState
<1>4. RollDay => \/ risk'.halt = risk.halt
                 \/ /\ risk.halt \in {"DAILY_HALT", "WEEKLY_HALT"}
                    /\ risk'.halt = "NORMAL"
  <2>1. RollDay => risk'.halt = IF risk.halt = "DAILY_HALT" \/ (NewWeek /\ risk.halt = "WEEKLY_HALT")
                                THEN "NORMAL" ELSE risk.halt
    BY SMT DEF RollDay, RiskState, Released
  <2> QED
    BY <2>1, Zenon
<1> QED
  BY <1>1, <1>2, <1>3, <1>4

(* An equity enters a loss halt or changes nothing. *)
LEMMA LossEffect ==
    ASSUME risk \in RiskState, NEW equity \in Equity, OnAccount(equity)
    PROVE  \/ risk' = risk /\ unsent' = unsent /\ acted' = acted
           \/ risk'.halt \in Severe /\ unsent' = TRUE
<1>1. CASE Escalates(LossHalt(equity))
  <2>1. LossHalt(equity) \in Severe
    BY <1>1, LossHaltType, EscalationUp DEF Severe, HaltStates
  <2> QED
    BY <1>1, <2>1 DEF OnAccount, RiskState
<1>2. CASE ~Escalates(LossHalt(equity))
  BY <1>2 DEF OnAccount
<1> QED
  BY <1>1, <1>2

(* Everything but TypeOK, which TypeNext proves. *)
Safe ==
    /\ HaltHasEpisode /\ EpisodeOpen /\ SettledClear /\ SevereIsMasked
    /\ EnteredHalted /\ StuckStaysHalted /\ ToldOrTelling

(* Every step keeps the other conjuncts of the inductive invariant. *)
LEMMA SafeNext == IInv /\ [Next]_vars => Safe'
<1> SUFFICES ASSUME IInv, [Next]_vars PROVE Safe'
  OBVIOUS
<1>0. risk \in RiskState /\ risk' \in RiskState /\ recon \in [pc : ReconPoints, report : Reports]
      /\ episode \in {"clean", "unreachable", "resyncing", "stuck"}
      /\ risk.halt \in HaltStates
  BY TypeNext DEF IInv, TypeOK, RiskState
<1> USE DEF IInv, Safe, HaltHasEpisode, EpisodeOpen, SettledClear, SevereIsMasked, EnteredHalted,
            StuckStaysHalted, ToldOrTelling, Severe
<1>1. CASE Start
  BY <1>1 DEF Start, calendarVars, reconVars, worldVars
<1>2. CASE PublishHalt
  BY <1>2 DEF PublishHalt, calendarVars, reconVars, worldVars
<1>3. CASE Rollover
  <2>1. \/ risk'.halt = risk.halt
        \/ risk.halt \in {"DAILY_HALT", "WEEKLY_HALT"} /\ risk'.halt = "NORMAL"
    BY <1>0, <1>3, HaltEffects DEF Rollover
  <2> QED
    BY <1>3, <2>1 DEF Rollover, reconVars
<1>4. ASSUME NEW equity \in Equity, OnAccount(equity) PROVE Safe'
  <2>1. \/ risk' = risk /\ unsent' = unsent /\ acted' = acted
        \/ risk'.halt \in Severe /\ unsent' = TRUE
    BY <1>0, <1>4, LossEffect
  <2>2. recon.pc \notin {"enter", "settle"} /\ UNCHANGED <<up, episode, recon>>
    BY <1>4 DEF OnAccount, Awake
  <2>3. masked' = (masked \/ (risk'.halt \notin {"NORMAL", "RECON_HALT"} /\ episode # "clean"))
    BY <1>4 DEF OnAccount
  <2> QED
    BY <2>1, <2>2, <2>3
<1>5. ASSUME NEW nonce \in Nonces, Resume(nonce) PROVE Safe'
  <2>1. risk.halt = "FULL_HALT" /\ risk'.halt = "NORMAL"
    BY <1>0, <1>5 DEF Resume, RiskState
  <2> QED
    BY <1>5, <2>1 DEF Resume, reconVars
<1>6. ASSUME NEW nonce \in Nonces, Lapse(nonce) PROVE Safe'
  BY <1>6 DEF Lapse, Environment, gateVars, reconVars
<1>7. CASE ReconSteps
  <2> USE DEF Quiet, Goto, Rest, Idle
  <2>1. CASE RunOnce
    BY <2>1 DEF RunOnce, At
  <2>2. CASE FirstCheck
    <3>1. (masked => masked') /\ (risk.halt \in Severe /\ episode' # "clean" => masked')
      BY <1>0, <2>2, Zenon DEF FirstCheck, Masks, HaltStates
    <3>2. up' = up /\ acted' = acted /\ unsent' = unsent /\ recon.pc = "check"
      BY <2>2 DEF FirstCheck, At
    <3>3. CASE ClearReconHalt /\ Goto("settle", "ok") /\ UNCHANGED episode
      BY <1>0, <3>1, <3>2, <3>3, HaltEffects
    <3>4. CASE UNCHANGED risk /\ Rest /\ UNCHANGED episode
      BY <1>0, <3>1, <3>2, <3>4
    <3>5. CASE Episode = episode' /\ Goto("enter", Checked) /\ UNCHANGED risk
                 /\ episode # "stuck"
      BY <1>0, <3>1, <3>2, <3>5 DEF Episode
    <3> QED
      BY <2>2, <3>3, <3>4, <3>5 DEF FirstCheck
  <2>3. CASE EnterHalt
    <3>1. /\ EnterReconHalt /\ UNCHANGED <<up, unsent, episode>>
          /\ recon.pc = "enter" /\ episode # "clean"
      BY <2>3 DEF EnterHalt, At
    <3>2. masked' => masked
      BY <2>3 DEF EnterHalt
    <3>3. CASE risk.halt = "NORMAL"
      <4>1. risk'.halt = "RECON_HALT"
        BY <1>0, <3>1, <3>3, HaltEffects
      <4>2. recon' = [pc |-> "apply", report |-> recon.report]
        BY <2>3, <3>3, <4>1 DEF EnterHalt
      <4> QED
        BY <3>1, <4>1, <4>2
    <3>4. CASE risk.halt # "NORMAL"
      <4>1. risk' = risk /\ acted' = acted
        BY <1>0, <2>3, <3>1, <3>4, HaltEffects DEF EnterHalt
      <4>2. recon'.pc \in {"idle", "resync"}
        BY <2>3, <4>1 DEF EnterHalt, AfterHalt
      <4>3. masked /\ risk.halt # "RECON_HALT" => masked'
        BY <2>3, <4>1 DEF EnterHalt
      <4> QED
        BY <1>0, <3>1, <3>4, <4>1, <4>2, <4>3
    <3> QED
      BY <3>3, <3>4
  <2>4. CASE ApplyHalt
    <3>1. acted' \/ unsent'
      BY <2>4 DEF ApplyHalt
    <3>2. UNCHANGED <<risk, up, episode, masked>> /\ recon.pc = "apply"
      BY <2>4 DEF ApplyHalt, At
    <3>3. recon'.pc \in {"idle", "resync"}
      BY <2>4 DEF ApplyHalt, AfterHalt
    <3> QED
      BY <3>1, <3>2, <3>3
  <2>5. CASE Resync
    BY <2>5 DEF Resync, At
  <2>6. CASE SecondCheck
    <3>1. (masked => masked') /\ (risk.halt \in Severe /\ episode' # "clean" => masked')
      BY <1>0, <2>6, Zenon DEF SecondCheck, Masks, HaltStates
    <3>2. up' = up /\ acted' = acted /\ unsent' = unsent /\ recon.pc = "recheck"
      BY <2>6 DEF SecondCheck, At
    <3>3. CASE ClearReconHalt /\ Goto("settle", "ok") /\ UNCHANGED episode
      BY <1>0, <3>1, <3>2, <3>3, HaltEffects
    <3>4. CASE episode' \in {"unreachable", "stuck"} /\ Rest /\ UNCHANGED risk
      BY <1>0, <3>1, <3>2, <3>4
    <3> QED
      BY <2>6, <3>3, <3>4 DEF SecondCheck
  <2>7. CASE Settle
    BY <2>7 DEF Settle, At
  <2> QED
    BY <1>7, <2>1, <2>2, <2>3, <2>4, <2>5, <2>6, <2>7 DEF ReconSteps
<1>8. CASE OwnerSteps
  <2> USE DEF Quiet, Goto, Rest, Idle
  <2>1. CASE OwnerResync
    BY <2>1 DEF OwnerResync, At
  <2>2. CASE OwnerCheck
    BY <2>2 DEF OwnerCheck, At
  <2>3. CASE OwnerAdopts
    BY <2>3 DEF OwnerAdopts, At
  <2>4. CASE OwnerRecheck
    BY <1>0, <2>4, HaltEffects DEF OwnerRecheck, At
  <2> QED
    BY <1>8, <2>1, <2>2, <2>3, <2>4 DEF OwnerSteps
<1>9. ASSUME NEW kind \in {"explained", "unexplained"}, Diverge(kind) PROVE Safe'
  BY <1>9 DEF Diverge, Environment, gateVars, reconVars
<1>10. CASE Outage \/ Recover \/ Clock
  BY <1>10 DEF Outage, Recover, Clock, Environment, gateVars, reconVars
<1>11. CASE Crash
  <2>1. risk' = risk \/ risk'.halt = "FULL_HALT"
    BY <1>11 DEF Crash, NewRiskState
  <2> QED
    BY <1>0, <1>11, <2>1 DEF Crash, Idle
<1>12. CASE UNCHANGED vars
  BY <1>12 DEF vars, gateVars, calendarVars, reconVars, worldVars
<1> QED
  BY <1>1, <1>2, <1>3, <1>4, <1>5, <1>6, <1>7, <1>8, <1>9, <1>10, <1>11, <1>12 DEF Next

(* The inductive invariant holds in every state of every behaviour. *)
LEMMA Invariance == Spec => []IInv
<1>1. IInv /\ [Next]_vars => IInv'
  <2> SUFFICES ASSUME IInv, [Next]_vars PROVE IInv'
    OBVIOUS
  <2>1. TypeOK'
    BY TypeNext DEF IInv
  <2>2. Safe'
    BY SafeNext
  <2> QED
    BY <2>1, <2>2 DEF IInv, Safe
<1> QED
  BY InitInv, <1>1, PTL DEF Spec

(* HaltHasEpisode: a RECON_HALT in force always has its episode on disk, since run_once saves
   the episode first and forgets it last. *)
THEOREM ReconHaltIsOnRecord == Spec => []HaltHasEpisode
<1>1. IInv => HaltHasEpisode
  BY DEF IInv
<1> QED
  BY Invariance, <1>1, PTL

(* HaltIsTold: when nothing is in progress execution has been told of the halt in force. *)
THEOREM ExecutionIsTold == Spec => []HaltIsTold
<1>1. IInv => HaltIsTold
  BY DEF IInv, ToldOrTelling, HaltIsTold
<1> QED
  BY Invariance, <1>1, PTL

(* StuckStaysHalted: what a resync could not resolve keeps the gate halted. *)
THEOREM StuckIsHalted == Spec => []StuckStaysHalted
<1>1. IInv => StuckStaysHalted
  BY DEF IInv
<1> QED
  BY Invariance, <1>1, PTL

-----------------------------------------------------------------------------
(* Whatever step changes the halt, one of the ways of MayLeave describes it. *)
LEMMA OrderStep == TypeOK /\ [Next]_vars => (risk'.halt # risk.halt => MayLeave)
<1> SUFFICES ASSUME TypeOK, [Next]_vars, risk'.halt # risk.halt PROVE MayLeave
  OBVIOUS
<1>0. risk \in RiskState /\ risk.halt \in HaltStates
  BY DEF TypeOK, RiskState
<1>1. ASSUME UNCHANGED risk PROVE FALSE
  BY <1>1
<1>2. CASE Rollover
  <2>1. RollDay /\ evening /\ rolled # day
    BY <1>1, <1>2 DEF Rollover
  <2>2. risk'.day_ref = account /\ (NewWeek => risk'.week_ref = account)
    BY <1>0, <2>1 DEF RollDay, RiskState
  <2>3. risk.halt = "DAILY_HALT" \/ (NewWeek /\ risk.halt = "WEEKLY_HALT")
    <3>1. risk'.halt = Released(NewWeek)
      BY <1>0, <2>1 DEF RollDay, RiskState
    <3> QED
      BY <3>1, Zenon DEF Released
  <2> QED
    BY <2>1, <2>2, <2>3 DEF MayLeave
<1>3. ASSUME NEW equity \in Equity, OnAccount(equity) PROVE MayLeave
  <2>1. Escalates(LossHalt(equity)) /\ risk'.halt = LossHalt(equity)
    BY <1>0, <1>1, <1>3 DEF OnAccount, RiskState
  <2> QED
    BY <2>1 DEF MayLeave, Escalates
<1>4. ASSUME NEW nonce \in Nonces, Resume(nonce) PROVE MayLeave
  <2>1. risk'.used = risk.used \union {nonce}
    BY <1>0, <1>4 DEF Resume, RiskState
  <2> QED
    BY <1>4, <2>1 DEF Resume, MayLeave
<1>5. ASSUME ClearReconHalt, recon'.report = "ok", Checked = "ok" PROVE MayLeave
  BY <1>0, <1>5, HaltEffects DEF MayLeave
<1>6. CASE FirstCheck \/ SecondCheck \/ OwnerRecheck
  BY <1>1, <1>5, <1>6 DEF FirstCheck, SecondCheck, OwnerRecheck, Goto
<1>7. CASE EnterHalt
  <2>1. Escalates("RECON_HALT") /\ risk'.halt = "RECON_HALT"
    BY <1>0, <1>7 DEF EnterHalt, EnterReconHalt, RiskState
  <2> QED
    BY <2>1 DEF MayLeave, Escalates
<1>8. CASE Crash
  <2>1. risk'.halt = "FULL_HALT"
    BY <1>1, <1>8 DEF Crash, NewRiskState
  <2>2. SEVERITY[risk'.halt] > SEVERITY[risk.halt]
    BY <1>0, <2>1, SeverityOrder DEF HaltStates
  <2> QED
    BY <2>2 DEF MayLeave
<1>9. CASE Start \/ PublishHalt \/ RunOnce \/ ApplyHalt \/ Resync \/ Settle
  BY <1>1, <1>9 DEF Start, PublishHalt, RunOnce, ApplyHalt, Resync, Settle
<1>10. CASE OwnerResync \/ OwnerCheck \/ OwnerAdopts
  BY <1>1, <1>10 DEF OwnerResync, OwnerCheck, OwnerAdopts
<1>11. ASSUME Environment PROVE FALSE
  BY <1>1, <1>11 DEF Environment, gateVars
<1>12. CASE Outage \/ Recover \/ Clock
  BY <1>11, <1>12 DEF Outage, Recover, Clock
<1>13. ASSUME NEW nonce \in Nonces, Lapse(nonce) PROVE MayLeave
  BY <1>11, <1>13 DEF Lapse
<1>14. ASSUME NEW kind \in {"explained", "unexplained"}, Diverge(kind) PROVE MayLeave
  BY <1>11, <1>14 DEF Diverge
<1>15. CASE UNCHANGED vars
  BY <1>1, <1>15 DEF vars, gateVars
<1> QED
  BY <1>2, <1>3, <1>4, <1>6, <1>7, <1>8, <1>9, <1>10, <1>12, <1>13, <1>14, <1>15
  DEF Next, ReconSteps, OwnerSteps

(* HaltsLeftInOrder: no step leaves a halt but in the way its severity asks for: RECON_HALT
   after a clean check, a loss halt at its rollover, FULL_HALT with a fresh token of the owner. *)
THEOREM HaltOrder == Spec => HaltsLeftInOrder
<1>1. TypeOK /\ [Next]_vars => [risk'.halt # risk.halt => MayLeave]_vars
  BY OrderStep
<1> QED
  BY TypeCorrect, <1>1, PTL DEF Spec, HaltsLeftInOrder
=============================================================================
