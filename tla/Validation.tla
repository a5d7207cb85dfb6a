------------------------------ MODULE Validation ------------------------------
(***************************************************************************)
(* The validation of a strategy version (validation/runner.py) with its    *)
(* trial registry and the lock on the holdout (validation/store.py), as    *)
(* the command line runs it (cli/main.py): one after the other, any of     *)
(* them ended by a crash.                                                  *)
(*                                                                         *)
(* A backtest's result is what the checks make of it: it passes or not.    *)
(* The ledger is one of module Ledger, append-only and kept over crashes.  *)
(***************************************************************************)
EXTENDS Integers, Sequences, FiniteSets

CONSTANTS Versions, Family,      \* version -> its family
          Epochs,                \* names of holdout epochs
          MaxPerFamily,          \* attempts of a family in an epoch
          Candidates,            \* param sets tried on a window's training data
          MaxWindows,            \* bound: walk-forward windows in the data
          Variants, Pairs, MinPairs,
          MaxRuns, MaxCrashes    \* bounds

VARIABLES ledger,      \* the trials and the attempts, in order
          run,         \* the validation that runs
          reports,     \* the reports written
          seen,        \* history: the evaluations of holdout data
          runs, crashes

vars == <<ledger, run, reports, seen, runs, crashes>>

Nothing == [phase |-> "idle"]

Init ==
    /\ ledger = <<>> /\ run = Nothing /\ reports = {} /\ seen = <<>>
    /\ runs = 0 /\ crashes = 0

Trial(kind) == [kind |-> kind, version |-> run.version, epoch |-> run.epoch, run |-> runs]
Attempt == Trial("attempt")

(* TrialRegistry.trials of a family, and HoldoutLock.attempts: where they are on the ledger. *)
OfFamily(f) == {i \in DOMAIN ledger : ledger[i].kind # "attempt" /\ Family[ledger[i].version] = f}
Attempts == {i \in DOMAIN ledger : ledger[i].kind = "attempt"}
AttemptsOf(v) == {i \in Attempts : ledger[i].version = v}
AttemptsIn(f, e) == {i \in Attempts : Family[ledger[i].version] = f /\ ledger[i].epoch = e}

(* validate, with the windows the data is long enough for. *)
Start(v, e, windows) ==
    /\ run = Nothing /\ runs < MaxRuns
    /\ run' = [phase |-> IF windows = 0 THEN "stability" ELSE "train", version |-> v, epoch |-> e,
               windows |-> windows, left |-> windows, i |-> 1, params |-> 1, stable |-> TRUE, pairs |-> 0,
               counted |-> 0, passed |-> FALSE]
    /\ runs' = runs + 1
    /\ UNCHANGED <<ledger, reports, seen, crashes>>

-----------------------------------------------------------------------------
(* _run: a backtest, recorded before its result is used. *)
Backtest(kind, next) ==
    /\ ledger' = Append(ledger, Trial(kind))
    /\ run' = next
    /\ UNCHANGED <<reports, seen, runs, crashes>>

(* One set of params on a window's training data; the best so far is kept. *)
Train(better) ==
    /\ run.phase = "train"
    /\ LET best == [run EXCEPT !.params = IF better THEN run.i ELSE @] IN
       Backtest("wf_train", IF run.i < Candidates THEN [best EXCEPT !.i = @ + 1]
                            ELSE [best EXCEPT !.phase = "test", !.i = 1])

(* The chosen params on the window's test data, then the next window. *)
Test ==
    /\ run.phase = "test"
    /\ Backtest("wf_test", [run EXCEPT !.left = @ - 1, !.phase = IF run.left > 1 THEN "train" ELSE "stability"])

(* One param moved up or down, on the whole research range. *)
Stability(passes) ==
    /\ run.phase = "stability"
    /\ LET next == [run EXCEPT !.stable = @ /\ passes] IN
       Backtest("stability", IF run.i < Variants THEN [next EXCEPT !.i = @ + 1]
                             ELSE [next EXCEPT !.phase = "cross", !.i = 1])

(* One symbol of the universe on its own. *)
Cross(passes) ==
    /\ run.phase = "cross"
    /\ LET next == [run EXCEPT !.pairs = IF passes THEN @ + 1 ELSE @] IN
       Backtest("cross_market", IF run.i < Pairs THEN [next EXCEPT !.i = @ + 1] ELSE [next EXCEPT !.phase = "checks"])

(* The checks before the holdout, sound being those on the out-of-sample record; the
   deflated Sharpe ratio counts every trial of the family. *)
Checks(sound) ==
    /\ run.phase = "checks"
    /\ sound => run.windows > 0
    /\ LET passes == sound /\ run.stable /\ run.pairs >= MinPairs IN
       run' = [run EXCEPT !.counted = Cardinality(OfFamily(Family[run.version])), !.phase = IF passes THEN "lock" ELSE "report"]
    /\ UNCHANGED <<ledger, reports, seen, runs, crashes>>

-----------------------------------------------------------------------------
(* Mutant: an attempt is used when its backtest is on record. *)
UsedByTrial(v) == \E i \in DOMAIN ledger : ledger[i].kind = "holdout" /\ ledger[i].version = v

(* The version had its attempt, whatever came of it. *)
Used(v) == AttemptsOf(v) # {}

Spent(f, e) == Cardinality(AttemptsIn(f, e)) >= MaxPerFamily

(* HoldoutLock.open refuses. *)
Refused ==
    /\ run.phase = "lock"
    /\ Used(run.version) \/ Spent(Family[run.version], run.epoch)
    /\ run' = [run EXCEPT !.phase = "report"]
    /\ UNCHANGED <<ledger, reports, seen, runs, crashes>>

(* HoldoutLock.open: the attempt is recorded before the holdout is evaluated. *)
Open ==
    /\ run.phase = "lock"
    /\ ~Used(run.version) /\ ~Spent(Family[run.version], run.epoch)
    /\ ledger' = Append(ledger, Attempt)
    /\ run' = [run EXCEPT !.phase = "evaluate"]
    /\ UNCHANGED <<reports, seen, runs, crashes>>

(* The backtest on the holdout's data. *)
Evaluate ==
    /\ run.phase = "evaluate"
    /\ seen' = Append(seen, Trial("holdout"))
    /\ run' = [run EXCEPT !.phase = "holdout"]
    /\ UNCHANGED <<ledger, reports, runs, crashes>>

(* It is recorded, and its result used. *)
Holdout(passes) ==
    /\ run.phase = "holdout"
    /\ Backtest("holdout", [run EXCEPT !.passed = passes, !.phase = "report"])

(* write_json and write_html. *)
Report ==
    /\ run.phase = "report"
    /\ reports' = reports \union
            {[version |-> run.version, epoch |-> run.epoch, run |-> runs, counted |-> run.counted, passed |-> run.passed]}
    /\ run' = Nothing
    /\ UNCHANGED <<ledger, seen, runs, crashes>>

Crash ==
    /\ run # Nothing /\ crashes < MaxCrashes
    /\ run' = Nothing /\ crashes' = crashes + 1
    /\ UNCHANGED <<ledger, reports, seen, runs>>

Next ==
    \/ \E v \in Versions, e \in Epochs, windows \in 0..MaxWindows : Start(v, e, windows)
    \/ \E b \in BOOLEAN : Train(b) \/ Stability(b) \/ Cross(b) \/ Checks(b) \/ Holdout(b)
    \/ Test \/ Refused \/ Open \/ Evaluate \/ Report \/ Crash

Spec == Init /\ [][Next]_vars

-----------------------------------------------------------------------------
Kinds == {"wf_train", "wf_test", "stability", "cross_market", "holdout"}

(* The ledger's records, the run's phase and the reports have their types. *)
ValidationTypeOK ==
    /\ \A i \in DOMAIN ledger : /\ ledger[i].kind \in Kinds \union {"attempt"} /\ ledger[i].run \in 1..runs
                                /\ ledger[i].version \in Versions /\ ledger[i].epoch \in Epochs
    /\ run.phase \in {"idle", "train", "test", "stability", "cross", "checks", "lock", "evaluate", "holdout", "report"}
    /\ \A r \in reports : r.version \in Versions /\ r.run \in 1..runs /\ r.passed \in BOOLEAN
    /\ runs \in 0..MaxRuns /\ crashes \in 0..MaxCrashes

Evaluated(v) == {i \in DOMAIN seen : seen[i].version = v}
OwnTrials(n) == {i \in DOMAIN ledger : ledger[i].run = n /\ ledger[i].kind \in Kinds \ {"holdout"}}

(* A version's holdout is evaluated at most once, after its attempt is on the ledger,
   whatever crashed and was run again; a family has its number of attempts in an epoch;
   and a report passes only on a holdout evaluated in its own run, recorded, with a
   deflated Sharpe ratio that counted every backtest of that run (store.py:46-88,
   runner.py:450-500). *)
HoldoutKept ==
    /\ \A v \in Versions : /\ Cardinality(Evaluated(v)) <= Cardinality(AttemptsOf(v))
                           /\ Cardinality(Evaluated(v)) <= 1
    /\ \A i \in DOMAIN ledger :
           Cardinality(AttemptsIn(Family[ledger[i].version], ledger[i].epoch)) <= MaxPerFamily
    /\ \A r \in {x \in reports : x.passed} :
           /\ \E i \in DOMAIN ledger : ledger[i].kind = "holdout" /\ ledger[i].run = r.run
           /\ \E i \in Evaluated(r.version) : seen[i].run = r.run
           /\ r.counted >= Cardinality(OwnTrials(r.run))
================================================================================
