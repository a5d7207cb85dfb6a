------------------------------- MODULE Reopt -------------------------------
(***************************************************************************)
(* The re-optimization of a strategy (learning/reopt.py and the command    *)
(* `at learn reopt` of cli/main.py): parameters are fit on recent data,    *)
(* one step is taken toward them, and a challenger that passes validation  *)
(* is registered as a version of its own.                                  *)
(*                                                                         *)
(* One tunable parameter, a whole number.  The command reads the strategy  *)
(* from a file, so that the champion it steps from is the file's.  Python  *)
(* rounds halves to the even neighbour.                                    *)
(***************************************************************************)
EXTENDS Integers, SequencesExt, FiniteSetsExt

CONSTANTS Files,        \* the strategy's files: [patch, value]
          Lo, Hi,       \* ParamSpec.min and max of the parameter
          Band, Cap,    \* stability.param_shift and STEP_CAP, in percent
          Scores,       \* what the objective may give, numbers above NoScore
          NoScore,      \* the objective of too few trades
          Budget, MaxRuns   \* parameter sets tried in a run; bound

VARIABLES registry,     \* the registered versions: [patch, value, parent]
          trials,       \* the trials recorded
          steps,        \* history: the steps taken
          failed,       \* history: challengers that did not pass
          runs

vars == <<registry, trials, steps, failed, runs>>

None == Lo - 1

-----------------------------------------------------------------------------
(* fit_recent: the first of the sets tried, the file's own being the first, with the highest objective. *)
Fit(tried, score) ==
    FoldLeft(LAMBDA best, i : IF score[i] > best.score THEN [value |-> tried[i], score |-> score[i]] ELSE best,
             [value |-> tried[1], score |-> NoScore], [i \in DOMAIN tried |-> i]).value

(* _scale, in thousandths: the value itself, or a tenth of the range at 0. *)
Magnitude(c) == IF c < 0 THEN -c ELSE c
Scale(c) == IF c # 0 THEN 1000 * Magnitude(c) ELSE IF Hi > Lo THEN 100 * (Hi - Lo) ELSE 1000

(* The step in hundred-thousandths, at most Cap percent of the scale either way. *)
Unit == 100000
Clamped(c, t) == Max({-Cap * Scale(c), Min({Cap * Scale(c), Unit * (t - c)})})

Rounded(x) ==
    LET down == x \div Unit
        rest == 2 * (x % Unit)
    IN  IF rest < Unit \/ (rest = Unit /\ down % 2 = 0) THEN down ELSE down + 1

(* step_params: the challenger's value, or None in the stability band or when nothing changes. *)
StepParams(c, t) ==
    LET v == Unit * c + Clamped(c, t)
        value == Rounded(Min({Max({v, Unit * Lo}), Unit * Hi}))
    IN  IF Unit * Magnitude(t - c) <= Band * Scale(c) \/ value = c THEN None ELSE value

(* next_version: the next free patch number after the file's. *)
NextPatch(file) == Min({n \in (file.patch + 1)..(file.patch + 1 + Cardinality(registry)) : \A v \in registry : v.patch # n})

-----------------------------------------------------------------------------
Init == registry = {} /\ trials = 0 /\ steps = {} /\ failed = {} /\ runs = 0

(* _learn_reopt: fit, step, validate, submit and promote the challenger. *)
Learn(file, tried, score, passes) ==
    LET target == Fit(tried, score)
        value == StepParams(file.value, target)
        child == [patch |-> NextPatch(file), value |-> value, parent |-> file.patch]
    IN  /\ trials' = trials + Len(tried)
        /\ runs' = runs + 1
        /\ IF value = None THEN UNCHANGED <<registry, steps, failed>>
           ELSE /\ steps' = steps \union {[from |-> file.value, target |-> target, to |-> value]}
                /\ registry' = IF passes THEN registry \union {child} ELSE registry
                /\ failed' = IF passes THEN failed ELSE failed \union {child}

Next ==
    /\ runs < MaxRuns
    /\ \E file \in Files, passes \in BOOLEAN, score \in [1..Budget -> Scores \union {NoScore}] :
       \E others \in [2..Budget -> Lo..Hi] :
            /\ \A i \in DOMAIN others : others[i] # file.value
            /\ Learn(file, [i \in 1..Budget |-> IF i = 1 THEN file.value ELSE others[i]], score, passes)

Spec == Init /\ [][Next]_vars

-----------------------------------------------------------------------------
(* The type invariant. *)
ReoptTypeOK ==
    /\ \A v \in registry \union failed : v.patch \in Nat /\ v.value \in Lo..Hi /\ v.parent \in Nat
    /\ trials \in Nat /\ runs \in 0..MaxRuns
    /\ \A s \in steps : s.from \in Lo..Hi /\ s.target \in Lo..Hi /\ s.to \in Lo..Hi

(* reopt.py: a challenger goes toward the fit and not past it, from outside the band, by at most Cap percent and the
   rounding to a whole number; its number is no registered version's, and later than its parent's; and every set of
   parameters tried is a trial. *)
StepsCapped ==
    /\ \A s \in steps :
          /\ s.to # s.from
          /\ IF s.target > s.from THEN s.to \in s.from..s.target ELSE s.to \in s.target..s.from
          /\ Unit * Magnitude(s.target - s.from) > Band * Scale(s.from)
          /\ 2 * (Unit * Magnitude(s.to - s.from) - Cap * Scale(s.from)) <= Unit
    /\ \A v, w \in registry : v.patch = w.patch => v = w
    /\ \A v \in registry : v.patch > v.parent
    /\ trials = runs * Budget
=============================================================================
