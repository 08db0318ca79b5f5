------------------------------ MODULE Rewards ------------------------------
(***************************************************************************)
(* The rubrics of horizon-core: the terminal reward of a trajectory, in     *)
(* exact arithmetic (the code computes with f64).                           *)
(*                                                                          *)
(* Of a step only what a signal looks at is kept: its actor, the tool of    *)
(* the action or of the observation, the exit code of a test run, and the   *)
(* success criteria its text contains.                                      *)
(***************************************************************************)
EXTENDS Integers, Sequences, FiniteSets

Signals == {"step_count", "error_penalty", "success_criteria", "finish", "tests_pass"}

\* The registry: the weight of each signal in tenths, 0 if it is not used.
Rubrics == {"heuristic-v1", "coding-v1", "strict-finish-v1"}

Weight(rubric) ==
  CASE rubric = "heuristic-v1" ->
         [step_count |-> 3, error_penalty |-> 10, success_criteria |-> 7,
          finish |-> 3, tests_pass |-> 0]
    [] rubric = "coding-v1" ->
         [step_count |-> 0, error_penalty |-> 10, success_criteria |-> 7,
          finish |-> 3, tests_pass |-> 8]
    [] rubric = "strict-finish-v1" ->
         [step_count |-> 0, error_penalty |-> 10, success_criteria |-> 5,
          finish |-> 15, tests_pass |-> 0]

AtLeastOne(n) == IF n > 1 THEN n ELSE 1

\* Every signal is a multiple of 1/Unit.
Unit(task) ==
  AtLeastOne(2 * task.horizon) * AtLeastOne(Cardinality(task.criteria))

\* The last of some steps, 0 if there is none.
LastOf(found) == IF found = {} THEN 0 ELSE CHOOSE i \in found : \A j \in found : j <= i

\* SignalKind::StepCount: steps against two per turn, at most 1.
StepCount(task, steps) ==
  LET full == AtLeastOne(2 * task.horizon)
  IN  (IF Len(steps) < full THEN Len(steps) ELSE full) * (Unit(task) \div full)

ErrorPenalty(task, errors) == IF errors = 0 THEN 0 ELSE -Unit(task)

Matched(task, steps) ==
  {c \in task.criteria : \E i \in DOMAIN steps : c \in steps[i].says}

SuccessCriteria(task, steps) ==
  IF task.criteria = {} THEN 0
  ELSE Cardinality(Matched(task, steps)) * (Unit(task) \div Cardinality(task.criteria))

\* Only the last action of the policy counts.
Finish(task, steps) ==
  LET last == LastOf({i \in DOMAIN steps : steps[i].actor = "policy"})
  IN  IF last # 0 /\ steps[last].tool = "finish" THEN Unit(task) ELSE 0

\* The last test run that was observed counts.
TestsPass(task, steps) ==
  LET last == LastOf({i \in DOMAIN steps : steps[i].actor = "environment" /\ steps[i].tool = "test"})
  IN  IF last = 0 THEN 0 ELSE IF steps[last].rc = 0 THEN Unit(task) ELSE -Unit(task)

Value(signal, task, steps, errors) ==
  CASE signal = "step_count"       -> StepCount(task, steps)
    [] signal = "error_penalty"    -> ErrorPenalty(task, errors)
    [] signal = "success_criteria" -> SuccessCriteria(task, steps)
    [] signal = "finish"           -> Finish(task, steps)
    [] signal = "tests_pass"       -> TestsPass(task, steps)

Total(f) ==
  f.step_count + f.error_penalty + f.success_criteria + f.finish + f.tests_pass

\* round_to(num / den, 4), in units of 0.0001; halves go away from zero.
RoundTo4(num, den) ==
  LET Up(n) == (2 * 10000 * n + den) \div (2 * den)
  IN  IF num >= 0 THEN Up(num) ELSE -Up(-num)

\* score: the weighted mean of the signals and the audit flags.
Score(task, steps, errors, rubric) ==
  LET weight   == Weight(rubric)
      value    == [s \in Signals |-> Value(s, task, steps, errors)]
      weighted == Total([s \in Signals |-> weight[s] * value[s]])
  IN  [terminal |-> RoundTo4(weighted, Total(weight) * Unit(task)),
       rubric   |-> rubric,
       flags    |-> (IF errors > 0 THEN {"requires-manual-audit"} ELSE {}) \cup
                    (IF value.success_criteria = 0
                     THEN {"no-success-criteria-match"} ELSE {})]
=============================================================================
