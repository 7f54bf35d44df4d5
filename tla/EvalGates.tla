----------------------------- MODULE EvalGates -----------------------------
(* What a run of the eval harness adds up to, and what keeps it from getting *)
(* worse: aggregated metrics, thresholds and the gate (evalops/harness.py),  *)
(* the comparison of two reports (diff.py), the history of reports           *)
(* (history.py) and the queue of cases people should look at (sampling.py).  *)
EXTENDS EvalCases

\* Rates are counted in 1/Scale and rounded down: enough for the thresholds,
\* which are whole numbers of them, and to tell two rates of less than 100
\* cases apart.
Scale == 10000
Rate(n, total) == IF total = 0 THEN Scale ELSE (n * Scale) \div total

\* The result of one case: the metrics of its run, whether it passed, and
\* whether its judge passed it (Unset without a judge).
Total(results, key) == FoldSeq(LAMBDA r, n : r.metrics[key] + n, 0, results)

HowMany(results, Test(_)) == Cardinality({i \in DOMAIN results : Test(results[i])})

Judged(result) == result.judge # Unset

\* `_aggregate_metrics`, those something depends on; avg_steps has no reader.
Metrics(results) ==
  LET passed == HowMany(results, LAMBDA r : r.passed)
      judged == HowMany(results, Judged)
  IN  [case_pass_rate |-> Rate(passed, Len(results)),
       tool_calls |-> Total(results, "toolCalls"),
       tool_failures |-> Total(results, "toolFailures"),
       tool_success_rate |-> Rate(Total(results, "toolSuccesses"), Total(results, "toolCalls")),
       planner_fallbacks |-> Total(results, "fallbacks"),
       safety_refusals |-> Total(results, "refusals"),
       memory_saved |-> Total(results, "saved"),
       memory_decisions |-> Total(results, "decisions"),
       run_failed |-> Total(results, "runFailed"),
       judge_evaluated |-> judged,
       judge_passed |-> HowMany(results, LAMBDA r : Judged(r) /\ r.judge),
       judge_pass_rate |-> Rate(HowMany(results, LAMBDA r : Judged(r) /\ r.judge), judged)]

\* EvalThresholds, with its defaults.
DefaultThresholds ==
  [minCasePassRate |-> Scale, minToolSuccessRate |-> 7500,
   maxRunFailed |-> 0, maxPlannerFallbacks |-> 0]

\* `_check_thresholds`.
GateFailures(metrics, limits) ==
  {kind \in {"case_pass_rate", "tool_success_rate", "run_failed", "planner_fallbacks"} :
     \/ kind = "case_pass_rate" /\ metrics.case_pass_rate < limits.minCasePassRate
     \/ kind = "tool_success_rate" /\ metrics.tool_success_rate < limits.minToolSuccessRate
     \/ kind = "run_failed" /\ metrics.run_failed > limits.maxRunFailed
     \/ kind = "planner_fallbacks" /\ metrics.planner_fallbacks > limits.maxPlannerFallbacks}

\* What run_eval runs when it is given `cases`: none, or an empty dataset, means
\* the built-in ones.
CasesRun(cases, builtin) == IF cases \in {Unset, <<>>} THEN builtin ELSE cases

\* run_eval's report: the failed cases count, and the thresholds.
PassedGate(results, limits) ==
  /\ \A i \in DOMAIN results : results[i].passed
  /\ GateFailures(Metrics(results), limits) = {}

\* EvalReport, as the JSON file the other tools read: its gate, its metrics, and
\* its cases by name; of two with one name `_cases_by_name` keeps the last.
Report(gate, metrics, named) == [gate |-> gate, metrics |-> metrics, cases |-> named]

ByName(names, results) ==
  [n \in Range(names) |->
     LET last == CHOOSE i \in DOMAIN names :
                   names[i] = n /\ \A j \in DOMAIN names : names[j] = n => j <= i
     IN  results[last].passed]
---------------------------------------------------------------------------
RATE_METRICS == {"case_pass_rate", "tool_success_rate"}
LOWER_IS_BETTER_METRICS == {"tool_failures", "planner_fallbacks", "safety_refusals", "run_failed"}

Value(metrics, name) == IF name \in DOMAIN metrics THEN metrics[name] ELSE 0

\* `_numeric_diffs` and `_numeric_regression`: the metrics that got worse, one
\* that a report does not have being 0.
WorseMetrics(base, candidate) ==
  {name \in DOMAIN base \cup DOMAIN candidate :
     LET delta == Value(candidate, name) - Value(base, name) IN
     \/ name \in RATE_METRICS /\ delta < 0
     \/ name \in LOWER_IS_BETTER_METRICS /\ delta > 0}

\* `_case_diffs` and CaseDiff.regression: cases that pass no more, or are gone.
\* A failing case with other failures, or a new one, is no regression.
WorseCases(base, candidate) ==
  {name \in DOMAIN base :
     name \in DOMAIN candidate => base[name] /\ ~candidate[name]}

GateLost(base, candidate) == base.gate /\ ~candidate.gate

\* EvalReportDiff.has_regression; event counts are shown and never judged.
HasRegression(base, candidate) ==
  \/ GateLost(base, candidate)
  \/ WorseMetrics(base.metrics, candidate.metrics) # {}
  \/ WorseCases(base.cases, candidate.cases) # {}

\* `_history_regressions`, of the last two reports of a history: no cases.
HistoryRegresses(history) ==
  /\ Len(history) >= 2
  /\ LET latest == history[Len(history)]
         previous == history[Len(history) - 1]
     IN  \/ GateLost(previous, latest)
         \/ WorseMetrics(previous.metrics, latest.metrics) # {}

\* `_gate_pass_rate` and the rest of summarize_history.
HistorySummary(history, limit) ==
  [total |-> Len(history),
   gatePassRate |-> Rate(HowMany(history, LAMBDA r : r.gate), Len(history)),
   regresses |-> HistoryRegresses(history),
   recent |-> IF limit > 0 /\ limit < Len(history)
                THEN SubSeq(history, Len(history) - limit + 1, Len(history)) ELSE history]
---------------------------------------------------------------------------
\* `_sampling_reasons` of a dataset case that waits for its review, or not.
Reasons(case, required) ==
  {reason \in {"review_required", "needs_answer_label", "needs_judge_label",
               "safety_case", "tool_failure_case", "memory_write_case"} :
     \/ reason = "review_required" /\ required
     \/ reason = "needs_answer_label" /\ case.texts = <<>>
     \/ reason = "needs_judge_label" /\ Unset \in {case.labels.passed, case.labels.score}
     \/ reason = "safety_case" /\ case.refusal = TRUE
     \/ reason = "tool_failure_case" /\ case.toolFailures # Unset /\ case.toolFailures > 0
     \/ reason = "memory_write_case" /\ case.saves # Unset /\ case.saves > 0}

Weights == [review_required |-> 50, needs_judge_label |-> 25, safety_case |-> 25,
            tool_failure_case |-> 20, needs_answer_label |-> 15, memory_write_case |-> 10]

\* `_priority`.
Weight(reasons, reason) == IF reason \in reasons THEN Weights[reason] ELSE 0

Priority(reasons) ==
  Weight(reasons, "review_required") + Weight(reasons, "needs_judge_label")
    + Weight(reasons, "safety_case") + Weight(reasons, "tool_failure_case")
    + Weight(reasons, "needs_answer_label") + Weight(reasons, "memory_write_case")

\* build_review_queue, before its limit: `reasons` of each case by name.
Queued(reasons, includeReady, wanted) ==
  {c \in DOMAIN reasons :
     /\ wanted # {} => wanted \cap reasons[c] # {}
     /\ includeReady \/ reasons[c] # {}}

\* Its order, highest priority first and then by name; `before` orders names.
Ahead(reasons, before, c, d) ==
  \/ Priority(reasons[c]) > Priority(reasons[d])
  \/ Priority(reasons[c]) = Priority(reasons[d]) /\ <<c, d>> \in before

\* ... and its first `limit` items.
Sampled(reasons, includeReady, wanted, before, limit) ==
  LET queue == Queued(reasons, includeReady, wanted) IN
  {c \in queue : Cardinality({d \in queue : Ahead(reasons, before, d, c)}) < limit}
---------------------------------------------------------------------------
\* build_dashboard, of the inputs it is given (Unset without one): it knows the
\* dataset file's decisions only, not the review store's.
Dashboard(report, history, reasons, disputed, invalid) ==
  [gate |-> IF report = Unset THEN Unset ELSE report.gate,
   regresses |-> IF history = Unset THEN Unset ELSE HistoryRegresses(history),
   queued |-> Queued(reasons, FALSE, {}),
   conflicts |-> disputed,
   rubricsValid |-> invalid = {}]
=============================================================================
