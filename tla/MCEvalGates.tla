----------------------------- MODULE MCEvalGates -----------------------------
(* EvalCases and EvalGates over small inputs: what EvalProofs proves for      *)
(* every input, and what folds over results keep out of a proof.  A run of a  *)
(* module that extends this one evaluates the assumptions.                    *)
EXTENDS EvalGates

SmallCases ==
  [status : {"completed", "failed"}, tools : {<<>>, <<"t">>}, texts : {<<>>, <<"x", "y">>},
   saves : {Unset, 1}, refusal : {Unset, FALSE}, toolFailures : {Unset}, tiers : {<<"r">>},
   counts : {<<>>}, memory : {{}}, rubric : {DefaultRubric}, tolerance : {10},
   labels : [passed : {Unset, TRUE, FALSE}, score : {Unset, 95}]]

SmallRuns ==
  [status : {"completed", "failed"}, tools : {<<>>, <<"t">>, <<"u">>},
   says : {{}, {"x"}, {"x", "y"}}, refused : {FALSE}, tiers : {<<>>, <<"r">>},
   counts : {[memory_saved |-> 1, tool_observation |-> 2]}, badTools : 0..1,
   remembers : {{}}, steps : {1}]

SmallVerdicts == [passed : BOOLEAN, score : {0, 80, 100}]

ASSUME RuleJudgeRepeatsTheChecks ==
  \A case \in SmallCases, run \in SmallRuns, rubric \in JudgeRubrics :
    /\ RuleJudge(case, run, rubric).passed = (Failures(case, run) = {})
    /\ RuleScore(case, run) \in 0..100

ASSUME CaseLabelledFailingNeverPasses ==
  \A case \in SmallCases, run \in SmallRuns, verdict \in SmallVerdicts, rubric \in JudgeRubrics :
    case.labels.passed = FALSE => ~JudgedPasses(case, run, rubric, verdict)

\* One case's result, of up to two steps.
SmallResults ==
  {[passed |-> p, judge |-> j,
    metrics |-> [toolCalls |-> 1, toolFailures |-> f, toolSuccesses |-> 1 - f,
                 fallbacks |-> 0, refusals |-> 0, saved |-> 0, decisions |-> 0,
                 runFailed |-> w, steps |-> 1]] :
     p \in BOOLEAN, j \in {Unset, TRUE, FALSE}, f \in 0..1, w \in 0..1}

\* A run that fails closes the gate, even where its case expects it to fail.
ASSUME FailedRunsCloseTheGate ==
  \A a, b \in SmallResults :
    1 \in {a.metrics.runFailed, b.metrics.runFailed} => ~PassedGate(<<a, b>>, DefaultThresholds)

\* The gate's default bound on the pass rate repeats its count of failed cases.
ASSUME PassRateRepeatsTheCases ==
  \A a, b \in SmallResults :
    (a.passed /\ b.passed) <=> Metrics(<<a, b>>).case_pass_rate >= DefaultThresholds.minCasePassRate

\* Two results for one name: the last one is the report's.
ASSUME LastOfAName ==
  \A a, b, c \in SmallResults :
    ByName(<<"n", "m", "n">>, <<a, b, c>>) = [n |-> c.passed, m |-> b.passed]

SmallReports ==
  [gate : BOOLEAN,
   metrics : [{"case_pass_rate", "tool_failures"} -> 0..1] \cup [{"case_pass_rate"} -> 0..1],
   cases : [{"n"} -> BOOLEAN] \cup {<<>>}]

ASSUME RegressionsCompose ==
  \A a, b, c \in SmallReports :
    HasRegression(a, c) => HasRegression(a, b) \/ HasRegression(b, c)

ASSUME DiffSeesWhatHistorySees ==
  \A a, b \in SmallReports : HistoryRegresses(<<a, b>>) => HasRegression(a, b)

\* A history never regresses from one report to the next, and so not overall.
ASSUME QuietHistoriesKeepTheGate ==
  \A a, b, c \in SmallReports :
    ~HistoryRegresses(<<a, b>>) /\ ~HistoryRegresses(<<a, b, c>>) =>
      ~GateLost(a, c) /\ WorseMetrics(a.metrics, c.metrics) = {}

ASSUME HistoriesAreCounted ==
  \A a, b \in SmallReports :
    LET summary == HistorySummary(<<a, b>>, 1) IN
    /\ summary.recent = <<b>>
    /\ summary.gatePassRate = Scale <=> a.gate /\ b.gate

\* Sampling by name order: never more than asked for, best first.
ASSUME BestFirst ==
  \A reasons \in [{"a", "b", "c"} -> {{}, {"review_required"}, {"safety_case", "memory_write_case"}}],
     limit \in 0..3 :
    LET before == {<<"a", "b">>, <<"b", "c">>, <<"a", "c">>}
        sampled == Sampled(reasons, FALSE, {}, before, limit)
    IN  /\ Cardinality(sampled) <= limit
        /\ \A c \in sampled, d \in DOMAIN reasons \ sampled :
             Priority(reasons[c]) >= Priority(reasons[d])

\* Nobody has to look again at a reviewed case with its labels, unless it is
\* about safety, failing tools or saved memories.
ASSUME LabelledCasesRest ==
  \A case \in SmallCases :
    (Reasons(case, FALSE) \ {"memory_write_case"} = {}) <=>
      (case.texts # <<>> /\ Unset \notin {case.labels.passed, case.labels.score})
=============================================================================
