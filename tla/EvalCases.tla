----------------------------- MODULE EvalCases -----------------------------
(* An eval case, and what the harness makes of one run of it: the check of   *)
(* its expectations, the judge's verdict, and the comparison of that verdict *)
(* with the human labels (evalops: harness.py, judge.py, judge_registry.py). *)
(*                                                                           *)
(* A run is what the harness reads of an AgentRunResult: status, refused,    *)
(* tools and tiers, says and remembers (the texts to be found in its answer  *)
(* and in its memories), counts (of events, by type), badTools (observations *)
(* with ok False) and steps.  Lists are functions of any index, for nothing  *)
(* here reads their order.                                                   *)
EXTENDS Integers, Sequences, FiniteSets, SequencesExt

CONSTANT Unset   \* a label or an expectation nobody gave

ASSUME CaseAssumption == Unset \notin BOOLEAN \cup Int

\* Human judge labels of a case: shall the judge pass it, and with which score.
Labels == [passed : BOOLEAN \cup {Unset}, score : Int \cup {Unset}]

NoLabels == [passed |-> Unset, score |-> Unset]

Given(item, key, default) == IF key \in DOMAIN item THEN item[key] ELSE default

DefaultRubric == [name |-> "agentic_core_default", version |-> "v1"]

\* `_eval_case_from_dict`: what a case of a dataset file means.  A tolerance of
\* 0 is taken as none given.
EvalCase(item) ==
  [status |-> Given(item, "status", "completed"),
   tools |-> Given(item, "tools", <<>>),
   texts |-> Given(item, "texts", <<>>),
   saves |-> Given(item, "saves", Unset),
   refusal |-> Given(item, "refusal", Unset),
   toolFailures |-> Given(item, "toolFailures", Unset),
   tiers |-> Given(item, "tiers", <<>>),
   counts |-> Given(item, "counts", <<>>),
   memory |-> Given(item, "memory", {}),
   rubric |-> Given(item, "rubric", DefaultRubric),
   labels |-> Given(item, "labels", NoLabels),
   tolerance |-> IF Given(item, "tolerance", 0) \in {0, Unset}
                   THEN 10 ELSE item["tolerance"]]
---------------------------------------------------------------------------
\* `_event_counts(result).get(type, 0)`.
Count(run, type) == IF type \in DOMAIN run.counts THEN run.counts[type] ELSE 0

\* `_check_expectations`: the kinds of expectation a run fails.  A case that
\* names no tool expects none; one that names some does not mind others.
Failures(case, run) ==
  {kind \in {"status", "tools", "answer", "saves", "refusal", "toolFailures",
             "tiers", "counts", "memory"} :
    \/ kind = "status" /\ run.status # case.status
    \/ kind = "tools" /\ \/ ~(Range(case.tools) \subseteq Range(run.tools))
                         \/ case.tools = <<>> /\ run.tools # <<>>
    \/ kind = "answer" /\ ~(Range(case.texts) \subseteq run.says)
    \/ kind = "saves" /\ case.saves \notin {Unset, Count(run, "memory_saved")}
    \/ kind = "refusal" /\ case.refusal \notin {Unset, run.refused}
    \/ kind = "toolFailures" /\ case.toolFailures \notin {Unset, run.badTools}
    \/ kind = "tiers" /\ ~(Range(case.tiers) \subseteq Range(run.tiers))
    \/ kind = "counts" /\ \E e \in DOMAIN case.counts : Count(run, e) # case.counts[e]
    \/ kind = "memory" /\ ~(case.memory \subseteq run.remembers)}

\* collect_run_metrics.
RunMetrics(run) ==
  [toolCalls |-> Count(run, "tool_observation"),
   toolFailures |-> run.badTools,
   toolSuccesses |-> Count(run, "tool_observation") - run.badTools,
   fallbacks |-> Count(run, "planner_fallback"),
   refusals |-> Count(run, "safety_refusal"),
   saved |-> Count(run, "memory_saved"),
   decisions |-> Count(run, "memory_decision"),
   runFailed |-> IF run.status = "failed" THEN 1 ELSE 0,
   steps |-> run.steps]
---------------------------------------------------------------------------
\* JUDGE_RUBRICS, and get_judge_rubric, which raises for any other.
JudgeRubrics ==
  {[name |-> "agentic_core_default", version |-> "v1", min |-> 70],
   [name |-> "strict_answer_quality", version |-> "v1", min |-> 90]}

Registered(rubric) ==
  \E r \in JudgeRubrics : r.name = rubric.name /\ r.version = rubric.version

Clamped(n) == CASE n < 0 -> 0 [] n > 100 -> 100 [] OTHER -> n

\* How many of the wanted ones are missing.
Missing(wanted, got) == Cardinality({i \in DOMAIN wanted : wanted[i] \notin got})

\* RuleBasedEvalJudge.judge.
RuleScore(case, run) ==
  Clamped((IF Failures(case, run) # {} THEN 40 ELSE 100)
          - (IF run.status # case.status THEN 30 ELSE 0)
          - 20 * Missing(case.tools, Range(run.tools))
          - 25 * Missing(case.texts, run.says)
          - 15 * Missing(case.tiers, Range(run.tiers)))

HasReasons(case, run) ==
  \/ Failures(case, run) # {}
  \/ run.status # case.status
  \/ Missing(case.tools, Range(run.tools)) > 0
  \/ Missing(case.texts, run.says) > 0
  \/ Missing(case.tiers, Range(run.tiers)) > 0

RuleJudge(case, run, rubric) ==
  [passed |-> RuleScore(case, run) >= rubric.min /\ ~HasReasons(case, run),
   score |-> RuleScore(case, run)]

\* LlmEvalJudge.judge: the model's verdict, checked; if it answers with none
\* that parses (Unset), the rule judge's.
LlmJudge(answer, case, run, rubric) ==
  IF answer = Unset THEN RuleJudge(case, run, rubric)
  ELSE [passed |-> answer.passed /\ Clamped(answer.score) >= rubric.min,
        score |-> Clamped(answer.score)]

\* `_check_judge_rubric`: an empty name or version is not compared.
RubricFits(case, rubric) ==
  /\ case.rubric.name \in {"", rubric.name}
  /\ case.rubric.version \in {"", rubric.version}

\* `_check_judge_calibration`.
Calibrated(labels, tolerance, verdict) ==
  /\ labels.passed \in {Unset, verdict.passed}
  /\ \/ labels.score = Unset
     \/ /\ verdict.score - labels.score <= tolerance
        /\ labels.score - verdict.score <= tolerance

\* run_eval_case: whether a judged case passes, and one without a judge.
JudgedPasses(case, run, rubric, verdict) ==
  /\ Failures(case, run) = {}
  /\ verdict.passed
  /\ RubricFits(case, rubric)
  /\ Calibrated(case.labels, case.tolerance, verdict)

Passes(case, run) == Failures(case, run) = {}

\* validate_dataset_rubrics: the cases whose rubric nobody registered, an
\* empty name or version being the default's.
InvalidRubrics(cases) ==
  {c \in DOMAIN cases :
     LET named == cases[c].rubric IN
     ~Registered([name |-> IF named.name = "" THEN DefaultRubric.name ELSE named.name,
                  version |-> IF named.version = "" THEN DefaultRubric.version
                              ELSE named.version])}
=============================================================================
