---------------------------- MODULE SafetyPolicy ----------------------------
(* The request-level safety policies (policies/safety.py): rules, a model    *)
(* whose answer is checked and backed by the rules, and their combination.   *)
(* A text is the set of rules whose pattern matches it.                      *)
EXTENDS Integers, Sequences, FiniteSets

CONSTANTS
  Unusable,   \* an answer that is no JSON object, or a decision it cannot give
  Raised      \* a checker that raised

Decided == [refuse : BOOLEAN, action : {"allow", "warn", "review", "refuse"},
            risk : {"none", "low", "medium", "high"}, confidence : 0..100]

ASSUME SafetyAssumption == {Unusable, Raised} \cap Decided = {}

ActionRank == [allow |-> 0, warn |-> 1, review |-> 2, refuse |-> 3]
RiskRank == [none |-> 0, low |-> 1, medium |-> 2, high |-> 3]

\* `_normalize_action` and `_normalize_risk_level`: a name nobody knows counts
\* as none.
NormalAction(action) == IF action \in DOMAIN ActionRank THEN action ELSE "allow"
NormalRisk(risk) == IF risk \in DOMAIN RiskRank THEN risk ELSE "none"

IsBlocking(action) == NormalAction(action) \in {"review", "refuse"}

Decision(action, risk, confidence) ==
  [refuse |-> IsBlocking(action), action |-> action, risk |-> risk,
   confidence |-> confidence]

AllowAll(confidence) == Decision("allow", "none", confidence)

\* `_coerce_confidence` of a number in hundredths, or of what is no number: up
\* to one it is a share, above one a percentage.  (As a float a share may come
\* out one lower.)
Coerced(hundredths) ==
  IF hundredths \notin Int \/ hundredths < 0 THEN 0
  ELSE IF hundredths <= 100 THEN hundredths
  ELSE IF hundredths <= 10000 THEN hundredths \div 100
  ELSE 100
---------------------------------------------------------------------------
\* RuleBasedSafetyPolicy.check: the first rule that matches decides, not the
\* most severe one.  A rule keeps its own risk and confidence.
RuleCheck(rules, matching) ==
  IF matching = {} THEN AllowAll(100)
  ELSE LET rule == rules[CHOOSE i \in matching : \A j \in matching : i <= j]
       IN  Decision(NormalAction(rule.action), rule.risk, rule.confidence)

\* LlmSafetyPolicy._parse_decision: high risk is not let through, and the model
\* does not block on little confidence unless the risk is high.
ParsedAction(answer) ==
  IF NormalRisk(answer.risk) = "high" /\ NormalAction(answer.action) = "allow"
    THEN "review" ELSE NormalAction(answer.action)

Parsed(answer, threshold) ==
  IF /\ Coerced(answer.confidence) < threshold
     /\ IsBlocking(ParsedAction(answer))
     /\ NormalRisk(answer.risk) # "high"
    THEN Unusable
    ELSE Decision(ParsedAction(answer), NormalRisk(answer.risk), Coerced(answer.confidence))

\* LlmSafetyPolicy.check: whatever is wrong with the model, the rules decide.
LlmCheck(answer, threshold, byRules) ==
  IF answer = Unusable \/ Parsed(answer, threshold) = Unusable
    THEN byRules ELSE Parsed(answer, threshold)

\* CompositeSafetyPolicy: a checker that raises allows, or refuses when the
\* policy fails closed.
CheckedBy(decision, failClosed) ==
  CASE decision # Raised -> decision
    [] decision = Raised /\ failClosed -> Decision("refuse", "medium", 0)
    [] OTHER -> AllowAll(0)

\* `_decision_rank`: action before risk before confidence.
Outranks(a, b) ==
  LET act == ActionRank[NormalAction(a.action)] - ActionRank[NormalAction(b.action)]
      risk == RiskRank[NormalRisk(a.risk)] - RiskRank[NormalRisk(b.risk)]
  IN \/ act > 0
     \/ act = 0 /\ risk > 0
     \/ act = 0 /\ risk = 0 /\ a.confidence > b.confidence

\* All checkers run, and the first of the highest rank decides.
Composite(decisions, failClosed) ==
  LET checked == [i \in DOMAIN decisions |-> CheckedBy(decisions[i], failClosed)]
      highest == {i \in DOMAIN checked : \A j \in DOMAIN checked : ~Outranks(checked[j], checked[i])}
  IN IF decisions = <<>> THEN AllowAll(0)
     ELSE checked[CHOOSE i \in highest : \A j \in highest : i <= j]

\* build_safety_policy_from_env: the policy AGENTIC_SAFETY_POLICY names, on a
\* request the rules decide as `byRules` and the model answers with `answer`.
Threshold == 70

EnvCheck(mode, failClosed, byRules, answer) ==
  LET byModel == LlmCheck(answer, Threshold, byRules) IN
  CASE mode = "llm" -> byModel
    [] mode = "composite" -> Composite(<<byRules, byModel>>, failClosed)
    [] OTHER -> byRules
=============================================================================
