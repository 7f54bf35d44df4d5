---------------------------- MODULE MemoryPolicy ----------------------------
(* Whether a text becomes a long-term memory (policies/memory.py): the rules *)
(* that score it, and the model whose answer is checked and backed by them.  *)
(* A text is the set of patterns it matches; a score is what they say.       *)
EXTENDS Integers, FiniteSets

CONSTANT NoAnswer   \* no JSON object from the model, or no number in it

\* Named for the patterns of the policy; "secret" is SENSITIVE_PATTERN, "stack"
\* the words for a technology stack, "stack value" the stack itself, "study" the
\* two words of "task" that decide the type.
Patterns == {"later", "today", "habit", "this time", "preference", "task",
             "study", "explicit", "technology", "stack", "stack value", "who I am", "secret"}

Types == {"preference", "user_profile", "task_context", "note", "none"}

\* Patterns that share words: a text that names the stack names a technology,
\* and what is stable is a preference or a stack.
Texts == {text \in SUBSET Patterns :
            /\ "study" \in text => "task" \in text
            /\ "habit" \in text => "preference" \in text \/ "stack" \in text
            /\ "stack" \in text => "technology" \in text
            /\ "stack value" \in text => "stack" \in text}

Rated(text, high, score, low, other) ==
  CASE high \in text -> score
    [] high \notin text /\ low \in text -> 0
    [] OTHER -> other

FutureRelevance(text) == Rated(text, "later", 3, "today", 1)
Stability(text) == Rated(text, "habit", 2, "this time", 1)
UserPreference(text) == IF "preference" \in text THEN 3 ELSE 0
TaskContinuity(text) == IF "task" \in text THEN 2 ELSE 0
ExplicitIntent(text) == IF "explicit" \in text THEN 3 ELSE 0
UserProfile(text) ==
  CASE "technology" \in text -> 3
    [] "technology" \notin text /\ "who I am" \in text -> 2
    [] OTHER -> 0
SensitivityRisk(text) == IF "secret" \in text THEN 5 ELSE 0

\* Risk is no part of the score.
PositiveScore(text) ==
  FutureRelevance(text) + Stability(text) + UserPreference(text)
    + TaskContinuity(text) + ExplicitIntent(text) + UserProfile(text)

SaveThreshold == 7

MemoryType(text) ==
  CASE UserProfile(text) >= 2 -> "user_profile"
    [] UserProfile(text) < 2 /\ UserPreference(text) >= 2 -> "preference"
    [] OTHER -> IF "study" \in text THEN "task_context" ELSE "note"

\* `_needs_clarification`: asked to remember the stack, and not told it.
NeedsClarification(text) ==
  {"explicit", "stack"} \subseteq text /\ "stack value" \notin text

\* A MemoryDecision, with whether its sensitivity_risk says sensitive.
MemoryDecision(save, type, clarify, sensitive) ==
  [save |-> save, type |-> type, clarify |-> clarify, sensitive |-> sensitive]

TurnedDown == MemoryDecision(FALSE, "none", FALSE, FALSE)
Sensitive == MemoryDecision(FALSE, "none", FALSE, TRUE)
Question == MemoryDecision(FALSE, "none", TRUE, FALSE)

\* RuleBasedMemoryPolicy.evaluate: a secret first, then a question, then the
\* score.
RuleEvaluate(text) ==
  CASE SensitivityRisk(text) >= 3 -> Sensitive
    [] SensitivityRisk(text) < 3 /\ NeedsClarification(text) -> Question
    [] OTHER -> IF PositiveScore(text) >= SaveThreshold
                  THEN MemoryDecision(TRUE, MemoryType(text), FALSE, FALSE)
                  ELSE TurnedDown
---------------------------------------------------------------------------
ConfidenceThreshold == 60

\* coerce_confidence of a number in hundredths: what is no number does not keep
\* a memory from being saved, zero does.
MemoryConfidence(hundredths) ==
  CASE hundredths \notin Int -> ConfidenceThreshold
    [] hundredths \in 1..100 -> hundredths
    [] hundredths \in 101..10000 -> hundredths \div 100
    [] OTHER -> IF hundredths > 10000 THEN 100 ELSE 0

\* The fields of the model's answer, by their truth: a string such as "false"
\* is true.
ModelAnswers ==
  [sensitive : BOOLEAN, hasText : BOOLEAN, clarify : BOOLEAN, save : BOOLEAN,
   type : Types \cup {"unknown"}, confidence : Int \cup {NoAnswer}]

\* LlmMemoryPolicy._parse_decision, on the user's text: NoAnswer for a type
\* nobody knows, which raises.
ParsedMemory(answer, text) ==
  CASE answer.sensitive \/ "secret" \in text -> Sensitive
    [] ~(answer.sensitive \/ "secret" \in text) /\ answer.clarify /\ ~answer.hasText -> Question
    [] OTHER ->
         CASE answer.type \notin Types -> NoAnswer
           [] /\ answer.type \in Types
              /\ answer.save /\ answer.hasText /\ answer.type # "none"
              /\ MemoryConfidence(answer.confidence) >= ConfidenceThreshold ->
                MemoryDecision(TRUE, answer.type, FALSE, FALSE)
           [] OTHER -> TurnedDown

\* LlmMemoryPolicy.evaluate: the rules decide when the model cannot.
LlmEvaluate(answer, text) ==
  IF answer = NoAnswer \/ ParsedMemory(answer, text) = NoAnswer
    THEN RuleEvaluate(text) ELSE ParsedMemory(answer, text)
=============================================================================
