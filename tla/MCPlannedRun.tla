---------------------------- MODULE MCPlannedRun ----------------------------
(* Both planners, every goal and every outcome of its tools, in three steps. *)
(* The policies before the loop and the tools under it are pure: what is     *)
(* assumed of them below is evaluated over all inputs that tell them apart.  *)
EXTENDS PlannedRun, SafetyPolicy, MemoryPolicy, ToolCatalog, SequencesExt

CONSTANT Given   \* a text where only being given counts

\* What checkers of a composite policy may say, the third for the third place.
SomeDecided ==
  {Decision(verdict, risk, confidence) :
     verdict \in DOMAIN ActionRank, risk \in {"none", "high"}, confidence \in {0, 90}}
  \cup {Raised}

\* A combination of checkers blocks a request exactly if one of them does, or
\* raises and the policy fails closed, in whatever order they are.
ASSUME CompositeIsTheStrictest ==
  \A decisions \in SeqOf(SomeDecided, 3), failClosed \in BOOLEAN :
    Composite(decisions, failClosed).refuse =
      \E i \in DOMAIN decisions :
        IF decisions[i] = Raised THEN failClosed ELSE decisions[i].refuse

\* A more severe rule behind one that matches is not heard.
ASSUME FirstRuleDecides ==
  \A matching \in SUBSET (1..2) :
    LET rules == <<[action |-> "warn", risk |-> "low", confidence |-> 50],
                   [action |-> "refuse", risk |-> "high", confidence |-> 95]>>
    IN  RuleCheck(rules, matching).refuse = (matching = {2})

\* A model that answers in whatever scale of confidence gets one of 0 to 100,
\* and the same answer with more of it is not read as less sure, but for the
\* step from a share to a percentage.
ASSUME ConfidenceIsBounded ==
  \A n \in -50..20000 :
    /\ Coerced(n) \in 0..100 /\ MemoryConfidence(n) \in 0..100
    /\ n # 100 => Coerced(n) <= Coerced(n + 1) /\ MemoryConfidence(n) <= MemoryConfidence(n + 1)

\* Rules and model: a text with a secret is never saved, what is saved has a
\* type, and a question is asked only when nothing is saved.
ASSUME MemoriesAreFit ==
  \A text \in Texts, type \in Types \cup {"unknown"}, sensitive, hasText, clarify, save \in BOOLEAN :
    \A confidence \in {NoAnswer, 0, 50, 60, 100, 5900, 6000} :
      LET answer == [sensitive |-> sensitive, hasText |-> hasText, clarify |-> clarify,
                     save |-> save, type |-> type, confidence |-> confidence]
          decision == LlmEvaluate(answer, text)
      IN /\ decision.save => "secret" \notin text /\ decision.type # "none" /\ ~decision.clarify
         /\ decision.save \in BOOLEAN

\* The steps of a study plan take up its time, each of them at least five
\* minutes unless no more is left.
ASSUME PlansFillTheirTime ==
  \A max \in 1..500 :
    LET plan == StudyPlan(max) IN
    /\ plan[1] + plan[2] + plan[3] = max
    /\ \A i \in 1..3 : plan[i] >= 0
    /\ plan[2] = 0 => plan[3] = 0

\* The catalog as it is registered has nothing to complain of; a removed tool
\* whose replacement is not there has.
Registered ==
  [name \in DefaultNames |->
     [version |-> Given, owner |-> Given, lifecycle |-> "active", replacedBy |-> "",
      notes |-> "", deprecatedIn |-> ""]]

ASSUME DefaultCatalogIsValid ==
  /\ ValidCatalog(Registered)
  /\ \A name \in DefaultNames, replacement \in DefaultNames \cup {"", "unknown"} :
       LET catalog == [Registered EXCEPT ![name].lifecycle = "removed",
                                         ![name].replacedBy = replacement,
                                         ![name].notes = Given]
       IN  ValidCatalog(catalog) = (replacement \in DefaultNames)
=============================================================================
