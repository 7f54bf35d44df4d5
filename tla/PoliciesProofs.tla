--------------------------- MODULE PoliciesProofs ---------------------------
(* What is proved of the policies and of a run that is planned by them       *)
(* (SafetyPolicy, MemoryPolicy, ToolCatalog, PlannedRun): for every goal,    *)
(* every outcome of the tools and every number of steps.                     *)
EXTENDS PlannedRun, SafetyPolicy, MemoryPolicy, ToolCatalog,
        FiniteSetTheorems, TLAPS

\* Ranks of the wanted tools, one by one.
LEMMA RankValues ==
  /\ Wanted = {"calculator", "todo.add", "note.add", "todo.list", "study.plan"}
  /\ Rank["calculator"] = 1 /\ Rank["todo.add"] = 2 /\ Rank["note.add"] = 3
  /\ Rank["todo.list"] = 4 /\ Rank["study.plan"] = 5
BY DEF Wanted, Rank

\* First takes a tool of the set, the one of the least rank.
LEMMA FirstIsLeast ==
  ASSUME NEW tools \in SUBSET Wanted, tools # {}
  PROVE  /\ First(tools) \in tools
         /\ \A other \in tools : Rank[First(tools)] <= Rank[other]
<1>1. \E tool \in tools : \A other \in tools : Rank[tool] <= Rank[other]
  <2>1. CASE "calculator" \in tools
    BY <2>1, RankValues
  <2>2. CASE "calculator" \notin tools /\ "todo.add" \in tools
    BY <2>2, RankValues
  <2>3. CASE tools \cap {"calculator", "todo.add"} = {} /\ "note.add" \in tools
    BY <2>3, RankValues
  <2>4. CASE tools \cap {"calculator", "todo.add", "note.add"} = {} /\ "todo.list" \in tools
    BY <2>4, RankValues
  <2>5. CASE tools \cap {"calculator", "todo.add", "note.add", "todo.list"} = {}
    <3>1. tools = {"study.plan"} BY <2>5, RankValues
    <3> QED BY <3>1, RankValues
  <2> QED BY <2>1, <2>2, <2>3, <2>4, <2>5
<1> QED BY <1>1 DEF First

\* The rule planner calls a wanted tool that was not called yet, or ends the
\* run, which it does when no such tool is left or the calculation failed.
LEMMA RuleNextCalls ==
  ASSUME NEW goal_ \in SUBSET Wanted, NEW steps
  PROVE  \/ /\ RuleNext(goal_, steps) = Final
            /\ Due(goal_, steps) = {} \/ HasFailed(steps, "calculator")
         \/ \E tool \in Due(goal_, steps), writes \in {"nothing", "text", "calculation"} :
              /\ RuleNext(goal_, steps) = Action(tool, writes)
              /\ (tool = "note.add" /\ "calculator" \in goal_) => writes = "calculation"
<1> DEFINE due == Due(goal_, steps)
<1> DEFINE givenUp == NoteIsOff(goal_, steps) /\ due \cap {"calculator", "todo.add"} = {}
<1> DEFINE writes == IF First(due) = "note.add" THEN NoteText(steps) ELSE "nothing"
<1>1. CASE due = {} \/ givenUp
  BY <1>1 DEF RuleNext, NoteIsOff
<1>2. CASE ~(due = {} \/ givenUp)
  <2>1. due \in SUBSET Wanted BY DEF Due
  <2>2. /\ First(due) \in due
        /\ \A other \in due : Rank[First(due)] <= Rank[other]
    BY <1>2, <2>1, FirstIsLeast
  <2>3. RuleNext(goal_, steps) = Action(First(due), writes)
    BY <1>2 DEF RuleNext
  <2>4. writes \in {"nothing", "text", "calculation"}
    BY DEF NoteText
  <2>5. ASSUME First(due) = "note.add", "calculator" \in goal_
        PROVE  writes = "calculation"
    <3>1. "calculator" \notin due /\ "todo.add" \notin due
      BY <2>2, <2>5, RankValues
    <3>2. HasTool(steps, "calculator")
      BY <3>1, <2>5 DEF Due
    <3>3. ~NoteIsOff(goal_, steps)
      BY <1>2, <3>1
    <3>4. "note.add" \in goal_
      BY <2>2, <2>5 DEF Due
    <3>5. Succeeded(steps, "calculator")
      BY <3>2, <3>3, <3>4, <2>5 DEF NoteIsOff, HasTool, HasFailed, Succeeded
    <3> QED BY <3>5, <2>5 DEF NoteText
  <2> QED BY <2>2, <2>3, <2>4, <2>5
<1> QED BY <1>1, <1>2
---------------------------------------------------------------------------
\* Finished, taken apart: nothing failed, all the goal wants succeeded.
LEMMA FinishedHasAll ==
  ASSUME NEW goal_, NEW steps, NEW answer, Finished(goal_, steps, answer)
  PROVE  /\ \A i \in DOMAIN steps : steps[i].ok
         /\ \A tool \in goal_ : Succeeded(steps, tool)
BY DEF Finished

\* The actions of the planners are actions.
LEMMA RuleNextType ==
  ASSUME NEW goal_ \in SUBSET Wanted, NEW steps
  PROVE  RuleNext(goal_, steps) \in Actions
<1>1. Due(goal_, steps) \subseteq Tools BY DEF Due, Tools
<1> QED BY <1>1, RuleNextCalls DEF Actions, Action, Writings

LEMMA HermesNextType ==
  ASSUME NEW goal_ \in SUBSET Wanted, NEW steps, NEW proposal \in Proposals,
         NEW next \in HermesNext(goal_, steps, proposal)
  PROVE  next \in Actions
<1>1. CASE next = Final BY <1>1 DEF Actions
<1>2. CASE next = RuleNext(goal_, steps) BY <1>2, RuleNextType
<1>3. CASE /\ Callable(proposal)
           /\ next \in {Action(proposal.tool, writes) : writes \in WrittenBy(proposal.tool)}
  <2>1. WrittenBy(proposal.tool) \subseteq Writings BY DEF WrittenBy, Writings
  <2> QED BY <1>3, <2>1 DEF Actions, Action, Callable
<1> QED BY <1>1, <1>2, <1>3 DEF HermesNext

\* A tool is planned only while there are steps left for it, and the run gives
\* up when there are none.
Room ==
  /\ pc = "start" => trace = <<>>
  /\ pc \in {"plan", "act"} => Len(trace) < MaxSteps
  /\ pc = "exhausted" \/ status = "incomplete" => Len(trace) = MaxSteps
  /\ pc # "done" => status = "running"

LEMMA TypesAndRoom == Spec => [](TypeOK /\ Room)
<1>1. Init => TypeOK /\ Room
  <2>1. Final \in Actions BY DEF Actions
  <2> QED BY <2>1, PlannedAssumption DEF Init, TypeOK, Room
<1>2. TypeOK /\ Room /\ [Next]_vars => TypeOK' /\ Room'
  <2> SUFFICES ASSUME TypeOK, Room, [Next]_vars
               PROVE  TypeOK' /\ Room'
    OBVIOUS
  <2> USE PlannedAssumption DEF TypeOK, Room
  <2>1. ASSUME NEW verdict \in {"clarification", "completed", "incomplete"},
               NEW planned \in BOOLEAN, Reply(verdict, planned),
               verdict = "incomplete" => pc = "exhausted",
               UNCHANGED <<goal, action, trace>>
        PROVE  TypeOK' /\ Room'
    <3>1. tiers' \subseteq {"clarification", "local_safety", "memory_confirmation",
                           "tool_result_summary", "failure_incomplete", "planner_answer",
                           "normal_responder"}
      BY <2>1 DEF Reply, Tiers, Facts
    <3> QED BY <2>1, <3>1 DEF Reply, goal
  <2>2. ASSUME pc = "plan", NEW next \in Actions, Planned(next)
        PROVE  TypeOK' /\ Room'
    BY <2>2 DEF Planned, goal
  <2>3. CASE Ask BY <2>1, <2>3 DEF Ask
  <2>4. CASE Skip BY <2>1, <2>4 DEF Skip
  <2>5. CASE Enter BY <2>5 DEF Enter, AfterTool, goal
  <2>6. CASE PlanByRule BY <2>2, <2>6, RuleNextType DEF PlanByRule
  <2>7. CASE PlanByModel BY <2>2, <2>7, HermesNextType DEF PlanByModel
  <2>8. CASE Answer BY <2>1, <2>8 DEF Answer
  <2>9. CASE Act
    <3>1. PICK ok \in BOOLEAN, saves \in BOOLEAN : trace' = Append(trace, Observed(ok, saves))
      BY <2>9 DEF Act
    <3>2. Observed(ok, saves) \in StepRecords
      BY <2>9, <3>1 DEF Act, Observed, StepRecords, Actions, Writings, Final, Action
    <3>3. trace' \in Seq(StepRecords) /\ Len(trace') = Len(trace) + 1
      BY <3>1, <3>2
    <3> QED BY <2>9, <3>3 DEF Act, AfterTool, goal
  <2>10. CASE GiveUp BY <2>1, <2>10 DEF GiveUp
  <2>11. CASE UNCHANGED vars BY <2>11 DEF vars, goal
  <2> QED BY <2>3, <2>4, <2>5, <2>6, <2>7, <2>8, <2>9, <2>10, <2>11 DEF Next
<1> QED BY <1>1, <1>2, PTL DEF Spec

\* Every value stays of its type and the trace within Agent.max_steps, for
\* both planners (runtime/agent.py, the loop of run_typed).
THEOREM RunTypes == Spec => []TypeOK
BY TypesAndRoom, PTL
---------------------------------------------------------------------------
\* A final action that is justified: nothing wanted is left uncalled, or the
\* calculation failed.
Justified ==
  (\A tool \in wants : HasTool(trace, tool)) \/ HasFailed(trace, "calculator")

\* Whoever ends the run has a reason to.
OwnsUpInv ==
  /\ pc \in {"plan", "act", "exhausted"} => memory # "clarify"
  /\ (pc = "act" /\ action = Final) => Justified
  /\ ReplyOwnsUp

LEMMA RuleFinalIsJustified ==
  ASSUME wants \in SUBSET Wanted, RuleNext(wants, trace) = Final
  PROVE  Justified
<1>1. \A tool \in Due(wants, trace) : \A writes : Action(tool, writes) # Final
  BY RankValues DEF Due, Action, Final
<1> QED BY <1>1, RuleNextCalls DEF Due, Justified

LEMMA ModelFinalIsJustified ==
  ASSUME wants \in SUBSET Wanted, NEW proposal \in Proposals,
         Final \in HermesNext(wants, trace, proposal)
  PROVE  Justified
<1>1. CASE Finished(wants, trace, proposal.answer)
  BY <1>1, FinishedHasAll DEF Succeeded, HasTool, Justified
<1>2. CASE RuleNext(wants, trace) = Final
  BY <1>2, RuleFinalIsJustified
<1>3. \A writes : Callable(proposal) => Action(proposal.tool, writes) # Final
  BY DEF Callable, Tools, Wanted, Rank, Action, Final
<1> QED BY <1>1, <1>2, <1>3 DEF HermesNext

\* The reply of a run that goes through the tiers tells of every failure, and
\* of giving up.
LEMMA FailuresShow ==
  ASSUME NEW goal_, NEW steps, NEW decision, decision # "clarify",
         NEW incomplete \in BOOLEAN, NEW planned \in BOOLEAN,
         FailuresTold(steps) # {} \/ incomplete
  PROVE  "failure_incomplete" \in Tiers(goal_, decision, steps, incomplete, planned)
<1>1. "failure_incomplete" \in Facts(goal_, decision, steps, incomplete)
  BY DEF Facts
<1> QED BY <1>1 DEF Tiers

\* Without a failure, what succeeded is told.
LEMMA SuccessesShow ==
  ASSUME NEW goal_ \in SUBSET Wanted, NEW steps, FailuresTold(steps) = {},
         NEW tool \in goal_, HasTool(steps, tool)
  PROVE  \E i \in Told(goal_, steps) : steps[i].tool = tool
<1>1. PICK i \in DOMAIN steps : steps[i].tool = tool
  BY DEF HasTool
<1>2. steps[i].ok /\ ~HasFailed(steps, "calculator")
  BY DEF FailuresTold, HasFailed
<1>3. i \in Told(goal_, steps)
  BY <1>1, <1>2, RankValues DEF Told, NoteIsOff
<1> QED BY <1>1, <1>3

\* A run that has not done all its goal asks for says so (policies/response.py,
\* with the planners' final answers), whichever planner has the turn.
THEOREM OwnsUp == Spec => []ReplyOwnsUp
<1>1. Init => OwnsUpInv
  BY DEF Init, OwnsUpInv, ReplyOwnsUp
<1>2. OwnsUpInv /\ TypeOK /\ Room /\ [Next]_vars => OwnsUpInv'
  <2> SUFFICES ASSUME OwnsUpInv, TypeOK, Room, [Next]_vars
               PROVE  OwnsUpInv'
    OBVIOUS
  <2> USE DEF OwnsUpInv
  <2>1. CASE Ask
    BY <2>1 DEF Ask, Reply, ReplyOwnsUp
  <2>2. CASE Skip
    BY <2>2 DEF Skip, Reply, ReplyOwnsUp, goal
  <2>3. CASE Enter
    BY <2>3 DEF Enter, AfterTool, ReplyOwnsUp, goal
  <2>4. ASSUME pc = "plan", NEW next, Planned(next), next = Final => Justified
        PROVE  OwnsUpInv'
    BY <2>4 DEF Planned, Justified, ReplyOwnsUp, goal
  <2>5. CASE PlanByRule
    <3>1. RuleNext(wants, trace) = Final => Justified
      BY RuleFinalIsJustified DEF TypeOK
    <3> QED BY <2>4, <2>5, <3>1 DEF PlanByRule
  <2>6. CASE PlanByModel
    <3>. PICK proposal \in Proposals :
           \E next \in HermesNext(wants, trace, proposal) : Planned(next)
      BY <2>6 DEF PlanByModel
    <3>1. PICK next \in HermesNext(wants, trace, proposal) : Planned(next)
      OBVIOUS
    <3>2. next = Final => Justified
      BY <3>1, ModelFinalIsJustified DEF TypeOK
    <3> QED BY <2>4, <2>6, <3>1, <3>2 DEF PlanByModel
  <2>7. CASE Answer
    <3>1. CASE FailuresTold(trace) # {}
      <4>1. "failure_incomplete" \in tiers'
        BY <2>7, <3>1, FailuresShow DEF Answer, Reply
      <4> QED BY <2>7, <4>1 DEF Answer, Reply, ReplyOwnsUp
    <3>2. CASE FailuresTold(trace) = {}
      <4>1. ~HasFailed(trace, "calculator")
        BY <3>2 DEF FailuresTold, HasFailed
      <4>2. \A tool \in wants : \E i \in Told(wants, trace) : trace[i].tool = tool
        BY <2>7, <3>2, <4>1, SuccessesShow DEF Answer, Justified, TypeOK
      <4> QED BY <2>7, <4>2 DEF Answer, Reply, ReplyOwnsUp, goal
    <3> QED BY <3>1, <3>2
  <2>8. CASE Act
    BY <2>8 DEF Act, AfterTool, ReplyOwnsUp, goal
  <2>9. CASE GiveUp
    <3>1. "failure_incomplete" \in tiers'
      BY <2>9, FailuresShow DEF GiveUp, Reply
    <3> QED BY <2>9, <3>1 DEF GiveUp, Reply, ReplyOwnsUp
  <2>10. CASE UNCHANGED vars
    BY <2>10 DEF vars, goal, Justified, ReplyOwnsUp
  <2> QED BY <2>1, <2>2, <2>3, <2>5, <2>6, <2>7, <2>8, <2>9, <2>10 DEF Next
<1>3. OwnsUpInv => ReplyOwnsUp BY DEF OwnsUpInv
<1> QED BY <1>1, <1>2, <1>3, TypesAndRoom, PTL DEF Spec
---------------------------------------------------------------------------
\* The rule planner alone: it calls what is due, once, and notes what it
\* calculated.
OrderlyInv ==
  planner = "rule" =>
    /\ \A i \in DOMAIN trace : trace[i].tool \in wants
    /\ \A i, j \in DOMAIN trace : trace[i].tool = trace[j].tool => i = j
    /\ \A i \in DOMAIN trace :
         (trace[i].tool = "note.add" /\ "calculator" \in wants /\ trace[i].ok) =>
           trace[i].writes = "calculation"
    /\ (pc = "act" /\ action # Final) =>
         /\ action.tool \in Due(wants, trace)
         /\ (action.tool = "note.add" /\ "calculator" \in wants) =>
              action.writes = "calculation"

\* A run that called no tool twice has no more steps than the goal wants tools.
LEMMA StepsAreWanted ==
  ASSUME NEW goal_ \in SUBSET Wanted, NEW steps \in Seq(StepRecords),
         \A i \in DOMAIN steps : steps[i].tool \in goal_,
         \A i, j \in DOMAIN steps : steps[i].tool = steps[j].tool => i = j
  PROVE  Cardinality(goal_) >= Len(steps)
<1> DEFINE f == [i \in 1..Len(steps) |-> steps[i].tool]
<1>1. f \in Injection(1..Len(steps), goal_)
  <2>1. f \in [1..Len(steps) -> goal_] OBVIOUS
  <2>2. \A i, j \in 1..Len(steps) : f[i] = f[j] => i = j OBVIOUS
  <2> QED BY <2>1, <2>2 DEF Injection, IsInjective
<1>2. IsFiniteSet(goal_)
  <2>0. \A S, x : IsFiniteSet(S) => IsFiniteSet(S \cup {x})
    BY FS_AddElement
  <2>1. IsFiniteSet({} \cup {"calculator"})
    BY <2>0, FS_EmptySet
  <2>2. IsFiniteSet({} \cup {"calculator"} \cup {"todo.add"})
    BY <2>0, <2>1
  <2>3. IsFiniteSet({} \cup {"calculator"} \cup {"todo.add"} \cup {"note.add"})
    BY <2>0, <2>2
  <2>4. IsFiniteSet({} \cup {"calculator"} \cup {"todo.add"} \cup {"note.add"}
                      \cup {"todo.list"})
    BY <2>0, <2>3
  <2>5. IsFiniteSet(Wanted)
    <3>1. Wanted = {} \cup {"calculator"} \cup {"todo.add"} \cup {"note.add"}
                     \cup {"todo.list"} \cup {"study.plan"}
      BY RankValues
    <3>2. IsFiniteSet({} \cup {"calculator"} \cup {"todo.add"} \cup {"note.add"}
                        \cup {"todo.list"} \cup {"study.plan"})
      BY <2>0, <2>4
    <3> QED BY <3>1, <3>2
  <2> QED BY <2>5, FS_Subset
<1>3. IsFiniteSet(1..Len(steps)) /\ Cardinality(1..Len(steps)) = Len(steps)
  <2>1. Len(steps) \in Nat OBVIOUS
  <2> QED BY <2>1, FS_Interval
<1> QED BY <1>1, <1>2, <1>3, FS_Injection, FS_CardinalityType

\* The rule planner calls no tool twice, notes a calculation only from its
\* result, and runs out of steps only on a goal of at least that many tools
\* (RuleBasedPlanner.next, policies/planner.py).
THEOREM RuleOrder == Spec => []RuleRunsAreOrderly
<1>1. Init => OrderlyInv
  BY DEF Init, OrderlyInv
<1>2. OrderlyInv /\ TypeOK /\ Room /\ [Next]_vars => OrderlyInv'
  <2> SUFFICES ASSUME OrderlyInv, TypeOK, Room, [Next]_vars
               PROVE  OrderlyInv'
    OBVIOUS
  <2>1. CASE Ask BY <2>1 DEF Ask, Reply, OrderlyInv, goal
  <2>2. CASE Skip BY <2>2 DEF Skip, Reply, OrderlyInv, goal
  <2>3. CASE Enter BY <2>3 DEF Enter, AfterTool, OrderlyInv, goal
  <2>4. CASE PlanByRule
    <3>1. action' = RuleNext(wants, trace) /\ UNCHANGED <<planner, wants, trace>>
      BY <2>4 DEF PlanByRule, Planned, goal
    <3>2. RuleNext(wants, trace) # Final =>
            /\ RuleNext(wants, trace).tool \in Due(wants, trace)
            /\ (RuleNext(wants, trace).tool = "note.add" /\ "calculator" \in wants) =>
                 RuleNext(wants, trace).writes = "calculation"
      <4>1. wants \in SUBSET Wanted BY DEF TypeOK
      <4>2. \A tool, writes : Action(tool, writes).tool = tool /\ Action(tool, writes).writes = writes
        BY DEF Action
      <4> QED BY <4>1, <4>2, RuleNextCalls
    <3> QED BY <3>1, <3>2 DEF OrderlyInv
  <2>5. CASE PlanByModel BY <2>5 DEF PlanByModel, Planned, OrderlyInv, goal
  <2>6. CASE Answer BY <2>6 DEF Answer, Reply, OrderlyInv, goal
  <2>7. CASE Act
    <3> SUFFICES ASSUME planner = "rule"
                 PROVE  OrderlyInv'
      BY <2>7 DEF Act, goal, OrderlyInv
    <3>1. PICK ok \in BOOLEAN, saves \in BOOLEAN : trace' = Append(trace, Observed(ok, saves))
      BY <2>7 DEF Act
    <3>2. /\ DOMAIN trace' = DOMAIN trace \cup {Len(trace) + 1}
          /\ \A i \in DOMAIN trace : trace'[i] = trace[i]
          /\ trace'[Len(trace) + 1] = Observed(ok, saves)
          /\ Len(trace) + 1 \notin DOMAIN trace
      BY <3>1 DEF TypeOK
    <3>3. /\ action.tool \in wants
          /\ \A i \in DOMAIN trace : trace[i].tool # action.tool
      BY <2>7 DEF Act, OrderlyInv, Due, HasTool
    <3>4. /\ Observed(ok, saves).tool = action.tool
          /\ (action.tool = "note.add" /\ "calculator" \in wants /\ Observed(ok, saves).ok) =>
               Observed(ok, saves).writes = "calculation"
      BY <2>7 DEF Act, OrderlyInv, Observed
    <3>5. pc' # "act" BY <2>7 DEF Act, AfterTool
    <3>6. UNCHANGED <<planner, wants>> BY <2>7 DEF Act, goal
    <3> QED BY <3>2, <3>3, <3>4, <3>5, <3>6 DEF OrderlyInv
  <2>8. CASE GiveUp BY <2>8 DEF GiveUp, Reply, OrderlyInv, goal
  <2>9. CASE UNCHANGED vars BY <2>9 DEF vars, goal, OrderlyInv
  <2> QED BY <2>1, <2>2, <2>3, <2>4, <2>5, <2>6, <2>7, <2>8, <2>9 DEF Next
<1>3. OrderlyInv /\ TypeOK /\ Room => RuleRunsAreOrderly
  BY StepsAreWanted DEF OrderlyInv, TypeOK, Room, RuleRunsAreOrderly
<1> QED BY <1>1, <1>2, <1>3, TypesAndRoom, PTL DEF Spec
---------------------------------------------------------------------------
LEMMA CoercedRange == ASSUME NEW n PROVE Coerced(n) \in 0..100
<1>1. CASE n \notin Int
  BY <1>1 DEF Coerced
<1>2. CASE n \in Int
  BY <1>2 DEF Coerced
<1> QED BY <1>1, <1>2

LEMMA DecisionType ==
  ASSUME NEW verdict, NEW risk, NEW confidence \in 0..100
  PROVE  Decision(NormalAction(verdict), NormalRisk(risk), confidence) \in Decided
<1>1. NormalAction(verdict) \in {"allow", "warn", "review", "refuse"}
  BY DEF NormalAction, ActionRank
<1>2. NormalRisk(risk) \in {"none", "low", "medium", "high"}
  BY DEF NormalRisk, RiskRank
<1>3. IsBlocking(NormalAction(verdict)) \in BOOLEAN
  BY DEF IsBlocking
<1> QED BY <1>1, <1>2, <1>3 DEF Decision, Decided

\* Whatever the model answers, the model's policy comes to a decision.
LEMMA ModelDecides ==
  ASSUME NEW answer, NEW byRules \in Decided, NEW threshold
  PROVE  LlmCheck(answer, threshold, byRules) \in Decided
<1>1. CASE answer = Unusable \/ Parsed(answer, threshold) = Unusable
  BY <1>1 DEF LlmCheck
<1>2. CASE ~(answer = Unusable \/ Parsed(answer, threshold) = Unusable)
  <2>1. LlmCheck(answer, threshold, byRules)
          = Decision(ParsedAction(answer), NormalRisk(answer.risk), Coerced(answer.confidence))
    BY <1>2 DEF LlmCheck, Parsed
  <2>2. ParsedAction(answer) = NormalAction(ParsedAction(answer))
    BY DEF ParsedAction, NormalAction, ActionRank
  <2> QED BY <2>1, <2>2, CoercedRange, DecisionType
<1> QED BY <1>1, <1>2

\* AGENTIC_SAFETY_FAIL_CLOSED changes nothing: neither of the two checkers the
\* environment can combine ever raises, since the model's policy falls back to
\* the rules on whatever goes wrong.  (The docstring of
\* build_safety_policy_from_env says that the run is blocked then.)
THEOREM FailClosedNeverApplies ==
  ASSUME NEW mode, NEW answer, NEW byRules \in Decided
  PROVE  EnvCheck(mode, TRUE, byRules, answer) = EnvCheck(mode, FALSE, byRules, answer)
<1> DEFINE byModel == LlmCheck(answer, Threshold, byRules)
<1>1. byModel # Raised /\ byRules # Raised
  BY ModelDecides, SafetyAssumption
<1>2. ASSUME NEW failClosed
      PROVE  /\ CheckedBy(byRules, failClosed) = byRules
             /\ CheckedBy(byModel, failClosed) = byModel
  BY <1>1 DEF CheckedBy
<1> DEFINE both == <<byRules, byModel>>
<1>3. \A i \in DOMAIN both : CheckedBy(both[i], TRUE) = CheckedBy(both[i], FALSE)
  <2>1. DOMAIN both = {1, 2} /\ both[1] = byRules /\ both[2] = byModel
    OBVIOUS
  <2> QED BY <1>2, <2>1
<1> HIDE DEF both
<1>4. Composite(both, TRUE) = Composite(both, FALSE)
  <2>1. [i \in DOMAIN both |-> CheckedBy(both[i], TRUE)]
          = [i \in DOMAIN both |-> CheckedBy(both[i], FALSE)]
    BY <1>3
  <2> QED BY <2>1, Zenon DEF Composite
<1> QED BY <1>4 DEF EnvCheck, both

\* A decision that says so blocks, as every decision the policies make.
Consistent(decision) == decision.refuse = IsBlocking(decision.action)

LEMMA RanksAreNumbers ==
  /\ \A verdict : ActionRank[NormalAction(verdict)] \in 0..3
  /\ \A risk : RiskRank[NormalRisk(risk)] \in 0..3
  /\ \A verdict : IsBlocking(verdict) <=> ActionRank[NormalAction(verdict)] >= 2
<1>1. \A verdict : NormalAction(verdict) \in {"allow", "warn", "review", "refuse"}
  BY DEF NormalAction, ActionRank
<1>2. \A risk : NormalRisk(risk) \in {"none", "low", "medium", "high"}
  BY DEF NormalRisk, RiskRank
<1> QED BY <1>1, <1>2 DEF ActionRank, RiskRank, IsBlocking

\* One of two decisions is outranked by none, and the first of those is taken.
LEMMA CompositeOfTwo ==
  ASSUME NEW a \in Decided, NEW b \in Decided, NEW failClosed \in BOOLEAN
  PROVE  Composite(<<a, b>>, failClosed) = IF Outranks(b, a) THEN b ELSE a
<1> DEFINE both == <<a, b>>
<1> DEFINE checked == [i \in DOMAIN both |-> CheckedBy(both[i], failClosed)]
<1> DEFINE highest == {i \in DOMAIN checked :
                         \A j \in DOMAIN checked : ~Outranks(checked[j], checked[i])}
<1>1. a # Raised /\ b # Raised
  BY SafetyAssumption
<1>2. CheckedBy(a, failClosed) = a /\ CheckedBy(b, failClosed) = b
  BY <1>1 DEF CheckedBy
<1>3. DOMAIN both = {1, 2} /\ both[1] = a /\ both[2] = b /\ both # <<>>
  OBVIOUS
<1>4. DOMAIN checked = {1, 2} /\ checked[1] = a /\ checked[2] = b
  BY <1>2, <1>3
<1>5. ~Outranks(a, a) /\ ~Outranks(b, b) /\ ~(Outranks(a, b) /\ Outranks(b, a))
  BY RanksAreNumbers DEF Outranks, Decided
<1>6. highest = IF Outranks(b, a) THEN {2} ELSE IF Outranks(a, b) THEN {1} ELSE {1, 2}
  BY <1>4, <1>5
<1>7. (CHOOSE i \in highest : \A j \in highest : i <= j) = IF Outranks(b, a) THEN 2 ELSE 1
  BY <1>6
<1>8. Composite(both, failClosed) = checked[CHOOSE i \in highest : \A j \in highest : i <= j]
  BY <1>3, Zenon DEF Composite
<1> QED BY <1>4, <1>7, <1>8

\* Rules and model together block exactly what one of them blocks: no order and
\* no confidence lets through what the other would stop (CompositeSafetyPolicy,
\* policies/safety.py).
THEOREM CompositeIsTheStricter ==
  ASSUME NEW a \in Decided, NEW b \in Decided, Consistent(a), Consistent(b),
         NEW failClosed \in BOOLEAN
  PROVE  Composite(<<a, b>>, failClosed).refuse = (a.refuse \/ b.refuse)
<1>1. ASSUME Outranks(b, a)
      PROVE  IsBlocking(a.action) => IsBlocking(b.action)
  BY <1>1, RanksAreNumbers DEF Outranks, Decided
<1>2. ASSUME ~Outranks(b, a)
      PROVE  IsBlocking(b.action) => IsBlocking(a.action)
  BY <1>2, RanksAreNumbers DEF Outranks, Decided
<1>3. IsBlocking(a.action) \in BOOLEAN /\ IsBlocking(b.action) \in BOOLEAN
  BY DEF IsBlocking
<1>4. CASE Outranks(b, a)
  BY <1>1, <1>3, <1>4, CompositeOfTwo DEF Consistent
<1>5. CASE ~Outranks(b, a)
  BY <1>2, <1>3, <1>5, CompositeOfTwo DEF Consistent
<1> QED BY <1>4, <1>5

\* A text with a secret is never saved, and what is saved has a type, whatever
\* the model answers and whatever it takes the text for (LlmMemoryPolicy and
\* RuleBasedMemoryPolicy, policies/memory.py).
THEOREM SecretsAreNeverSaved ==
  ASSUME NEW answer, NEW text \in SUBSET Patterns, LlmEvaluate(answer, text).save
  PROVE  /\ "secret" \notin text
         /\ LlmEvaluate(answer, text).type \in Types \ {"none"}
<1>1. CASE /\ "secret" \notin text
           /\ LlmEvaluate(answer, text) = RuleEvaluate(text)
  <2>1. RuleEvaluate(text) \in {Sensitive, Question, TurnedDown,
                               MemoryDecision(TRUE, MemoryType(text), FALSE, FALSE)}
    BY DEF RuleEvaluate
  <2>2. MemoryType(text) \in Types \ {"none"}
    BY DEF MemoryType, Types
  <2> QED BY <1>1, <2>1, <2>2 DEF Sensitive, Question, TurnedDown, MemoryDecision
<1>2. CASE /\ "secret" \notin text
           /\ LlmEvaluate(answer, text) = ParsedMemory(answer, text)
           /\ ParsedMemory(answer, text) # NoAnswer
  <2>1. \/ ParsedMemory(answer, text) \in {Sensitive, Question, TurnedDown}
        \/ /\ answer.type \in Types \ {"none"}
           /\ ParsedMemory(answer, text) = MemoryDecision(TRUE, answer.type, FALSE, FALSE)
    BY <1>2 DEF ParsedMemory
  <2> QED BY <1>2, <2>1 DEF Sensitive, Question, TurnedDown, MemoryDecision
<1>3. CASE "secret" \in text
  <2>1. RuleEvaluate(text) = Sensitive
    BY <1>3 DEF RuleEvaluate, SensitivityRisk
  <2>2. ParsedMemory(answer, text) = Sensitive
    BY <1>3 DEF ParsedMemory
  <2>3. ~Sensitive.save
    BY DEF Sensitive, MemoryDecision
  <2> QED BY <2>1, <2>2, <2>3 DEF LlmEvaluate
<1> QED BY <1>1, <1>2, <1>3 DEF LlmEvaluate

\* The steps of a study plan take up its minutes, and none takes less than none
\* (`_study_plan`, tools/registry.py).
THEOREM PlansFillTheirMinutes ==
  ASSUME NEW max \in Nat \ {0}
  PROVE  /\ StudyPlan(max)[1] + StudyPlan(max)[2] + StudyPlan(max)[3] = max
         /\ \A i \in 1..3 : StudyPlan(max)[i] >= 0
<1>1. StepMinutes(max) \in Nat \ {0}
  BY DEF StepMinutes, Most, Least
<1> QED BY <1>1 DEF StudyPlan, Least
=============================================================================
