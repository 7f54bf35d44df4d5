----------------------------- MODULE PlannedRun -----------------------------
(* The loop of Agent.run_typed with the planners and the response policy it  *)
(* is really given (see Planning), from the goal to the reply: what AgentRun *)
(* takes as any answer.  Safety lets the goal pass; tools fail as they like, *)
(* by themselves or because governance refuses them.                         *)
EXTENDS Planning

CONSTANTS
  Planners,   \* planners to check, of "rule" and "hermes"
  MaxSteps,   \* Agent.max_steps
  Responder   \* whether the agent has a responder

ASSUME PlannedAssumption ==
  /\ Planners \subseteq {"rule", "hermes"}
  /\ MaxSteps \in Nat
  /\ Responder \in BOOLEAN

VARIABLES
  planner,   \* which planner the agent has (never changes)
  wants,     \* tools the goal asks for (never changes)
  memory,    \* the memory policy's decision on the goal (never changes)
  pc,        \* where the run is
  action,    \* the action it has planned
  trace,     \* state.trace
  status,    \* the status of its result
  tiers      \* the tiers of its reply

goal == <<planner, wants, memory>>
vars == <<goal, pc, action, trace, status, tiers>>

Actions == {Final} \cup [tool : Tools, writes : Writings]

TypeOK ==
  /\ planner \in Planners
  /\ wants \subseteq Wanted
  /\ memory \in MemoryDecisions
  /\ pc \in {"start", "plan", "act", "exhausted", "done"}
  /\ action \in Actions
  /\ trace \in Seq(StepRecords)
  /\ Len(trace) <= MaxSteps
  /\ status \in {"running", "clarification", "completed", "incomplete"}
  /\ tiers \subseteq {"clarification", "local_safety", "memory_confirmation",
                      "tool_result_summary", "failure_incomplete", "planner_answer",
                      "normal_responder"}

Init ==
  /\ planner \in Planners
  /\ wants \in SUBSET Wanted
  /\ memory \in MemoryDecisions
  /\ pc = "start"
  /\ action = Final
  /\ trace = <<>>
  /\ status = "running"
  /\ tiers = {}
---------------------------------------------------------------------------
\* `_build_result` with the reply of the response policy.
Reply(verdict, planned) ==
  /\ pc' = "done"
  /\ status' = verdict
  /\ tiers' = Tiers(wants, memory, trace, verdict = "incomplete", planned)

AfterTool(steps) == IF steps < MaxSteps THEN "plan" ELSE "exhausted"

\* A memory that needs a question ends the run.
Ask ==
  /\ pc = "start"
  /\ memory = "clarify"
  /\ Reply("clarification", FALSE)
  /\ UNCHANGED <<goal, action, trace>>

\* `_should_skip_planner`: a goal without any key word of a tool, which may
\* have one and yet ask for nothing.
Skip ==
  /\ pc = "start"
  /\ memory # "clarify"
  /\ wants = {}
  /\ Responder \/ memory \in {"save", "sensitive"}
  /\ Reply("completed", FALSE)
  /\ UNCHANGED <<goal, action, trace>>

Enter ==
  /\ pc = "start"
  /\ memory # "clarify"
  /\ pc' = AfterTool(0)
  /\ UNCHANGED <<goal, action, trace, status, tiers>>

Planned(next) ==
  /\ action' = next
  /\ pc' = "act"
  /\ UNCHANGED <<goal, trace, status, tiers>>

PlanByRule ==
  /\ pc = "plan"
  /\ planner = "rule"
  /\ Planned(RuleNext(wants, trace))

PlanByModel ==
  /\ pc = "plan"
  /\ planner = "hermes"
  /\ \E proposal \in Proposals :
       \E next \in HermesNext(wants, trace, proposal) : Planned(next)

\* A final action: the planner's answer counts when tools ran, or when nobody
\* else could speak.
Answer ==
  /\ pc = "act"
  /\ action = Final
  /\ Reply("completed", trace # <<>> \/ ~Responder)
  /\ UNCHANGED <<goal, action, trace>>

\* What a tool call leaves in the trace: memory.add is ok, too, when the memory
\* policy turns the text down.
Observed(ok, saves) ==
  [tool |-> action.tool,
   ok |-> ok,
   writes |-> IF ok /\ (action.tool = "memory.add" => saves) THEN action.writes ELSE "nothing"]

\* Mutant: the loop goes one step over.
ActLong ==
  /\ pc = "act"
  /\ action # Final
  /\ \E ok, saves \in BOOLEAN : trace' = Append(trace, Observed(ok, saves))
  /\ pc' = AfterTool(Len(trace))
  /\ UNCHANGED <<goal, action, status, tiers>>

Act ==
  /\ pc = "act"
  /\ action # Final
  /\ \E ok, saves \in BOOLEAN : trace' = Append(trace, Observed(ok, saves))
  /\ pc' = AfterTool(Len(trace'))
  /\ UNCHANGED <<goal, action, status, tiers>>

GiveUp ==
  /\ pc = "exhausted"
  /\ Reply("incomplete", FALSE)
  /\ UNCHANGED <<goal, action, trace>>

Next ==
  \/ Ask
  \/ Skip
  \/ Enter
  \/ PlanByRule
  \/ PlanByModel
  \/ Answer
  \/ Act
  \/ GiveUp

Spec == Init /\ [][Next]_vars
---------------------------------------------------------------------------
\* A run that has not done all its goal asks for says so: a reply without a
\* word of failure tells the success of every tool the goal wants, however the
\* model and the rules took turns.  (A run that asks about a memory has done
\* nothing yet.)
ReplyOwnsUp ==
  (pc = "done" /\ status # "clarification" /\ "failure_incomplete" \notin tiers) =>
    \A tool \in wants : \E i \in Told(wants, trace) : trace[i].tool = tool

\* What the rule planner does with a run of its own: it calls no tool twice,
\* writes a note of a calculation only from its result, and runs out of steps
\* only when the goal wants at least as many tools.
RuleRunsAreOrderly ==
  planner = "rule" =>
    /\ \A i, j \in DOMAIN trace : trace[i].tool = trace[j].tool => i = j
    /\ \A i \in DOMAIN trace :
         (trace[i].tool = "note.add" /\ "calculator" \in wants /\ trace[i].ok) =>
           trace[i].writes = "calculation"
    /\ status = "incomplete" => Cardinality(wants) >= MaxSteps

\* What the response policy says of itself: it speaks by the trace and the
\* observations only.  A reply that says no note was written, because the
\* calculation failed, is given only when none was.
RepliesAreTrue ==
  (pc = "done" /\ status # "clarification" /\ NoteIsOff(wants, trace)) =>
    ~Succeeded(trace, "note.add")
=============================================================================
