------------------------------ MODULE Planning ------------------------------
(* Who decides the next action of a run, and what the reply says of it:      *)
(* RuleBasedPlanner and HermesPlanner (policies/planner.py), the summary of  *)
(* a trace (tools/summary.py) and RuleBasedResponsePolicy                    *)
(* (policies/response.py).                                                   *)
(*                                                                           *)
(* A goal is the set of tools it asks for by its expressions and key words.  *)
(* A trace is a sequence of steps: the tool, whether its observation is ok,  *)
(* and what the step writes down.                                            *)
EXTENDS Integers, Sequences, FiniteSets

\* The tools a goal can ask for, in the order the rule planner takes them.
Rank == [tool \in {"calculator", "todo.add", "note.add", "todo.list", "study.plan"} |->
           CASE tool = "calculator" -> 1
             [] tool = "todo.add" -> 2
             [] tool = "note.add" -> 3
             [] tool = "todo.list" -> 4
             [] OTHER -> 5]

Wanted == DOMAIN Rank

\* The model may choose memory.add as well, and a name that is no tool.
Tools == Wanted \cup {"memory.add"}

\* What a step writes: the result of a calculation, a text of its own, a
\* memory, or nothing.
Writings == {"calculation", "text", "memory", "nothing"}

StepRecords == [tool : Tools, ok : BOOLEAN, writes : Writings]

\* An action: a tool and what it is to write, or "final".
Action(tool, writes) == [tool |-> tool, writes |-> writes]
Final == Action("final", "nothing")

\* has_tool, has_successful_tool and has_failed_tool.
HasTool(trace, tool) == \E i \in DOMAIN trace : trace[i].tool = tool
Succeeded(trace, tool) == \E i \in DOMAIN trace : trace[i].tool = tool /\ trace[i].ok
HasFailed(trace, tool) == \E i \in DOMAIN trace : trace[i].tool = tool /\ ~trace[i].ok

\* A note depends on a calculation that has only failed so far.
NoteIsOff(wants, trace) ==
  /\ {"calculator", "note.add"} \subseteq wants
  /\ HasFailed(trace, "calculator")
  /\ ~Succeeded(trace, "calculator")
---------------------------------------------------------------------------
\* Mutant: a tool is due until it has succeeded.
DueUntilDone(wants, trace) == {tool \in wants : ~Succeeded(trace, tool)}

\* RuleBasedPlanner.next: the first tool that is wanted and was not called,
\* whether or not it would succeed.  A calculation that failed ends the run
\* before its note, and before all that comes after it.
Due(wants, trace) == {tool \in wants : ~HasTool(trace, tool)}

NoteText(trace) == IF Succeeded(trace, "calculator") THEN "calculation" ELSE "text"

First(tools) == CHOOSE tool \in tools : \A other \in tools : Rank[tool] <= Rank[other]

RuleNext(wants, trace) ==
  LET due == Due(wants, trace)
      givenUp == NoteIsOff(wants, trace) /\ due \cap {"calculator", "todo.add"} = {}
  IN IF due = {} \/ givenUp THEN Final
     ELSE Action(First(due), IF First(due) = "note.add" THEN NoteText(trace) ELSE "nothing")

\* Mutant: a final answer is taken whenever nothing has failed.
FinishedSoFar(wants, trace, answer) ==
  /\ \A i \in DOMAIN trace : trace[i].ok
  /\ answer.text # ""

\* HermesPlanner, `_parse_action` and validate_final_action: a final answer is
\* taken when nothing has failed and all the goal wants has succeeded, and it
\* is long enough and names the note and the plan.
Finished(wants, trace, answer) ==
  /\ \A i \in DOMAIN trace : trace[i].ok
  /\ answer.text # ""
  /\ \A tool \in wants : Succeeded(trace, tool)
  /\ "note.add" \in wants => answer.namesNote
  /\ "study.plan" \in wants => answer.namesPlan
  /\ wants \ {"calculator"} # {} => answer.text = "long"

Answers == [text : {"", "short", "long"}, namesNote : BOOLEAN, namesPlan : BOOLEAN]

\* `_parse_action` and validate_tool_input: a tool is taken when it is listed,
\* with every text it requires, whatever the trace says.
Callable(proposal) == proposal.tool \in Tools /\ proposal.complete

\* The model answers with a tool call, a final answer, or what is neither.
Proposals ==
  [kind : {"tool"}, tool : Tools \cup {"unknown"}, complete : BOOLEAN]
  \cup [kind : {"final"}, answer : Answers]
  \cup [kind : {"invalid"}]

\* What a tool the model calls may write down: its own text, whatever it says.
WrittenBy(tool) == CASE tool = "note.add" -> {"text", "calculation"}
                     [] tool = "memory.add" -> {"memory"}
                     [] OTHER -> {"nothing"}

\* HermesPlanner.next: the proposal, or the rule planner's action instead.
HermesNext(wants, trace, proposal) ==
  CASE proposal.kind = "final" /\ Finished(wants, trace, proposal.answer) -> {Final}
    [] proposal.kind = "tool" /\ Callable(proposal) ->
         {Action(proposal.tool, writes) : writes \in WrittenBy(proposal.tool)}
    [] OTHER -> {RuleNext(wants, trace)}
---------------------------------------------------------------------------
\* summarize_tool_trace: the steps whose success is told.  A note is passed
\* over when the summary holds that it cannot have been written, a memory that
\* was saved is left to the confirmation.
Told(wants, trace) ==
  {i \in DOMAIN trace :
     /\ trace[i].ok
     /\ trace[i].tool = "note.add" => ~NoteIsOff(wants, trace)
     /\ trace[i].tool = "memory.add" => trace[i].writes # "memory"}

FailuresTold(trace) == {i \in DOMAIN trace : ~trace[i].ok}

\* `_is_sensitive_memory_rejection` and the memories of the run.
MemoryDecisions == {"skip", "save", "clarify", "sensitive"}

Saved(memory, trace) ==
  \/ memory = "save"
  \/ \E i \in DOMAIN trace : trace[i].ok /\ trace[i].writes = "memory"

\* RuleBasedResponsePolicy.decide: what stops a run answers alone, facts are
\* put together, and only without any of them the planner or the responder
\* speaks.
Facts(wants, memory, trace, incomplete) ==
  {tier \in {"local_safety", "memory_confirmation", "tool_result_summary",
             "failure_incomplete"} :
     \/ tier = "local_safety" /\ memory = "sensitive"
     \/ tier = "memory_confirmation" /\ Saved(memory, trace)
     \/ tier = "tool_result_summary" /\ Told(wants, trace) # {}
     \/ tier = "failure_incomplete" /\ (FailuresTold(trace) # {} \/ incomplete)}

Tiers(wants, memory, trace, incomplete, planned) ==
  CASE memory = "clarify" -> {"clarification"}
    [] memory # "clarify" /\ Facts(wants, memory, trace, incomplete) # {} ->
         Facts(wants, memory, trace, incomplete)
    [] OTHER -> IF planned THEN {"planner_answer"} ELSE {"normal_responder"}
=============================================================================
