------------------------------ MODULE AgentRun ------------------------------
(***************************************************************************)
(* Agent.run_typed (agentic_core/runtime/agent.py): safety, memory policy, *)
(* then the plan-act-observe loop, each step recorded as an event.         *)
(*                                                                         *)
(* Policies, planner, tools and stores answer anything their interfaces    *)
(* allow, and may raise.  An action does what the code does up to and      *)
(* including the next record_event.  It may raise before the event is in   *)
(* the log (the store) or after (JsonMemoryStore.save, behind the store),  *)
(* and the event may be missing from the event file although it returns:   *)
(* CompositeEventWriter makes a warning of a file writer that raises.  The *)
(* process may die between any two steps; a tool abandoned by its timeout  *)
(* may have its effect at any later time.                                  *)
(***************************************************************************)
EXTENDS Integers, Sequences, FiniteSets, SequencesExt

CONSTANTS
  MaxSteps,    \* Agent.max_steps
  Namespaces,  \* user and tenant pairs
  Default,     \* the memory store's own default namespace
  Responder,   \* whether the agent has a responder
  MaxWarnings  \* bound: events that the file writer fails to write

ASSUME AgentAssumption ==
  /\ MaxSteps \in Nat
  /\ Default \in Namespaces
  /\ Responder \in BOOLEAN
  /\ MaxWarnings \in Nat

Steps == 1..MaxSteps
Tools == {"memory.add", "other"}

EventTypes ==
  {"run_started", "safety_decision", "safety_review_queued", "safety_refusal",
   "memory_decision", "memory_clarification", "memory_saved", "planner_skipped",
   "planner_action", "planner_fallback", "tool_started", "tool_observation",
   "response_decision", "run_completed", "run_failed"}

\* An event, and the loop step its payload names (0 before the loop).
Event(type, n) == [type |-> type, step |-> n]
Events == [type : EventTypes, step : 0..MaxSteps]

\* A long-term memory: its namespace, and the step that added it (0: the agent,
\* on its memory policy's word).
Memories == Namespaces \X (0..MaxSteps)

VARIABLES
  identity,   \* namespace of the run's identity (never changes)
  pc,         \* what run_typed does next
  safety,     \* SafetyDecision.action
  memory,     \* MemoryDecision: save, clarify, or neither
  step,       \* state.step
  tool,       \* tool of the action of each step
  trace,      \* state.trace: whether each step's observation is ok
  saved,      \* state.saved_memories
  status,     \* the status of the result: state.status once _build_result has set it
  events,     \* state.events
  log,        \* the run's events in MemoryStore.events, warnings aside
  held,       \* those the event file gives back to its readers, by position
  tail,       \* how the file ends: after a line, a line without its newline, or a part of one
  warned,     \* the events that have a warning behind them in MemoryStore.events
  memories,   \* what the memory store holds from this run
  effects,    \* steps whose tool has had its effect
  late,       \* steps whose tool is running on after its timeout
  queue       \* whether the safety review item is queued

stateVars == <<safety, memory, step, tool, trace, saved, status>>
worldVars == <<memories, effects, late, queue>>
fileVars == <<held, tail, warned>>
recordVars == <<events, log, fileVars>>
vars == <<identity, pc, stateVars, recordVars, worldVars>>

Doing == {"start", "safety", "review", "refuse", "memory", "clarify", "save", "route",
          "skip", "plan", "fallback", "act", "execute", "observe", "exhausted",
          "respond", "complete", "snapshot", "failing", "fail_snapshot"}
Over == {"returned", "escaped", "crashed"}

Statuses == {"running", "refused", "clarification", "completed", "incomplete", "failed"}

TypeOK ==
  /\ identity \in Namespaces
  /\ pc \in Doing \cup Over
  /\ safety \in {"unchecked", "allow", "refuse", "review"}
  /\ memory \in {"unchecked", "skip", "save", "clarify"}
  /\ step \in 0..MaxSteps
  /\ tool \in [Steps -> Tools \cup {"none"}]
  /\ trace \in Seq(BOOLEAN) /\ Len(trace) <= MaxSteps
  /\ saved \subseteq Memories
  /\ status \in Statuses
  /\ events \in Seq(Events)
  /\ log \in Seq(Events)
  /\ held \subseteq DOMAIN log
  /\ tail \in {"clean", "noeol", "partial"}
  /\ warned \subseteq DOMAIN log
  /\ memories \subseteq Memories
  /\ effects \subseteq Steps
  /\ late \subseteq Steps
  /\ queue \in BOOLEAN

Init ==
  /\ identity \in Namespaces
  /\ pc = "start"
  /\ safety = "unchecked"
  /\ memory = "unchecked"
  /\ step = 0
  /\ tool = [n \in Steps |-> "none"]
  /\ trace = <<>>
  /\ saved = {}
  /\ status = "running"
  /\ events = <<>>
  /\ log = <<>>
  /\ held = {}
  /\ tail = "clean"
  /\ warned = {}
  /\ memories = {}
  /\ effects = {}
  /\ late = {}
  /\ queue = FALSE
---------------------------------------------------------------------------
\* Where an exception goes: _build_failed_result, or out of run_typed when
\* nothing catches it.
Unguarded == {"start", "failing", "fail_snapshot"}
Raised == IF pc \in Unguarded THEN "escaped" ELSE "failing"

\* What is left of the file once something is appended to its last line, and
\* with a whole line appended to it: two events on one line are no line.
Unglued == IF tail = "noeol" THEN held \ {i \in held : \A j \in held : j <= i} ELSE held
WithLine == IF tail = "clean" THEN held \cup {Len(log) + 1} ELSE Unglued

\* Mutant: the writer is built without the list of its warnings.
WrittenUnwarned ==
  /\ warned' = warned
  /\ \/ held' = WithLine /\ tail' = "clean"
     \/ Cardinality(warned) < MaxWarnings /\ UNCHANGED <<held, tail>>

\* CompositeEventWriter.write, once the event is in the list: its line is in the
\* file, or the file writer raised before, within or behind the line, which a
\* warning in the list says.
Written ==
  \/ held' = WithLine /\ tail' = "clean" /\ warned' = warned
  \/ /\ Cardinality(warned) < MaxWarnings
     /\ warned' = warned \cup {Len(log) + 1}
     /\ \/ UNCHANGED <<held, tail>>
        \/ held' = Unglued /\ tail' = "partial"
        \/ held' = WithLine /\ tail' \in {"clean", IF tail = "clean" THEN "noeol" ELSE "partial"}

\* `_record_event`: state.events gets the event only if record_event returns.
Record(type, n, next) ==
  \/ /\ log' = Append(log, Event(type, n))
     /\ Written
     /\ \/ events' = Append(events, Event(type, n)) /\ pc' = next
        \/ events' = events /\ pc' = Raised
  \/ /\ UNCHANGED recordVars
     /\ pc' = Raised

Start ==
  /\ pc = "start"
  /\ Record("run_started", 0, "safety")
  /\ UNCHANGED <<stateVars, worldVars>>

AfterSafety == [allow |-> "memory", refuse |-> "refuse", review |-> "review"]

CheckSafety ==
  /\ pc = "safety"
  /\ \E action \in {"allow", "refuse", "review"} :
       safety' = action /\ Record("safety_decision", 0, AfterSafety[action])
  /\ UNCHANGED <<memory, step, tool, trace, saved, status, worldVars>>

\* Mutant: a queue that fails lets the request go on.
QueueReviewOpen ==
  /\ pc = "review"
  /\ \E queued \in BOOLEAN :
       /\ queue' = queued
       /\ Record("safety_review_queued", 0, IF queued THEN "refuse" ELSE "memory")
  /\ UNCHANGED <<stateVars, memories, effects, late>>

\* `_queue_safety_review_if_needed`: a queue that fails is a warning, and the
\* request stays blocked.
QueueReview ==
  /\ pc = "review"
  /\ queue' \in BOOLEAN
  /\ Record("safety_review_queued", 0, "refuse")
  /\ UNCHANGED <<stateVars, memories, effects, late>>

Refuse ==
  /\ pc = "refuse"
  /\ status' = "refused"
  /\ Record("safety_refusal", 0, "complete")
  /\ UNCHANGED <<safety, memory, step, tool, trace, saved, worldVars>>
---------------------------------------------------------------------------
AfterMemory == [skip |-> "route", save |-> "save", clarify |-> "clarify"]

EvaluateMemory ==
  /\ pc = "memory"
  /\ \E decision \in {"skip", "save", "clarify"} :
       memory' = decision /\ Record("memory_decision", 0, AfterMemory[decision])
  /\ UNCHANGED <<safety, step, tool, trace, saved, status, worldVars>>

Clarify ==
  /\ pc = "clarify"
  /\ status' = "clarification"
  /\ Record("memory_clarification", 0, "complete")
  /\ UNCHANGED <<safety, memory, step, tool, trace, saved, worldVars>>

\* Mutant: the memory is announced, and stored only at the end of the run.
SaveMemoryLater ==
  /\ pc = "save"
  /\ saved' = saved \cup {<<identity, 0>>}
  /\ Record("memory_saved", 0, "route")
  /\ UNCHANGED <<safety, memory, step, tool, trace, status, worldVars>>

SaveMemory ==
  /\ pc = "save"
  /\ memories' = memories \cup {<<identity, 0>>}
  /\ saved' = saved \cup {<<identity, 0>>}
  /\ Record("memory_saved", 0, "route")
  /\ UNCHANGED <<safety, memory, step, tool, trace, status, effects, late, queue>>

\* add_long_term_memory raises behind its own update of the store.
SaveRaises ==
  /\ pc = "save"
  /\ memories' = memories \cup {<<identity, 0>>}
  /\ pc' = Raised
  /\ UNCHANGED <<stateVars, recordVars, effects, late, queue>>

\* `_should_skip_planner`: no tool intent in the goal, and something else to
\* answer with (a sensitive statement counts, whatever was saved).
Route ==
  /\ pc = "route"
  /\ \E toolIntent, sensitive \in BOOLEAN :
       LET direct == saved # {} \/ sensitive
       IN  pc' = CASE ~toolIntent /\ (Responder \/ direct) -> "skip"
                   [] OTHER -> IF MaxSteps = 0 THEN "exhausted" ELSE "plan"
  /\ UNCHANGED <<stateVars, recordVars, worldVars>>

SkipPlanner ==
  /\ pc = "skip"
  /\ status' = "completed"
  /\ Record("planner_skipped", 0, "respond")
  /\ UNCHANGED <<safety, memory, step, tool, trace, saved, worldVars>>
---------------------------------------------------------------------------
AfterPlan(t) == IF t # "none" THEN "act" ELSE "respond"

\* One turn of the loop begins: the planner, by itself or through its rule
\* fallback, answers with a tool or a final action.
Plan ==
  /\ pc = "plan"
  /\ step' = step + 1
  /\ \E t \in Tools \cup {"none"} :
       /\ tool' = [tool EXCEPT ![step'] = t]
       /\ status' = IF t = "none" THEN "completed" ELSE status
       /\ \E next \in {"fallback", AfterPlan(t)} : Record("planner_action", step', next)
  /\ UNCHANGED <<safety, memory, trace, saved, worldVars>>

Fallback ==
  /\ pc = "fallback"
  /\ Record("planner_fallback", step, AfterPlan(tool[step]))
  /\ UNCHANGED <<stateVars, worldVars>>

StartTool ==
  /\ pc = "act"
  /\ Record("tool_started", step, "execute")
  /\ UNCHANGED <<stateVars, worldVars>>

\* A tool's effect: memory.add adds to the store's default namespace.
Land(n) ==
  /\ effects' = effects \cup {n}
  /\ memories' = IF tool[n] = "memory.add" THEN memories \cup {<<Default, n>>} ELSE memories

\* `_execute_action` and the trace: whatever is raised is a failed
\* observation.  A tool that is ok had its effect, unless the memory policy
\* turned memory.add down or it is a read; one that failed may have had it, or
\* have it later.  `_collect_memory_add_result` picks up what was added.
Execute ==
  /\ pc = "execute"
  /\ \E ok \in BOOLEAN : trace' = Append(trace, ok)
  /\ \/ Land(step) /\ late' = late
     \/ UNCHANGED <<effects, memories, late>>
     \/ ~Last(trace') /\ late' = late \cup {step} /\ UNCHANGED <<effects, memories>>
  /\ saved' = IF Last(trace') /\ tool[step] = "memory.add"
                THEN saved \cup (memories' \cap {<<Default, step>>})
                ELSE saved
  /\ pc' = "observe"
  /\ UNCHANGED <<safety, memory, step, tool, status, recordVars, queue>>

\* Mutant: the loop stops one step short.
ObserveShort ==
  /\ pc = "observe"
  /\ Record("tool_observation", step, IF step + 1 < MaxSteps THEN "plan" ELSE "exhausted")
  /\ UNCHANGED <<stateVars, worldVars>>

\* Mutant: the loop goes one step over.
ObserveLong ==
  /\ pc = "observe"
  /\ Record("tool_observation", step, IF step <= MaxSteps THEN "plan" ELSE "exhausted")
  /\ UNCHANGED <<stateVars, worldVars>>

Observe ==
  /\ pc = "observe"
  /\ Record("tool_observation", step, IF step < MaxSteps THEN "plan" ELSE "exhausted")
  /\ UNCHANGED <<stateVars, worldVars>>

LateEffect ==
  /\ \E n \in late : Land(n) /\ late' = late \ {n}
  /\ UNCHANGED <<pc, stateVars, recordVars, queue>>

Exhausted ==
  /\ pc = "exhausted"
  /\ status' = "incomplete"
  /\ pc' = "respond"
  /\ UNCHANGED <<safety, memory, step, tool, trace, saved, recordVars, worldVars>>
---------------------------------------------------------------------------
Respond ==
  /\ pc = "respond"
  /\ Record("response_decision", step, "complete")
  /\ UNCHANGED <<stateVars, worldVars>>

\* Mutant: the result waits for the tools that timed out.
CompleteJoined ==
  /\ pc = "complete"
  /\ late = {}
  /\ Record("run_completed", step, "snapshot")
  /\ UNCHANGED <<stateVars, worldVars>>

\* `_build_result` records the verdict, then takes the snapshot it returns.
Complete ==
  /\ pc = "complete"
  /\ Record("run_completed", step, "snapshot")
  /\ UNCHANGED <<stateVars, worldVars>>

\* Mutant: the failure is returned as it is, and not recorded.
FailSilently ==
  /\ pc = "failing"
  /\ status' = "failed"
  /\ pc' = "fail_snapshot"
  /\ UNCHANGED <<safety, memory, step, tool, trace, saved, recordVars, worldVars>>

\* `_build_failed_result`.
Fail ==
  /\ pc = "failing"
  /\ status' = "failed"
  /\ Record("run_failed", step, "fail_snapshot")
  /\ UNCHANGED <<safety, memory, step, tool, trace, saved, worldVars>>

Return ==
  /\ pc \in {"snapshot", "fail_snapshot"}
  /\ pc' = "returned"
  /\ UNCHANGED <<stateVars, recordVars, worldVars>>

\* A policy, the planner, the response policy or a memory snapshot (which
\* archives what expired, and saves) raises before the step's event.
DependencyRaises ==
  /\ pc \in {"safety", "refuse", "memory", "clarify", "save", "skip", "plan", "respond",
             "snapshot", "fail_snapshot"}
  /\ step' = IF pc = "plan" THEN step + 1 ELSE step
  /\ pc' = Raised
  /\ UNCHANGED <<safety, memory, tool, trace, saved, status, recordVars, worldVars>>

Crash ==
  /\ pc \in Doing
  /\ pc' = "crashed"
  /\ late' = {}
  /\ UNCHANGED <<stateVars, recordVars, memories, effects, queue>>

RunStep ==
  \/ Start
  \/ CheckSafety
  \/ QueueReview
  \/ Refuse
  \/ EvaluateMemory
  \/ Clarify
  \/ SaveMemory
  \/ SaveRaises
  \/ Route
  \/ SkipPlanner
  \/ Plan
  \/ Fallback
  \/ StartTool
  \/ Execute
  \/ Observe
  \/ Exhausted
  \/ Respond
  \/ Complete
  \/ Fail
  \/ Return
  \/ DependencyRaises

Next == (RunStep \/ LateEffect \/ Crash) /\ UNCHANGED identity

\* run_typed runs in its caller's thread; each call it makes comes back (tools
\* by their timeout, LLM clients by their request timeout).
Spec == Init /\ [][Next]_vars /\ WF_vars(RunStep /\ UNCHANGED identity)
---------------------------------------------------------------------------
InLog(type, n) == Contains(log, Event(type, n))

\* What the file has of the log: all but the events whose writing failed, or
\* that were appended to what the failure before them left, as the warnings say.
InFile(i) == i \in held \/ {i - 1, i} \cap warned # {}
Logged(type, n) == \E i \in DOMAIN log : log[i] = Event(type, n) /\ InFile(i)

\* A run that safety stops, for good or for review, or that has to ask about a
\* memory, saves nothing and runs no tool, however its queue and its events
\* fare.
StoppedRunsActOnNothing ==
  (safety \in {"refuse", "review"} \/ memory = "clarify") =>
    memories = {} /\ saved = {} /\ effects = {} /\ late = {} /\ trace = <<>>

\* The log accounts for the tools: no tool acts, now or late, before its
\* tool_started is in the log, and the loop goes on from a step, or answers,
\* only once its tool_observation is too.  Both are in the event file as well,
\* or a warning at them, or at the event before, says that they may not be.
ToolsAreLogged ==
  /\ \A n \in Steps : (n \in effects \cup late \/ n <= Len(trace)) => Logged("tool_started", n)
  /\ \A n \in 1..Len(trace) :
       (n < Len(trace) \/ status \in {"completed", "incomplete"}) => Logged("tool_observation", n)

\* The log ends with the verdict the caller is given, and a run that did not
\* fail has all its events in the log and no other verdict.  The file has every
\* event of the log, the verdict too, unless a warning says that it may not.
VerdictIsLogged ==
  pc = "returned" =>
    /\ IF status = "failed"
         THEN Last(log).type = "run_failed"
         ELSE Last(log).type = "run_completed" /\ events = log
    /\ \A i \in DOMAIN log : InFile(i)

\* What the run announces as saved is in the store, and what it put there was
\* asked for: by the memory policy, or by a memory.add in the log, which the
\* file has too or a warning says that it may not.
SavedMemoriesExist ==
  /\ saved \subseteq memories
  /\ InLog("memory_saved", 0) => <<identity, 0>> \in memories
  /\ \A m \in memories :
       IF m[2] = 0 THEN memory = "save"
       ELSE tool[m[2]] = "memory.add" /\ Logged("tool_started", m[2])

\* "incomplete" means max_steps tools and no final action.
IncompleteIsExhausted ==
  status = "incomplete" => Len(trace) = MaxSteps /\ \A n \in Steps : tool[n] # "none"

\* Every run ends, whatever its abandoned tools do.
EveryRunEnds == <>(pc \in Over)

\* What `_build_failed_result` says of itself: a failure leaves at least a
\* run_failed event, and comes back as a result.
FailuresAreReported ==
  (status = "failed" /\ pc \in {"returned", "escaped"}) =>
    pc = "returned" /\ \E n \in 0..MaxSteps : InLog("run_failed", n)

\* What the docs say of memory namespaces: a run saves under its identity.
MemoriesAreTheIdentitys == \A m \in memories : m[1] = identity
===========================================================================
