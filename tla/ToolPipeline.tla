--------------------------- MODULE ToolPipeline ---------------------------
(***************************************************************************)
(* MiddlewarePipeline.execute_tool with the default middlewares            *)
(* (agentic_core/tools/middleware.py): governance, cost accounting and     *)
(* output safety around a tool, with idempotency, timeouts and retries.    *)
(*                                                                         *)
(* Every call runs in a process (or thread) of its own; calls share the    *)
(* budget store, the idempotency store and the span sink, whose operations *)
(* are atomic (one thread, flock or SQLite: see JsonBudgetStore).  Each    *)
(* attempt runs the tool in a background thread that a timeout abandons    *)
(* but cannot stop, so its effect may land at any later time.              *)
(***************************************************************************)
EXTENDS Integers, FiniteSets, FiniteSetsExt

CONSTANTS
  Calls,      \* execute_tool invocations
  Keys,       \* budget keys: one per tenant and run
  IdemKeys,   \* idempotency keys: run, step, tool, input, version, user, tenant
  BudgetKey,  \* call -> budget key
  IdemKey,    \* call -> idempotency key
  Tool,       \* call -> ToolSpec, see ToolSpecs
  Allowed,    \* call -> permission scopes its policy or identity allows
  Policy,     \* [denied, risks, effects]: ToolGovernancePolicy
  MaxCost,    \* max_cost_units_per_run, or Unlimited
  Unlimited,
  NoResult    \* no Observation

ToolSpecs ==
  [scope : STRING, approval : BOOLEAN, risk : STRING, effect : {"read", "write"},
   cost : Nat, retries : Nat]

ASSUME PipelineAssumption ==
  /\ BudgetKey \in [Calls -> Keys]
  /\ IdemKey \in [Calls -> IdemKeys]
  /\ Tool \in [Calls -> ToolSpecs]
  /\ MaxCost \in Nat \cup {Unlimited}
  /\ Unlimited \notin Nat

\* What may carry something SENSITIVE_PATTERN matches in an observation: a
\* string, by its own text or by the path to it; or anything else of a tool's
\* output, a key of a dict or a number below such a key.
Carriers == {"string", "other"}
Observations == [ok : BOOLEAN, sensitive : SUBSET Carriers]

ASSUME NoResultAssumption == NoResult \notin Observations

VARIABLES
  approved,   \* calls whose context carries approved = True (never changes)
  used,       \* budget store: units used, per budget key
  decision,   \* ToolBudgetDecision of each call (context.metadata)
  cache,      \* idempotency store: Observation or NoResult, per key
  spans,      \* span sink: calls with a span, and the status it says
  pc,         \* where execute_tool is, per call
  attempt,    \* attempts started, per call
  thread,     \* background thread of each attempt
  landed,     \* attempts whose tool effect has happened
  obs         \* the call's observation so far

budgetVars == <<used, decision>>
toolVars == <<thread, landed>>
vars == <<approved, used, decision, cache, spans, pc, attempt, thread, landed, obs>>

Cost == [c \in Calls |-> Tool[c].cost]

Budget == INSTANCE ToolBudget
  WITH Requests <- Calls, KeyOf <- BudgetKey, CostOf <- Cost
---------------------------------------------------------------------------
Writes(c) == Tool[c].effect = "write"

\* `attempts = max(1, retry_count + 1)`; retry_count is never negative.
Attempts(c) == Tool[c].retries + 1

\* `_approval_reason`.
NeedsApproval(c) ==
  \/ Tool[c].approval
  \/ Tool[c].risk \in Policy.risks
  \/ Tool[c].effect \in Policy.effects

\* The attempts a call may make, each a run of its tool.
RunsOf(c) == {c} \X (1..Attempts(c))
Runs == UNION {RunsOf(c) : c \in Calls}

Threads == {"none", "queued", "running", "returned", "raised", "cancelled", "killed"}

Steps == {"start", "lookup", "attempt", "waiting", "store", "trace",
          "returned", "raised", "crashed"}

Over == {"returned", "raised", "crashed"}

TypeOK ==
  /\ approved \subseteq Calls
  /\ used \in [Keys -> Nat]
  /\ decision \in [Calls -> Budget!Decisions]
  /\ cache \in [IdemKeys -> Observations \cup {NoResult}]
  /\ spans \in SUBSET (Calls \X {"ok", "error"})
  /\ pc \in [Calls -> Steps]
  /\ attempt \in [Calls -> Nat]
  /\ \A c \in Calls : attempt[c] <= Attempts(c)
  /\ thread \in [Runs -> Threads]
  /\ landed \subseteq Runs
  /\ obs \in [Calls -> Observations \cup {NoResult}]

Init ==
  /\ approved \in SUBSET {c \in Calls : NeedsApproval(c)}
  /\ used = [k \in Keys |-> 0]
  /\ decision = [c \in Calls |-> "pending"]
  /\ cache = [k \in IdemKeys |-> NoResult]
  /\ spans = {}
  /\ pc = [c \in Calls |-> "start"]
  /\ attempt = [c \in Calls |-> 0]
  /\ thread = [r \in Runs |-> "none"]
  /\ landed = {}
  /\ obs = [c \in Calls |-> NoResult]

Goto(c, step) == pc' = [pc EXCEPT ![c] = step]
---------------------------------------------------------------------------
\* before_tool: ToolGovernanceMiddleware, the only middleware that refuses.

\* `_permission_denial`: a denied scope first, then the allowed ones.
Permitted(c) ==
  /\ Tool[c].scope \notin Policy.denied
  /\ Tool[c].scope \in Allowed[c]

Governed(c) == Permitted(c) /\ (NeedsApproval(c) => c \in approved)

\* ToolOutputSafetyMiddleware.after_tool, the only middleware that rewrites:
\* "[REDACTED]" takes the place of sensitive strings, the error's and those in
\* dicts, lists and tuples; keys and values of other types stay.
AfterTool(o) == [o EXCEPT !.sensitive = @ \ {"string"}]

\* A failure the pipeline words itself.
Failed == [ok |-> FALSE, sensitive |-> {}]

\* Denied scope or missing approval: short-circuited before the budget.
Reject(c) ==
  /\ pc[c] = "start"
  /\ ~Governed(c)
  /\ obs' = [obs EXCEPT ![c] = AfterTool(Failed)]
  /\ Goto(c, "trace")
  /\ UNCHANGED <<budgetVars, cache, spans, attempt, toolVars>>

AfterGovernance(c) == IF Writes(c) THEN "lookup" ELSE "attempt"

\* No limit: `_budget_denial` does not touch the store.
AdmitUnlimited(c) ==
  /\ pc[c] = "start"
  /\ Governed(c)
  /\ MaxCost = Unlimited
  /\ Goto(c, AfterGovernance(c))
  /\ UNCHANGED <<budgetVars, cache, spans, attempt, toolVars, obs>>

\* Mutant: the budget is reserved before permission and approval are checked.
AdmitFirst(c) ==
  /\ pc[c] = "start"
  /\ MaxCost # Unlimited
  /\ Budget!Allow(c)
  /\ Goto(c, AfterGovernance(c))
  /\ UNCHANGED <<cache, spans, attempt, toolVars, obs>>

\* Mutant: the decision is taken and the charge is not stored.
AdmitUncharged(c) ==
  /\ pc[c] = "start"
  /\ Governed(c)
  /\ MaxCost # Unlimited
  /\ decision[c] = "pending" /\ Budget!Fits(used, c)
  /\ decision' = [decision EXCEPT ![c] = "allowed"]
  /\ Goto(c, AfterGovernance(c))
  /\ UNCHANGED <<used, cache, spans, attempt, toolVars, obs>>

Admit(c) ==
  /\ pc[c] = "start"
  /\ Governed(c)
  /\ MaxCost # Unlimited
  /\ Budget!Allow(c)
  /\ Goto(c, AfterGovernance(c))
  /\ UNCHANGED <<cache, spans, attempt, toolVars, obs>>

RejectOverBudget(c) ==
  /\ pc[c] = "start"
  /\ Governed(c)
  /\ MaxCost # Unlimited
  /\ Budget!Refuse(c)
  /\ obs' = [obs EXCEPT ![c] = AfterTool(Failed)]
  /\ Goto(c, "trace")
  /\ UNCHANGED <<cache, spans, attempt, toolVars>>
---------------------------------------------------------------------------
\* Mutant: a hit only fills in the observation, and the tool still runs.
LookupHitRuns(c) ==
  /\ pc[c] = "lookup"
  /\ cache[IdemKey[c]] # NoResult
  /\ obs' = [obs EXCEPT ![c] = AfterTool(cache[IdemKey[c]])]
  /\ Goto(c, "attempt")
  /\ UNCHANGED <<budgetVars, cache, spans, attempt, toolVars>>

\* A stored result answers the call: the tool does not run.
LookupHit(c) ==
  /\ pc[c] = "lookup"
  /\ cache[IdemKey[c]] # NoResult
  /\ obs' = [obs EXCEPT ![c] = AfterTool(cache[IdemKey[c]])]
  /\ Goto(c, "trace")
  /\ UNCHANGED <<budgetVars, cache, spans, attempt, toolVars>>

LookupMiss(c) ==
  /\ pc[c] = "lookup"
  /\ cache[IdemKey[c]] = NoResult
  /\ Goto(c, "attempt")
  /\ UNCHANGED <<budgetVars, cache, spans, attempt, toolVars, obs>>

\* The next turn of the retry loop hands the tool to a fresh executor.
Submit(c) ==
  /\ pc[c] = "attempt"
  /\ attempt' = [attempt EXCEPT ![c] = @ + 1]
  /\ thread' = [thread EXCEPT ![<<c, attempt[c] + 1>>] = "queued"]
  /\ Goto(c, "waiting")
  /\ UNCHANGED <<budgetVars, cache, spans, landed, obs>>

\* Mutant: the loop counts its attempts from zero.
EndAttemptLate(c, o) ==
  LET last == o.ok \/ attempt[c] > Attempts(c) IN
  /\ obs' = [obs EXCEPT ![c] = IF last THEN AfterTool(o) ELSE o]
  /\ Goto(c, CASE ~last -> "attempt"
               [] last /\ o.ok /\ Writes(c) -> "store"
               [] OTHER -> "trace")

\* Mutant: failures are stored too.
EndAttemptStoresAll(c, o) ==
  LET last == o.ok \/ attempt[c] = Attempts(c) IN
  /\ obs' = [obs EXCEPT ![c] = IF last THEN AfterTool(o) ELSE o]
  /\ Goto(c, CASE ~last -> "attempt"
               [] last /\ Writes(c) -> "store"
               [] OTHER -> "trace")

\* End of one turn of the loop with observation o: retry a failure while
\* attempts are left; otherwise after_tool, then the store for a write that
\* succeeded.
EndAttempt(c, o) ==
  LET last == o.ok \/ attempt[c] = Attempts(c) IN
  /\ obs' = [obs EXCEPT ![c] = IF last THEN AfterTool(o) ELSE o]
  /\ Goto(c, CASE ~last -> "attempt"
               [] last /\ o.ok /\ Writes(c) -> "store"
               [] OTHER -> "trace")

\* The run the caller is waiting for.
Mine(c) == <<c, attempt[c]>>

\* What a tool that is done may have answered: any output, or the string of
\* an exception.
Answers(r) ==
  {o \in Observations : /\ o.ok <=> thread[r] = "returned"
                        /\ o.ok \/ o.sensitive \subseteq {"string"}}

\* future.result() finds the tool finished.
Collect(c) ==
  /\ pc[c] = "waiting"
  /\ thread[Mine(c)] \in {"returned", "raised"}
  /\ \E o \in Answers(Mine(c)) : EndAttempt(c, o)
  /\ UNCHANGED <<budgetVars, cache, spans, attempt, toolVars>>

\* Mutant: a timeout is taken for an answer.
TimeoutAnswers(c) ==
  /\ pc[c] = "waiting"
  /\ thread[Mine(c)] \in {"queued", "running"}
  /\ thread' = [thread EXCEPT ![Mine(c)] =
                  IF @ = "queued" THEN "cancelled" ELSE @]
  /\ EndAttempt(c, [ok |-> TRUE, sensitive |-> {}])
  /\ UNCHANGED <<budgetVars, cache, spans, attempt, landed>>

\* Mutant: leaving the executor waits for the tool that timed out.
TimeoutJoins(c) ==
  /\ pc[c] = "waiting"
  /\ thread[Mine(c)] = "queued"
  /\ thread' = [thread EXCEPT ![Mine(c)] = "cancelled"]
  /\ EndAttempt(c, Failed)
  /\ UNCHANGED <<budgetVars, cache, spans, attempt, landed>>

\* future.result() times out: cancel() stops a tool that has not begun, and
\* leaves one that runs to go on in the background.
Timeout(c) ==
  /\ pc[c] = "waiting"
  /\ thread[Mine(c)] \in {"queued", "running"}
  /\ thread' = [thread EXCEPT ![Mine(c)] =
                  IF @ = "queued" THEN "cancelled" ELSE @]
  /\ EndAttempt(c, Failed)
  /\ UNCHANGED <<budgetVars, cache, spans, attempt, landed>>
---------------------------------------------------------------------------
\* The background thread of run r.

SetThread(r, state) == thread' = [thread EXCEPT ![r] = state]

ToolBegins(r) ==
  /\ thread[r] = "queued"
  /\ SetThread(r, "running")
  /\ UNCHANGED <<budgetVars, cache, spans, pc, attempt, landed, obs>>

\* A write tool changes what it writes, maybe long before it returns.
ToolEffect(r) ==
  /\ thread[r] = "running"
  /\ Writes(r[1])
  /\ r \notin landed
  /\ landed' = landed \cup {r}
  /\ UNCHANGED <<budgetVars, cache, spans, pc, attempt, thread, obs>>

ToolReturns(r) ==
  /\ thread[r] = "running"
  /\ Writes(r[1]) => r \in landed
  /\ SetThread(r, "returned")
  /\ UNCHANGED <<budgetVars, cache, spans, pc, attempt, landed, obs>>

\* It may raise before its effect or after (a save that fails).
ToolRaises(r) ==
  /\ thread[r] = "running"
  /\ SetThread(r, "raised")
  /\ UNCHANGED <<budgetVars, cache, spans, pc, attempt, landed, obs>>
---------------------------------------------------------------------------
\* Mutant: the result is stored before the output is made safe.
StoreRaw(c) ==
  /\ pc[c] = "store"
  /\ \E o \in Answers(Mine(c)) : cache' = [cache EXCEPT ![IdemKey[c]] = o]
  /\ Goto(c, "trace")
  /\ UNCHANGED <<budgetVars, spans, attempt, toolVars, obs>>

\* idempotency_store.put; the last put for a key wins.
Store(c) ==
  /\ pc[c] = "store"
  /\ cache' = [cache EXCEPT ![IdemKey[c]] = obs[c]]
  /\ Goto(c, "trace")
  /\ UNCHANGED <<budgetVars, spans, attempt, toolVars, obs>>

\* `_record_tool_span`: a sink that raises is noted in the metadata, and the
\* call returns its observation all the same.
Trace(c) ==
  /\ pc[c] = "trace"
  /\ spans' \in {spans, spans \cup {<<c, IF obs[c].ok THEN "ok" ELSE "error">>}}
  /\ Goto(c, "returned")
  /\ UNCHANGED <<budgetVars, cache, attempt, toolVars, obs>>

\* The budget or idempotency store raises (locked database, full disk): the
\* exception leaves execute_tool, and Agent._execute_action turns it into a
\* failed observation, whatever the tool did.
StoreRaises(c) ==
  /\ \/ pc[c] \in {"lookup", "store"}
     \/ pc[c] = "start" /\ Governed(c) /\ MaxCost # Unlimited
  /\ obs' = [obs EXCEPT ![c] = Failed]
  /\ Goto(c, "raised")
  /\ UNCHANGED <<budgetVars, cache, spans, attempt, toolVars>>

\* The process of the call dies, and its background threads with it.
Crash(c) ==
  /\ pc[c] \notin Over
  /\ thread' = [r \in Runs |->
                  IF r[1] = c /\ thread[r] \in {"queued", "running"}
                    THEN "killed" ELSE thread[r]]
  /\ Goto(c, "crashed")
  /\ UNCHANGED <<budgetVars, cache, spans, attempt, landed, obs>>

Pipeline(c) ==
  \/ Reject(c)
  \/ AdmitUnlimited(c)
  \/ Admit(c)
  \/ RejectOverBudget(c)
  \/ LookupHit(c)
  \/ LookupMiss(c)
  \/ Submit(c)
  \/ Collect(c)
  \/ Timeout(c)
  \/ Store(c)
  \/ Trace(c)
  \/ StoreRaises(c)

Background(r) ==
  \/ ToolBegins(r)
  \/ ToolEffect(r)
  \/ ToolReturns(r)
  \/ ToolRaises(r)

Finished ==
  /\ \A c \in Calls : pc[c] \in Over
  /\ UNCHANGED vars

Next ==
  \/ /\ \/ \E c \in Calls : Pipeline(c) \/ Crash(c)
        \/ \E r \in Runs : Background(r)
     /\ UNCHANGED approved
  \/ Finished

\* The caller's thread is scheduled and its clock runs.  Nothing is assumed of
\* a tool: it may hang for ever.
Fairness == \A c \in Calls : WF_vars(Pipeline(c) /\ UNCHANGED approved)

Spec == Init /\ [][Next]_vars /\ Fairness
---------------------------------------------------------------------------
Began(r) == thread[r] \notin {"none", "queued", "cancelled"}
Ran(c) == \E r \in RunsOf(c) : Began(r)

\* No tool runs, now or late in the background, for a call whose scope, missing
\* approval or exhausted budget refuses it.
OnlyGovernedCallsRun ==
  \A c \in Calls : Ran(c) =>
    /\ Governed(c)
    /\ MaxCost # Unlimited => decision[c] = "allowed"

\* Under a limit, the tools that have run for a budget key, crashed and late
\* ones included, are paid for within it.
RunsArePaidFor ==
  MaxCost # Unlimited =>
    \A k \in Keys :
      /\ MapThenSumSet(LAMBDA c : Cost[c],
                       {c \in Calls : BudgetKey[c] = k /\ Ran(c)}) <= used[k]
      /\ used[k] <= MaxCost

\* A stored result is a success that happened: a call with that key ran the
\* tool to its end with its effect.  Timeouts and failures are never stored.
CachedResultHappened ==
  \A k \in IdemKeys : cache[k] # NoResult =>
    /\ cache[k].ok
    /\ \E r \in landed : IdemKey[r[1]] = k /\ thread[r] = "returned"

\* No sensitive string leaves the pipeline, by any path: not to the caller, nor
\* into the idempotency store, from which later calls are answered.
NoSensitiveStringLeaves ==
  /\ \A k \in IdemKeys : cache[k] # NoResult => "string" \notin cache[k].sensitive
  /\ \A c \in Calls : pc[c] \in {"store", "trace", "returned"} =>
       "string" \notin obs[c].sensitive

\* Nothing sensitive at all reaches the caller, as the docstring of
\* ToolOutputSafetyMiddleware has it.
NothingSensitiveLeaves ==
  \A c \in Calls : pc[c] = "returned" => obs[c].sensitive = {}

\* An "ok" answer to a write is backed by an effect: its own attempt's, or, on
\* a hit, that of another call with the same key, its own tool never started.
OkAnswerIsBacked ==
  \A c \in Calls : (pc[c] = "returned" /\ obs[c].ok /\ Writes(c)) =>
    IF attempt[c] = 0
      THEN ~Ran(c) /\ \E r \in landed : IdemKey[r[1]] = IdemKey[c]
      ELSE Mine(c) \in landed /\ thread[Mine(c)] = "returned"

\* Once a result is stored, a call with its key that has not begun never runs
\* the tool.
StoredKeyNeverReruns ==
  \A c \in Calls :
    [](cache[IdemKey[c]] # NoResult /\ pc[c] = "start" => [](landed \cap RunsOf(c) = {}))

\* A tool that never returns cannot hold its caller: every call is over in the
\* end, with an answer unless its process or a store failed.
EveryCallEnds == \A c \in Calls : <>(pc[c] \in Over)
===========================================================================
