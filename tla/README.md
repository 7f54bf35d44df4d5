# Verification of agentic-core-lab

TLA+ models of the parts of `agentic_core` and `evalops` in which order, failure
and sharing matter, the TLC runs that check them, and TLAPS proofs of what they
promise.
The definitions are translated from the Python source under `agentic_core/` and
`evalops/`; `PROJECT.json` maps each of them to its lines.

    tlc -workers 2 -config MCAgentRun.cfg MCAgentRun      # any run: its cfg, its MC module
    tlapm AgentRunProofs.tla                              # any *Proofs module

## 1. The system

`Agent.run_typed` answers one goal. It asks the safety policy, then the memory
policy, then loops: the planner proposes a tool, the tool pipeline executes it,
the observation goes into the trace; then the response policy answers. Every
decision is an event, written through the memory store to an event writer.
Around it stand the stores the agent and its tools share with other threads and
processes, and offline programs that read what runs leave behind.

| component (source) | state it keeps | operations | what is hard | what makes it correct |
|---|---|---|---|---|
| tool pipeline (`tools/middleware.py`) | per call: attempt, observation, background threads | `execute_tool`: governance, budget, idempotency lookup, attempts with timeout and retry, output safety, put, span | a timed-out tool runs on; two calls with one key; any store raises | no tool without governance and payment; stored and ok answers happened; no sensitive string leaves; nobody waits for a hanging tool |
| budget stores (same file) | units per tenant and run: dict, JSON file, SQLite | `reserve` | several processes on one file and one `.tmp`; death between write and rename | no charge lost, limit never passed, file never torn, no stuck lock |
| idempotency stores (same file) | observation per key | `get`, `put` | JSON version has no lock | as a map |
| span sinks (same file) | list, file, OTLP | `record` | a sink that raises | must not change the call's answer |
| agent run (`runtime/agent.py`) | `AgentState`: step, trace, events, saved memories, status | the stages of `run_typed`; failure and result builders | any dependency, and recording itself, may raise at any stage | gates hold; the log accounts for tools and verdict, the file too unless a warning says otherwise; the run ends |
| tool registry (`tools/registry.py`) | handlers and metadata | `execute`, `memory.add`, notes, todos | tools write on behalf of a run | carry the identity of the run |
| memory store and lifecycle (`memory/store.py`, `lifecycle.py`, `embedding.py`) | records with status, expiry, importance, history of merges | add (restate, merge, create), snapshot, archive, expire, prune, touch | long sequences; expiry only happens when something lists | one active memory per topic, nothing lost, nothing stale or foreign shown |
| JSON memory file (`memory/store.py:432-567`) | one file, loaded once per object | `load`, `save` after each write | processes, server threads and abandoned tools save through one `.tmp` | crash-safe for one owner that updates it one at a time; torn or lost updates otherwise |
| memory admin and review API (`memory/admin.py`, `server.py`) | none: a store per request | archive, importance, conflicts | concurrent requests over one file; expired rivals | a namespace never touches another |
| event log (`observability/`) | file, backups, SQLite rows | append, rotate, read | crash while rotating, torn append, unlocked readers, run ids in milliseconds | order; at most the oldest is lost; the size of a file |
| safety policy and review queue (`policies/safety.py`, `safety_review.py`) | queue file | decide, enqueue | the queue fails | a held request stays held |
| memory, planner, response policies (`policies/`, `tools/summary.py`) | none | one decision each, with LLM and rule fallback | they may raise; model and rules take turns within one run | the agent copes with any outcome; no secret is saved; the reply owns up to what was not done |
| identity (`runtime/context.py`) | user, tenant, scopes | from environment | an unset variable | the default does not restrict |
| LLM client (`llm/`), CLI and chat | none | HTTP; assembly | | |
| eval review and governance server (`evalops/review*.py`, `governance/`) | decision store (SQLite), golden file, audit file, tenant policy file | authorise, apply, status, agreement, paging | request threads; decisions, golden file and audit are written separately, the file in place; tokens expire and the policy changes meanwhile | only reviewers decide; golden approvals are stored decisions; what was acknowledged stays on show |
| eval harness, judges, gates (`evalops/harness.py`, ...) | report history | check, judge, calibrate, aggregate, gate, compare | reads the golden file twice; labels against verdicts; rates and defaults at their edges | a gate that passes means its cases passed; no regression slips between reports |
| datasets, sampling, replay, dashboard (`evalops/`) | none | draft a case, replay a run, queue cases | the log of a run that failed halfway | they tell what the caller of the run was told |
| JavaScript v0 (`src/`) | in memory | | | superseded |

How they interact: the agent calls policies and planner synchronously; the
registry calls the pipeline, which runs each attempt in a `ThreadPoolExecutor`
thread; budget, idempotency, memory and event stores are shared by the agent,
those threads, other processes on the same files, and the review servers'
request threads. Nothing is a message: the hazards are interleavings on shared
stores, abandoned threads, exceptions between two effects, and process death.
`PROJECT.json` lists them at their lines, with the properties that watch them.

## 2. The modules

| module | models | is used by |
|---|---|---|
| `ToolBudget` | what any budget store promises: `reserve` as one step (abstract) | instantiated by the next two |
| `JsonBudgetStore` | the locked JSON budget file, step by step, per process | |
| `ToolPipeline` | `execute_tool` of several concurrent calls | over `ToolBudget` |
| `JsonFile` | the other rewritten JSON documents: tool results under a lock, the memory file under none | |
| `AgentRun` | one `run_typed`, with its log and its memories | |
| `EvalDataset` | eval drafts and replays made from the log of an `AgentRun` | extends `AgentRun` and `EvalCases` |
| `SafetyPolicy`, `MemoryPolicy`, `ToolCatalog` | the request policies, the registered tools and the identity, as operators | |
| `Planning` | both planners, the trace summary and the response tiers, as operators | |
| `PlannedRun` | the loop of `run_typed` with these planners and this reply | extends `Planning` |
| `MemoryStore` | long-term memory and its review operations | |
| `EventLog` | the JSONL event log: writers, rotation, readers | |
| `EvalAccess` | tokens, scopes, tenant policy and routes of the eval server | |
| `EvalCases`, `EvalGates` | eval cases, judges, metrics, gate, comparison, history, sampling, as operators | |
| `EvalReview` | what a review makes of a dataset, and what several decisions say together | extends `EvalCases` |
| `EvalServer` | the eval server's request threads over store, golden file and audit, and the harness that reads the file | extends `EvalAccess` and `EvalReview` |
| `MC*` | instances for TLC; `MCEvalGates`, `MCEvalServer` and `MCPlannedRun` also evaluate named assumptions about the operators over small inputs | |
| `*Proofs` | theorems about the module they are named after (`PoliciesProofs`: the policies and `PlannedRun`; `EvalProofs`: `EvalServer`, `EvalCases`, `EvalGates`) | |

### ToolBudget and JsonBudgetStore

`used` is the map of units per budget key. `Allow` and `Refuse` are the two
outcomes of `reserve`; this is what `InMemoryToolBudgetStore` does in one thread
and `SQLiteToolBudgetStore` between `BEGIN IMMEDIATE` and `COMMIT`.

In `JsonBudgetStore` each request is a process: `Acquire` is the blocking
`flock`, `Load` reads the file and decides (a missing file and one that is not
JSON read as no charges at all, `_load`), `OpenTmp` and `FlushTmp` are the two
halves of `write_text`, `Replace` the rename, `Unlock` the `finally`.
`WriteFails` and `Crash` may happen at every step at which the code may raise or
the process die; a crash frees the flock, as the kernel does. `ImplementsBudget`
maps the file to `used` through `Loaded`.

### ToolPipeline

Each call moves `start` → (governance, budget) → `lookup` for a write →
`attempt` → `waiting` → (`attempt` again) → `store` for a write that succeeded →
`trace` → `returned`. `Reject`, `RejectOverBudget`, `LookupHit` leave early;
`StoreRaises` leaves by exception. `EndAttempt` is the end of a turn of the
retry loop and includes `after_tool`. `thread` holds the background thread of
every attempt: `Timeout` cancels one that is still queued and abandons one that
runs, after which `ToolEffect`, `ToolReturns` and `ToolRaises` may still happen.
An observation carries whether it is ok and in what it holds sensitive text
(`Carriers`): in a string, or in something else, which is a key of a dict or a
number. `AfterTool` is `_redact_sensitive_value`, which cleans the strings, also
those inside dicts, lists and tuples, and leaves keys and other scalars as they
are. So the property is `NoSensitiveStringLeaves`; the instance
`MCToolPipelineOutput` shows that more than strings can leave. The budget store
is a `ToolBudget`, one step per `reserve`; that the locked file is one is the
refinement of `JsonBudgetStore`. The idempotency store is an atomic map, which
the memory and SQLite stores are, and the JSON one by its lock (`JsonFile`).
`MCDefaultScopes` is the pipeline with the
tools, the policy and the identity the command line gives it when no environment
variable is set (`ToolCatalog`).

### JsonFile

A document is the set of updates it holds, whatever they are. `kind` chooses
between the two protocols: "results" (`JsonFileIdempotencyStore`) takes `flock`
around load, change and save, "memory" (`JsonMemoryStore`) takes nothing. Savers
are threads of processes. An agent's process loads the memory once into an object
(`kept`) that all its threads change: its runs, and the workers of `memory.add`,
`note.add` and `todo.add` that `_execute_with_timeout` has stopped waiting for.
`Change` and `Dump` are two steps, because a thread may change the object between
another's change and its `json.dumps`. Every request to the review server loads a
document of its own (`Load`). All write `<name>.tmp` and rename it; what a saver has
open keeps being written whatever its name is by then (`opened`, `Renamed`), and a
document written over a longer one leaves its end (`Torn`). `Fails` may come at
every step of an update, `Crash` at any time; it ends all threads of its process.

`sharers` is who uses the document, `order` how: "lone" while no two updates have
overlapped, "overlapped" once some have, and "lost" when the process then dies.
`ExclusiveFileIsSafe` is about documents under the lock, and documents of one
process whose updates are "lone". An agent whose abandoned thread saves beside the
run has no such document, until it makes one more update by itself: its object
has everything, so that save puts the file right (`Replace`). Between the two the file
may be no JSON, which `OneProcessFileIsWhole` refutes and the next start of the
agent trips over.

### AgentRun

`pc` is the next stage. An action is the code up to and including its
`record_event`. `Record` has the ways that call can go. It raises before the
event is anywhere; or the event is in the list of the memory store (`log`), and
then `Written` is what `CompositeEventWriter` makes of the file: the line is there,
or the file writer raised, which becomes a warning (`warned`) and is not raised
again, with the line missing, torn, or complete but for its newline. Then the
call returns, or raises all the same (`JsonMemoryStore.record_event` saves after
that). `held` is what the file's reader gets back of the log, `tail` how the file ends: what is
appended to a piece of a line is lost with it (`Unglued`, `WithLine`). Other
processes' lines and rotations are left to `EventLog`. An agent without an
event file has the list only, which is the case `held = DOMAIN log`.
`Raised` sends an exception to `_build_failed_result`,
or out of `run_typed` when it starts outside the `try` or inside the failure
report. Policies, planner and tools give any outcome their interface allows.
`late` holds tools that go on after their timeout. `events` is `state.events`.

`ToolsAreLogged` and `LogTellsTheRun` therefore say of the file: it has the event,
or a warning at the event or right before it says that it may not. The warnings are in the list
of the process only, so nobody who has just the file sees them.

`EvalDataset` adds what `evalops` reads out of the file (`File`): the draft of an
eval case (`Drafts`), the replay of a run, and, next to them, what the harness reads
of the result the run returned. `LogTellsTheRun` compares the two: they agree when there
was no warning; with one, the file still tells of no call that was not made and of
no other verdict of a run that did not fail. `FileTellsTheRun` drops the condition, and is refuted by
`MCAgentRunFile`. Records have no texts here: an
answer, an error message and the names of response tiers are one value each.

### SafetyPolicy, MemoryPolicy, Planning and PlannedRun

A text is the set of patterns that match it, a goal the set of tools it asks for.
Each policy is one operator of text, model answer and rule outcome; a model answer
is a value, `Unusable` or `NoAnswer` when it does not parse, and the checks of
`_parse_decision` and `_parse_action` decide what becomes of it. `PlannedRun` takes
the loop of `run_typed` without its failures (they are in `AgentRun`) and with the
real planners: `PlanByRule` is deterministic, `PlanByModel` proposes anything and
gets the rule planner's action when the proposal is refused. `Reply` is the
response policy over the final trace, by its tiers. `MCPlannedRun` gives every
goal, memory decision and tool outcome in three steps.

### MemoryStore

A record is `MemoryRecord` without its prose. A fact stands for a memory type
with a normalised text; `Topic` and `Slot` are the results of `semantic_key` and
`conflict_key`, arbitrary but for what the code guarantees (a conflict key
starts from the semantic key; task memories, the only ones that expire, have no
semantic key). `add_long_term_memory` is the three actions `Restate`, `Merge`,
`Create`, in that order of precedence; restating leaves `expires_at` alone, as
the code does. `Snapshot` archives what has expired first, and lists any subset
a query, a limit and a minimum score could leave. `ArchiveReviewed`,
`SetImportance` and `Resolve` are the reviewer's operations, which reach
archived records where the code lets them. `told` is history: all facts added.

### EventLog

Events are numbered in the order of their appends, and a file is the sequence of
pieces appended to it. A writer goes through `JsonlEventWriter.write` one file
operation at a time: `Acquire` (`flock`), `Check` (`_rotate_if_needed` tests the
size), then for a rotation `Unlink`, `Shift` for each backup from the second
oldest down and `Move`, or `Truncate` when no backups are kept, then `WriteLine`
and `Unlock`. `Interrupt` ends `write` anywhere: the process died, or a call
raised, the `finally` freed the lock and `CompositeEventWriter` turned the
exception into a warning; in both cases the rotation stays where it is and the
event is not retried. `TornAppend` is the same within the append: only the
newline is missing, or the JSON is cut between characters, or inside one.
`ReadsBack` is what `splitlines` and `json.loads` make of a piece: a piece after a
torn one continues its line. The reader is `read_jsonl_events`, which takes no
lock: two listing calls, then one `Read` per file, which raises when the file has
been renamed away or does not decode. A line has its bytes (`LineBytes`), a torn piece
any smaller number of them, and `TooLong` compares them with `max_bytes` as the code does. A line that
is longer than `max_bytes` by itself goes to a fresh file and stays alone in it,
so `FilesAreBounded` says of a file: within the limit, or a single piece. A whole line appears to readers at once, which holds
of lines within the buffer of the file object. `use_lock = False` and
`max_bytes = None` are settings that switch the protocol off and are not modelled.

### EvalAccess, EvalReview and EvalServer

`EvalAccess` is `_authorize`: static tokens, signed tokens with tenant, scopes and
expiry, the tenant policy file, and the routes. `IsReviewer` says the same without the
order of the code, for `OnlyReviewersDecide`. `EvalReview` is `review_dataset`,
`append_decisions`, the status view and the conflicts between decisions; rows are a
set, because they are listed by time and then by a random id. In `EvalServer` each
request is a thread of `_handle_review_apply`: `Arrive` (authorised with the policy
file of that moment), `Merge` (dataset and store are read, the time is taken),
`Persist` (one transaction), `OpenOutput` and `WriteOutput` (the golden file is
truncated, then written, in place), `Answer` (audit, 200). `ApplyFails` is the
audited failure before anything is written, `OutputFails` the unaudited one after the
decisions are stored; `Crash` ends all threads. The harness checks and loads the
golden file in two reads. A retry is another request. `entitled` is history.
The dataset file is fixed while the server runs, although the server rereads it for each
request because it may change (`EvalServerConfig`): someone who edits it is not modelled,
and the properties about golden file and decisions are for a dataset left alone. A server's
`files` says that both paths are configured, the dataset and the golden file; servers
with only one of them, on which the status route answers and applying does not,
are not told apart.

### EvalCases and EvalGates

A case's expectations, a run as the harness reads it, both judges, calibration,
aggregated metrics, thresholds, comparison of reports, history and the sampling
queue, without their formatting. Rates are whole numbers of 1/10000.

## 3. Runs

| run | question | bounds | result |
|---|---|---|---|
| `json_budget_store` | is the file store the atomic one, does anyone block? | 3 processes, 2 keys; on one key a cost of 2 or 1 fits under a limit of 2, not both | holds; `EveryRequestSettles` under fairness |
| `tool_pipeline_paid` | governance, payment, results, sensitive strings | 2 identical write calls with 1 retry, 1 read needing approval, limit 4 of 5 units | holds |
| `tool_pipeline_free` | reruns and liveness | the 2 write calls, no limit | holds |
| `agent_run` | gates, log and file, memories, end of the run | 2 steps, 2 namespaces, 1 failed write of the event file | holds |
| `agent_run_namespace` | does a run save under its identity? | same | violated, finding 1 |
| `memory_store` | uniqueness, memory, staleness, isolation, retention | 2 records, 2 namespaces, 2 facts of one topic, 2 expiring facts of one conflict key, clock 0..1 with a time to live of 1 | holds |
| `event_log` | order, losses, size, gaps, under rotation and interruption | 2 writers, 0 or 3 backups, files of 6 bytes, lines of 3 and every fourth of 9, 10 events, 2 interruptions, 1 reader | holds |
| `json_file` | is a document safe that is locked, or one process's own? | 2 threads of an agent, 1 of the server, any of them present, 2 updates each; both kinds | holds |
| `eval_server` | who decides, what backs the golden file, what stays on show | 3 requests of 2 bodies on 2 cases; 3 tokens or none, 3 servers, 2 policy files, clock 0..1 | holds |
| `planned_run` | does the reply own up, are rule runs orderly? | every goal over 5 tools, 3 steps, both planners | holds |
| `planned_reply` | is the reply true to the trace? | same, model planner | violated, finding 2 |
| `default_scopes` | does the default identity restrict? | one read, one write | violated, finding 3 |

Further instances, to be run by hand like the others, show what the code does against
a promise of its docs where the answer is known and no other property depends on it:

| command | violated property | what it shows |
|---|---|---|
| `tlc -config MCAgentRunFailure.cfg MCAgentRun` | `FailuresAreReported` | `_build_failed_result` "guarantees at least run_failed and a structured failed result" (`agent.py:614`); its own `record_event` and snapshot are unguarded, so the second exception leaves `run_typed` |
| `tlc -config MCMemoryStoreRetention.cfg MCMemoryStore` | `PruneBoundsActive` | `prune_long_term_memories` bounds the default namespace only (`store.py:287`, `:296`) |
| `tlc -config MCEventLogCut.cfg MCEventLog` | `BadLinesDoNotRaise` | an append cut inside a character makes the whole file unreadable (`event_log.py:4`, `:80`) |
| `tlc -config MCEventLogSplit.cfg MCEventLog` | `OneLineOneEvent` | U+2028, U+2029 or U+0085 in a text splits its line for the reader (`event_writer.py:70`, `event_log.py:80`) |
| `tlc -config MCEvalServerDraft.cfg MCEvalServer` | `NoDraftRuns` | the harness checks that the golden file is reviewed and then reads it again (`harness.py:670`): an apply in between brings drafts into the run |
| `tlc -config MCToolPipelineOutput.cfg MCToolPipeline` | `NothingSensitiveLeaves` | the tool's output is to be cleaned of sensitive fields (`middleware.py:877`); keys of dicts and numbers are not (`:1174`) |
| `tlc -config MCAgentRunFile.cfg MCAgentRun` | `FileTellsTheRun` | a failed write of the event file is a warning (`event_writer.py:264`), so drafts and replays may lack events, the verdict too |
| `tlc -config MCJsonFileThreads.cfg MCJsonFile` | `OneProcessFileIsWhole` | temporary file and replace are to keep half a JSON from staying (`store.py:477`); an abandoned tool thread and the run share one `.tmp` (`:488`) |

Why the bounds are enough. Three processes give a holder, a waiter and one that
died; the two keys share the file, so a lost update of a foreign key shows. Two
calls with one key and one retry give every order of put, lookup and late
effect; a third call that does not fit makes the budget refuse after either.
Two steps give a step that goes on, one that is last, and exhaustion; identity
and default namespace may differ. Two records suffice for two owners, for a rival,
for a topic whose first record is archived, and for a prune that keeps one and
drops one; with `MaxTime` = `Ttl` a task memory told at 0 expires and one told at
1 does not. Ten events fill three backups of two lines and the current file and
rotate once more, so backups fall off the end, also after two rotations that were
interrupted. Of the events every fourth is too long for any file, so it is first
in one, is followed by others, and is torn. One failed write of the event file falls on
each event in turn, and what it leaves on the event after it. Of three savers two
are threads of an agent, which overlap or take turns, and one is a request to the
server; two updates each let one be lost to an older object, and one put right what
overlapped before it; `sharers` includes every single one alone. Three requests are two that overlap and one that comes after, on
two cases that bodies decide together or one by one; the tenant of the signed token
is listed in one policy file and not in the other, and the token expires at 1. Three
steps let a goal of two tools fail, be repeated and be given up, and goals of three
and more run out. `MaxMemories`, `MaxTime` and `MaxAccess` are guards of the model and
not of the code, like `MaxEvents` and `MaxInterruptions` of the event log,
`MaxWarnings` of the run, `MaxUpdates` of `JsonFile` and `MaxTime` of `EvalServer`;
the theorems hold for all their values.

Every property of a passing run is broken by a mutant of the code's definition
(the definitions commented "Mutant"), so none of them holds by the shape of the
model alone.

**Fairness.** A process (or thread) that is not dead is scheduled again, and its
`flock` is granted when free; the caller of a tool has a clock that runs, since
`future.result(timeout)` is what bounds its wait; a run's calls to policies and
planner return, by the LLM client's request timeout. Weak fairness of the
caller's own steps says this. Nothing is assumed of a tool, of an abandoned
thread, or of any failure. `JsonBudgetStore` and `ToolPipeline` check deadlock
through an explicit step for "all done"; `AgentRun` and
`EventLog` stop when the run is over or the bounds are reached, so their runs do not.

**Findings.**
1. Memories are documented as isolated by the run's identity, but the
   `memory.add` tool saves without user and tenant, hence under the defaults.
2. The response policy says its tool summary speaks by trace and observations only
   (`response.py:111`). After a failed calculation it says that no note was
   written, and passes over a note that was (`summary.py:61`, `:74`); the model
   planner can write one, since its tool calls are not checked against the trace.
3. `build_runtime_identity_from_env` says that scopes are not limited by default
   (`context.py:51`). An unset variable becomes the empty set, which the permission
   check reads as "nothing allowed" (`context.py:70`, `middleware.py:793-802`).

## 4. Proofs

All theorems are checked by tlapm with SMT, Zenon and PTL, for every value of
the constants. They rest on the ASSUMEs of the modules (types of the constants;
`Nobody`, `None`, `Absent`, `Torn`, `Unset`, `Unlimited`, `NoResult` and the like differ
from the values they must differ from; the relation of `Topic`, `Slot` and
`Expiring`), which TLC evaluates in every run.

- **JsonBudgetStoreProofs**: `StoreTypes`, `NeverTorn`, `Refinement`. A type
  invariant and a torn-free file are not inductive alone: the invariant also says
  that only the lock holder is between load and unlock, that what it loaded is
  the file (plus its charge, once it fits), and that what it is about to rename is
  what it wrote. The refinement then has two steps that are not stutters: the
  refusing `Load` and the `Replace` that charges.
- **ToolPipelineProofs**: `Types`, `Governance`, `StoredResults`, `OutputSafety`,
  `BackedAnswers`, `NeverReruns`, `ChargesAddUp`, `PaidFor`. The
  invariant ties `pc`, attempts and threads together (no thread beyond the attempts
  made, no attempt before governance, the observation at `store` comes from a returned
  thread whose effect landed). `OutputSafety` is about strings, which are what the code
  cleans: whatever is stored or about to be answered has passed `AfterTool`. `ChargesAddUp` is `BudgetHolds` of `ToolBudget` in every
  behaviour with a limit; with `Unlimited` nothing is reserved. Its invariant
  (`BudgetInv`) adds that only finitely many calls have been allowed, which holds of any
  set of calls. `PaidFor` (`RunsArePaidFor`) then compares two sums: what ran was
  allowed (`Governance`), and a part costs no more than the whole (`SumGrows`).
- **AgentRunProofs**: `Types`, `Gates`, `Accounting`, `Verdicts`, `Provenance`,
  `Exhaustion`, `Telling`. The invariant says what the gates have decided at each `pc`,
  that trace and step agree in the loop, that each tool begun is logged, and that
  `events = log` until something fails. Of the file it says (`FileInv`) that an event of
  the log that is not held has a warning at it or right before it, that a tail
  that is not clean comes with a warning at the last event, and that an event which lacks its newline
  has a warning of its own; hence no warning, no loss. `Telling` (`LogTellsTheRun`) needs `TellInv`
  besides: which events the log holds and lacks at each stage (a refusal only of a
  request that was held, a response only of a run that answers, an observation only of
  a step of the trace). From it the verdict an eval tool reads is the status of the
  run (`VerdictRead`), its tool calls are the trace, and every expectation of the
  drafted case is met by the events of the run (`DraftPasses`). `EvalDataset` is
  written for this proof: a draft is a set of at most one case (`Drafts`).
- **MemoryStoreProofs**: `Types`, `Uniqueness`, `Remembrance`, `LiveListing`,
  `ArchiveIsFinal`, `Isolation`, `Retention`. All operations but two only let records *fade*
  (same text, history and expiry; active may become archived), which keeps
  uniqueness and history in one lemma. `Merge` needs uniqueness to see that its
  record is the only one on the topic; `Create` follows from its two guards.
  `Retention` (`PruneKeepsBest`) rests on a fact about finite sets in a strict order:
  those that have fewer than max others ahead of them are at most max, and exactly max
  when one is left out (`FirstOnes`); `SortOrder` says that `retention_sort_key` with the
  place in the list is such an order.

- **EventLogProofs**: `Types`, `Bounded`, `Order`, `GapsBounded`, `OnlyOldest`. The lock keeps the size test true
  until the append (`Exclusion`, `Rotation`, `Room`): the file that is appended to is
  empty or has room for the line that was tested, since nobody else appends in
  between; a writer that holds the lock has a line to write (`LineAhead`). `Bounded` follows, for lines of any length. Order needs no lock of the
  reader: each backup is older than the files of lower numbers (`FilesInOrder`),
  every writer step drops files, renames one upwards, or appends one piece, and
  what is at or below the next place of the reader is always newer than what it
  has read (`ReaderIsAhead`). What interruptions cost needs `KeptInv`. Neither
  promise is inductive: a rotation under way has an empty place of its own, which is
  no gap until an interruption makes it one (`GapCount`), and that place must be empty
  (`Places`); an event that is gone went with all older ones (`OldestGoFirst`), the events
  of a file are consecutive (`AllNumbered`), and those not logged are as many as were
  torn (`TornCount`). Then an event the reader cannot read follows a torn one
  (`LostFollowTorn`), and different events follow different ones. `OnlyOldest` has two
  hypotheses, the settings of its run: no text with a line separator that `splitlines`
  knows, no write cut inside a character. Without them it is false, which
  `MCEventLogSplit` and `MCEventLogCut` show.

- **JsonFileProofs**: `FileTypes`, `FileSafety`. Under the lock at most one saver is busy.
  An agent's process has no lock, and two of its threads may be busy; the
  invariant then says what is left. Whatever they do, the object holds every
  acknowledged update (`ObjectInv`), as an update is in it before it is written and only a crash
  drops it. While a saver is lone (`LoneInv`) nobody else is busy or has a file open.
  So what a lone saver has dumped holds all that is acknowledged, what it has flushed is
  whole, and its rename replaces the document, whatever state overlapping threads have left
  it in, by one that is safe. The proof fixes no number of threads or processes.
- **PoliciesProofs**: `RunTypes`, `OwnsUp`, `RuleOrder` of `PlannedRun`, for any
  number of steps. A run is done only by a final action that is justified (every
  wanted tool was called, or the calculation failed), so a wanted tool that is not
  told has failed in the trace or was never called, and either gives the reply
  its failure tier. A rule run's action is always due, so its trace is without
  repetition, and a trace of distinct wanted tools is no longer than they are many. Of the policies alone:
  `FailClosedNeverApplies`, `CompositeIsTheStricter`, `SecretsAreNeverSaved`, `PlansFillTheirMinutes`.
- **EvalProofs**: all five properties of `EvalServer` (`ServerHasTypes`, `Deciders`,
  `Backing`, `AcksShow`, `ConflictsRemain`). `AdmittedMayReview` takes `_authorize` apart
  into `IsReviewer`. `BackedInv` says that what a request has merged is stored, and
  that what it decided is, from `Persist` on and for whoever's file is read; it is kept because
  decisions are never removed and a request never goes back (`PersistedStays`). The
  status view needs that the latest decision exists, which follows from the
  well-foundedness of `Nat` (`LatestIsOne`). Of `EvalCases` and `EvalGates`, for
  every case, run and report: `RuleJudgeRepeatsTheChecks`,
  `LabelledFailingNeverPasses`, `LowScoresNeverPass`, `RegressionsCompose`,
  `DiffSeesWhatHistorySees`, `NoRegressionKeepsThresholds`.

Sums and sizes are about finite sets of any size. The induction they need is made
without a predicate to instantiate: were the fact false, the set of counterexamples
would have a least one by the well-foundedness of `Nat` (`SmallestSet`, `LeastNatural`),
and one element less gives a smaller one. `SumExists` and `SumIsUnique` show in this way
that `MapThenSumSet` is the recursion it is written as.

Every invariant and every action property of a passing run is a theorem.
Model-checked only: liveness under fairness (`EveryRequestSettles`, `EveryCallEnds`,
`EveryRunEnds`) and the absence of deadlock, which are out of the prover's reach, and
the violations. That the JSON budget file itself adds up (`FileHoldsBudget`) follows from
`Refinement` by the argument of `ChargesAddUp`, which is checked for the pipeline's use
of `ToolBudget` and not repeated for the file.

The models also have behaviours that may surprise and that no text of the repository
rules out, so no property is about them: restating a memory that is about to expire does
not renew it (`store.py:141`); conflicts are looked for among expired memories, too, so keeping
an expired one archives its live rival (`admin.py:45`); `AGENTIC_SAFETY_FAIL_CLOSED` has no
effect on rules behind the model checker (`safety.py:354`, theorem `FailClosedNeverApplies`);
and an empty dataset runs the built-in cases (`harness.py:225`, `CasesRun`).

## 5. Not modelled, and why

- Wording, regular expressions, prompts, embeddings, trace views, HTML: data.
  The models take any outcome they can produce.
- The CLI and the LLM client: assembly and HTTP.
- Notes and todos: lists that only grow, in one object.
- Token signing and SQL: external. A token is its claims or none, a transaction
  is one step; importing decisions into the review store is the same
  append as applying.
- SQLite variants of the event, budget and idempotency stores: one transaction
  per operation, which is what the abstract specifications say.
- Settings that switch a protocol off (`use_lock = False`, `max_bytes = None`).
- Fairness of the eval server: its threads only end by an answer, an exception or the
  death of the process, and nothing waits for another.
- The JavaScript v0: superseded.

## 6. What could follow

1. The sums of `ToolPipelineProofs` in a module of their own, to state `FileHoldsBudget`
   as a theorem of `JsonBudgetStore`, too.
2. `AgentRun` and `PlannedRun` as one composition, so that recording failures and real
   planners meet in one trace.
3. Two agents of one memory file over `MemoryStore`, to say which of its properties
   survive a lost update.
