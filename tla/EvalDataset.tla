---------------------------- MODULE EvalDataset ----------------------------
(* What the event log of a run is worth to the eval tools: the draft of an   *)
(* eval case (evalops/dataset.py) and the replay bundle (replay.py), next to *)
(* the result the run itself returned, as the harness reads it.  The tools   *)
(* read the event file, which has no warnings in it.                         *)
EXTENDS AgentRun, EvalCases

\* None is not the name of a status.
ASSUME DatasetAssumption == Unset \notin Statuses

\* The run's events as the reader of the file gives them, by their positions
\* in the log.
File == [i \in held |-> log[i]]

Of(evts, type) == {i \in DOMAIN evts : evts[i].type = type}

\* `_event_counts`, and `_stable_event_counts`, for a run writes none of the
\* unstable types itself.
EventCounts(evts) ==
  [type \in {evts[i].type : i \in DOMAIN evts} |-> Cardinality(Of(evts, type))]

\* Mutant: the first verdict counts.
StatusOfFirst(evts, said) ==
  LET verdicts == Of(evts, "run_completed") \cup Of(evts, "run_failed") IN
  IF verdicts = {} THEN Unset
  ELSE LET first == CHOOSE i \in verdicts : \A j \in verdicts : i <= j IN
       IF evts[first].type = "run_failed" THEN "failed" ELSE said

\* `_status_and_answer_from_events`: the last verdict counts, and Unset is none.
\* `said` is the status a run_completed event carries.
StatusOf(evts, said) ==
  LET verdicts == Of(evts, "run_completed") \cup Of(evts, "run_failed") IN
  IF verdicts = {} THEN Unset
  ELSE LET last == CHOOSE i \in verdicts : \A j \in verdicts : j <= i IN
       IF evts[last].type = "run_failed" THEN "failed" ELSE said

\* Texts to be found in an answer: pieces of the answer a run_completed event
\* carries, or of the error message of run_failed, which is no answer.
TextsOf(evts, said) ==
  IF StatusOf(evts, said) = "failed" THEN <<"error">> ELSE <<"answer">>

\* `_tool_names` and `_tool_failure_count`: an observation's event names the
\* tool of its step and carries what the trace has of it.
ToolsOf(evts) == [i \in Of(evts, "tool_observation") |-> tool[evts[i].step]]

BadTools(evts) ==
  Cardinality({i \in Of(evts, "tool_observation") : ~trace[evts[i].step]})

\* `_response_tiers`: only the response policy's own event names tiers.
TiersOf(evts) ==
  IF Of(evts, "response_decision") # {} THEN <<"decided">> ELSE <<>>

\* build_eval_case_from_run_events, and what the harness makes of its draft;
\* there is none when the log has no goal, no verdict, or that of a failed run.
Drafts(evts, said, includeFailed) ==
  IF \/ Of(evts, "run_started") = {}
     \/ StatusOf(evts, said) = Unset
     \/ StatusOf(evts, said) = "failed" /\ ~includeFailed
    THEN {}
    ELSE {EvalCase([status |-> StatusOf(evts, said),
                    tools |-> ToolsOf(evts),
                    texts |-> TextsOf(evts, said),
                    saves |-> Cardinality(Of(evts, "memory_saved")),
                    refusal |-> Of(evts, "safety_refusal") # {},
                    toolFailures |-> BadTools(evts),
                    tiers |-> TiersOf(evts),
                    counts |-> EventCounts(evts)])}

\* build_replay_bundle: its status, and the tool calls with their outcome.
Replay(evts, said) ==
  [status |-> IF StatusOf(evts, said) = Unset THEN "unknown" ELSE StatusOf(evts, said),
   calls |-> {<<evts[i].step, tool[evts[i].step], trace[evts[i].step]>> :
                i \in Of(evts, "tool_observation")}]

\* AgentRunResult of a run that has returned: its trace, its own events, and
\* the tiers of whatever answered.
Result ==
  [status |-> status,
   tools |-> [n \in DOMAIN trace |-> tool[n]],
   says |-> {"answer"},
   refused |-> safety \in {"refuse", "review"},
   tiers |-> IF status \in {"completed", "incomplete"} THEN <<"decided">> ELSE <<"stopped">>,
   counts |-> EventCounts(events),
   badTools |-> BadTools(events),
   remembers |-> {},
   steps |-> Len(trace)]
---------------------------------------------------------------------------
Calls == {<<n, tool[n], trace[n]>> : n \in DOMAIN trace}

\* What the events say of a run is what its caller was told: a replay has its
\* status and its tool calls, a run that did not fail gives a draft that the
\* same run passes, and one that failed gives none, even when run_completed is
\* among them as well.
Tells(evts) ==
  IF status = "failed"
    THEN \A said \in Statuses : /\ Replay(evts, said).status = "failed"
                                /\ Drafts(evts, said, FALSE) = {}
    ELSE /\ Replay(evts, status).status = status
         /\ Replay(evts, status).calls = Calls
         /\ \E draft \in Drafts(evts, status, FALSE) : Failures(draft, Result) = {}

\* The event file tells the run as its caller was told it, when no warning says
\* that it may lack events.  A file that may lack some still tells of no call
\* that the run did not make and, of a run that did not fail, no other status.
LogTellsTheRun ==
  pc = "returned" =>
    /\ warned = {} => Tells(File)
    /\ \A said \in Statuses : Replay(File, said).calls \subseteq Calls
    /\ status # "failed" => Replay(File, status).status \in {status, "unknown"}

\* The same of every file, whether or not its writer has failed: the eval tools
\* have only the file, and take it for the whole run.
FileTellsTheRun == pc = "returned" => Tells(File)
=============================================================================
