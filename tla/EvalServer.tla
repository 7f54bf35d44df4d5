----------------------------- MODULE EvalServer -----------------------------
(* The eval governance server at work (evalops/governance/server.py): threads *)
(* of a ThreadingHTTPServer apply reviews, each against the dataset file, the *)
(* SQLite review store and the golden file it writes in place; a harness      *)
(* process reads that file (evalops/harness.py).                              *)
(*                                                                            *)
(* A request is authorised, reads the dataset and the store, stores its       *)
(* decisions in one transaction, truncates the golden file, writes it, and    *)
(* answers.  The server may die between any two of these, and every one of    *)
(* them may fail.  The dataset file does not change while the server runs.    *)
EXTENDS EvalAccess, EvalReview

CONSTANTS
  Requests,      \* POST /api/reviews/apply requests; a retry is another one
  RequestBodies, \* the bodies clients send, of Bodies
  Malformed,     \* a body that is no JSON object, or has a field of another type
  Dataset,       \* the cases of the dataset file
  Configs,       \* server configurations, one of which is started
  Tenants,       \* tenants the policy file may list
  PolicyFiles,   \* what the operator makes of that file, in time
  Tolerance,     \* score_tolerance of the status view
  MaxTime        \* bound on the clock

\* EvalServerConfig: access, and which files are configured.
ServerConfigs ==
  [access : AccessConfigs, files : BOOLEAN, store : BOOLEAN, audit : BOOLEAN]

ASSUME ServerAssumption ==
  /\ RequestBodies \subseteq Bodies
  /\ Malformed \notin Bodies
  /\ Dataset \in [Names -> CaseRecords]
  /\ Configs \subseteq ServerConfigs
  /\ PolicyFiles \subseteq TenantPolicies(Tenants)
  /\ Tolerance \in Int
  /\ MaxTime \in Nat
  /\ Requests \cap {"absent", "empty", "torn"} = {}

VARIABLES
  config,    \* the server's configuration (never changes)
  policy,    \* the tenant policy file
  now,       \* the clock
  pc,        \* where each request is
  body,      \* its body
  seen,      \* the stored decisions it has merged into the dataset
  at,        \* the time it gives its decisions
  store,     \* rows of the SQLite review store
  output,    \* the golden file: whole, as this request wrote it, or not
  audit,     \* audit events: request and outcome
  harness,   \* the process that runs the golden file's cases
  loaded,    \* the file the harness has loaded, or its state
  entitled   \* history: requests a reviewer sent

serverVars == <<pc, body, seen, at>>
fileVars == <<store, output, audit>>
readerVars == <<harness, loaded>>
vars == <<config, policy, now, serverVars, fileVars, readerVars, entitled>>
---------------------------------------------------------------------------
Steps == {"new", "admitted", "merged", "stored", "opened", "written",
          "done", "refused", "failed", "killed"}

Running == {"admitted", "merged", "stored", "opened", "written"}

NoBody == [approve |-> {}, reject |-> {}, all |-> FALSE,
           labels |-> NoLabels]

\* What request r decides, and the document it writes.
Added(r) == NewDecisions(Dataset, body[r], r, at[r])
DocCases(r) == Reviewed(Dataset, body[r])
DocDecisions(r) == seen[r] \cup Added(r)

\* Content of the golden file that a JSON parser accepts.
Whole(content) == content \in Requests

TypeOK ==
  /\ config \in Configs
  /\ policy \in PolicyFiles
  /\ now \in Nat
  /\ pc \in [Requests -> Steps]
  /\ body \in [Requests -> Bodies]
  /\ seen \in [Requests -> SUBSET Decisions(Requests)]
  /\ at \in [Requests -> Nat]
  /\ store \subseteq Decisions(Requests)
  /\ output \in Requests \cup {"absent", "empty", "torn"}
  /\ audit \subseteq Requests \X {"applied", "failed"}
  /\ harness \in {"idle", "reviewed", "loaded", "failed"}
  /\ loaded \in Requests \cup {"absent"}
  /\ entitled \subseteq Requests
  /\ \A r \in Requests : at[r] <= now

Init ==
  /\ config \in Configs
  /\ policy \in PolicyFiles
  /\ now = 0
  /\ pc = [r \in Requests |-> "new"]
  /\ body = [r \in Requests |-> NoBody]
  /\ seen = [r \in Requests |-> {}]
  /\ at = [r \in Requests |-> 0]
  /\ store = {}
  /\ output = "absent"
  /\ audit = {}
  /\ harness = "idle"
  /\ loaded = "absent"
  /\ entitled = {}

Goto(r, step) == pc' = [pc EXCEPT ![r] = step]

\* An audit event, which is lost when its writer fails or there is none.
Audited(r, outcome) ==
  \/ config.audit /\ audit' = audit \cup {<<r, outcome>>}
  \/ UNCHANGED audit
---------------------------------------------------------------------------
\* A request arrives: `_authorize` with the policy file as it is now, then the
\* checks of `_handle_review_apply` up to the body.
Arrive(r, token, sent) ==
  /\ pc[r] = "new"
  /\ entitled' = IF IsReviewer(config.access, policy, token, now)
                   THEN entitled \cup {r} ELSE entitled
  /\ IF Authorize(config.access, policy, "apply", token, now) # 200
       THEN Goto(r, "refused") /\ UNCHANGED <<body, audit>>
       ELSE IF ~ReviewConfigured(config.access) \/ ~config.files \/ sent = Malformed
         THEN Goto(r, "refused") /\ Audited(r, "failed") /\ UNCHANGED body
         ELSE Goto(r, "admitted") /\ body' = [body EXCEPT ![r] = sent] /\ UNCHANGED audit
  /\ UNCHANGED <<config, policy, now, seen, at, store, output, readerVars>>

\* load_dataset, merge_decisions_into_dataset and review_dataset: with a store
\* the decisions are the store's, and the request's own get the time of day.
Merge(r) ==
  /\ pc[r] = "admitted"
  /\ seen' = [seen EXCEPT ![r] =
                IF config.store THEN MergedDecisions({}, store, FALSE) ELSE {}]
  /\ at' = [at EXCEPT ![r] = now]
  /\ Goto(r, "merged")
  /\ UNCHANGED <<config, policy, now, body, fileVars, readerVars, entitled>>

\* Mutant: one row per case, the last decision replaces the others.
PersistLatest(r) ==
  /\ pc[r] = "merged"
  /\ config.store => Storable(Added(r))
  /\ store' = IF config.store
                THEN {d \in store : \A e \in Added(r) : d.case # e.case} \cup Added(r)
                ELSE store
  /\ Goto(r, "stored")
  /\ UNCHANGED <<config, policy, now, body, seen, at, output, audit, readerVars, entitled>>

\* `_persist_new_review_decisions`: one transaction.
Persist(r) ==
  /\ pc[r] = "merged"
  /\ config.store => Storable(Added(r))
  /\ store' = IF config.store THEN Appended(store, Added(r)) ELSE store
  /\ Goto(r, "stored")
  /\ UNCHANGED <<config, policy, now, body, seen, at, output, audit, readerVars, entitled>>

\* A decision without a case name (400), or reading the dataset or using the
\* database raises (500): nothing is stored, and the failure is audited.
ApplyFails(r) ==
  /\ pc[r] \in {"admitted", "merged"}
  /\ Goto(r, "failed")
  /\ Audited(r, "failed")
  /\ UNCHANGED <<config, policy, now, body, seen, at, store, output, readerVars, entitled>>

\* Mutant: the golden file is opened before the decisions are stored.
OpenOutputEarly(r) ==
  /\ pc[r] \in {"merged", "stored"}
  /\ output' = "empty"
  /\ Goto(r, "opened")
  /\ UNCHANGED <<config, policy, now, body, seen, at, store, audit, readerVars, entitled>>

\* write_text opens the file in place, which truncates it.
OpenOutput(r) ==
  /\ pc[r] = "stored"
  /\ output' = "empty"
  /\ Goto(r, "opened")
  /\ UNCHANGED <<config, policy, now, body, seen, at, store, audit, readerVars, entitled>>

\* The document lands at offset 0: over what another request wrote since the
\* truncation it leaves the end of that, if that was longer.
WriteOutput(r) ==
  /\ pc[r] = "opened"
  /\ output' \in IF output = "empty" THEN {r} ELSE {r, "torn"}
  /\ Goto(r, "written")
  /\ UNCHANGED <<config, policy, now, body, seen, at, store, audit, readerVars, entitled>>

\* Making the directory, opening or writing raises: a 500 without an audit
\* event, and maybe a part of the document in the file.
OutputFails(r) ==
  /\ pc[r] \in {"stored", "opened"}
  /\ output' \in IF pc[r] = "opened" THEN {output, "torn"} ELSE {output}
  /\ Goto(r, "failed")
  /\ UNCHANGED <<config, policy, now, body, seen, at, store, audit, readerVars, entitled>>

\* The audit event, and the answer.
Answer(r) ==
  /\ pc[r] = "written"
  /\ Audited(r, "applied")
  /\ Goto(r, "done")
  /\ UNCHANGED <<config, policy, now, body, seen, at, store, output, readerVars, entitled>>

\* The server dies, with all its threads, and is started again.
Crash ==
  /\ \E r \in Requests : pc[r] \in Running
  /\ pc' = [r \in Requests |-> IF pc[r] \in Running THEN "killed" ELSE pc[r]]
  /\ UNCHANGED <<config, policy, now, body, seen, at, fileVars, readerVars, entitled>>
---------------------------------------------------------------------------
\* `eval_harness --cases --require-reviewed` reads the golden file twice: to
\* check that no case waits for its review, and to load the cases it runs.
HarnessChecks ==
  /\ harness = "idle"
  /\ harness' = IF Whole(output) /\ AllReviewed(DocCases(output))
                  THEN "reviewed" ELSE "failed"
  /\ UNCHANGED <<config, policy, now, serverVars, fileVars, loaded, entitled>>

HarnessLoads ==
  /\ harness = "reviewed"
  /\ IF Whole(output)
       THEN harness' = "loaded" /\ loaded' = output
       ELSE harness' = "failed" /\ UNCHANGED loaded
  /\ UNCHANGED <<config, policy, now, serverVars, fileVars, entitled>>

\* The next run of the harness.
HarnessEnds ==
  /\ harness \in {"loaded", "failed"}
  /\ harness' = "idle"
  /\ loaded' = "absent"
  /\ UNCHANGED <<config, policy, now, serverVars, fileVars, entitled>>

---------------------------------------------------------------------------
Tick ==
  /\ now < MaxTime
  /\ now' = now + 1
  /\ UNCHANGED <<config, policy, serverVars, fileVars, readerVars, entitled>>

\* The operator edits the tenant policy.
PolicyChanges ==
  /\ policy' \in PolicyFiles
  /\ UNCHANGED <<config, now, serverVars, fileVars, readerVars, entitled>>

Handle(r) ==
  \/ \E token \in Tokens \cup {None}, sent \in RequestBodies \cup {Malformed} :
       Arrive(r, token, sent)
  \/ Merge(r)
  \/ Persist(r)
  \/ ApplyFails(r)
  \/ OpenOutput(r)
  \/ WriteOutput(r)
  \/ OutputFails(r)
  \/ Answer(r)

Next ==
  \/ \E r \in Requests : Handle(r)
  \/ Crash
  \/ HarnessChecks
  \/ HarnessLoads
  \/ HarnessEnds
  \/ Tick
  \/ PolicyChanges

Spec == Init /\ [][Next]_vars
---------------------------------------------------------------------------
\* No decision is stored and no golden file written for anyone who could not
\* review when the request came in: `_authorize` and `_has_configured_scope`
\* together let nobody else through, without any token configured either.
OnlyReviewersDecide ==
  /\ \A d \in store : d.from \in entitled
  /\ Whole(output) => output \in entitled

\* With a review store, every approval in a whole golden file, and in what the
\* harness has loaded, is a stored decision, whichever request wrote the file
\* and wherever the server died: _handle_review_apply stores first.
ApprovalsAreBacked ==
  config.store =>
    \A r \in Requests \cap {output, loaded} :
      /\ DocDecisions(r) \subseteq store
      /\ \A c \in Names \cap DOMAIN DocCases(r) :
           DocCases(r)[c].status = "approved" /\ Dataset[c].status # "approved" =>
             \E d \in store : d.case = c /\ d.status = "approved"

View(decisions) == StateView(Dataset, decisions, Tolerance)

\* What a reviewer was told is done stays on show: the status view gives the
\* case that status, or says that the reviewers disagree.
AckedReviewsShow ==
  config.store =>
    LET shown == View(store) IN
    \A r \in Requests : pc[r] = "done" =>
      \A d \in Added(r) : shown[d.case] \in {d.status, "conflict"}

\* A conflict once on show stays: no later decision, by whomever, resolves it,
\* because review_state counts every decision ever stored.
ConflictsStay ==
  [][\A c \in DOMAIN View(store) :
       View(store)[c] = "conflict" => View(store')[c] = "conflict"]_store

\* As documented, --require-reviewed keeps unreviewed drafts out of a
\* regression run.
NoDraftRuns == harness = "loaded" => AllReviewed(DocCases(loaded))
=============================================================================
