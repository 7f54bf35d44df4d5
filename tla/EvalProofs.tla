----------------------------- MODULE EvalProofs -----------------------------
(* What the harness, its judge and the comparison of reports decide, for     *)
(* every case, run and report; and what the governance server keeps true,    *)
(* for any number of requests, tokens and policy files.                      *)
EXTENDS EvalGates, EvalServer, FiniteSetTheorems, WellFoundedInduction, TLAPS

LEMMA NothingMissing ==
  ASSUME NEW wanted, NEW got, Range(wanted) \subseteq got
  PROVE  Missing(wanted, got) = 0
<1>1. {i \in DOMAIN wanted : wanted[i] \notin got} = {}
  BY DEF Range
<1> QED BY <1>1, FS_EmptySet DEF Missing

\* The rule judge adds nothing to the deterministic checks: with a registered
\* rubric it passes a run exactly when the case's own expectations do, and its
\* score is then 100.
THEOREM RuleJudgeRepeatsTheChecks ==
  ASSUME NEW case, NEW run, NEW rubric \in JudgeRubrics
  PROVE  /\ RuleJudge(case, run, rubric).passed <=> Failures(case, run) = {}
         /\ Failures(case, run) = {} => RuleJudge(case, run, rubric).score = 100
<1>0. /\ RuleJudge(case, run, rubric).passed
           = (RuleScore(case, run) >= rubric.min /\ ~HasReasons(case, run))
      /\ RuleJudge(case, run, rubric).score = RuleScore(case, run)
  BY DEF RuleJudge
<1>1. CASE Failures(case, run) = {}
  <2>1. run.status = case.status
    <3>1. "status" \notin Failures(case, run)
      BY <1>1
    <3> QED BY <3>1 DEF Failures
  <2>2. Range(case.tools) \subseteq Range(run.tools)
    <3>1. "tools" \notin Failures(case, run)
      BY <1>1
    <3> QED BY <3>1 DEF Failures
  <2>3. Range(case.texts) \subseteq run.says
    <3>1. "answer" \notin Failures(case, run)
      BY <1>1
    <3> QED BY <3>1 DEF Failures
  <2>4. Range(case.tiers) \subseteq Range(run.tiers)
    <3>1. "tiers" \notin Failures(case, run)
      BY <1>1
    <3> QED BY <3>1 DEF Failures
  <2>5. /\ Missing(case.tools, Range(run.tools)) = 0
        /\ Missing(case.texts, run.says) = 0
        /\ Missing(case.tiers, Range(run.tiers)) = 0
    BY <2>2, <2>3, <2>4, NothingMissing
  <2>6. RuleScore(case, run) = 100
    BY <1>1, <2>1, <2>5 DEF RuleScore, Clamped
  <2>7. ~HasReasons(case, run)
    BY <1>1, <2>1, <2>5 DEF HasReasons
  <2>8. rubric.min \in {70, 90}
    BY DEF JudgeRubrics
  <2>9. 100 >= rubric.min
    BY <2>8
  <2> QED BY <1>1, <2>6, <2>7, <2>9, <1>0
<1>2. CASE Failures(case, run) # {}
  <2>1. HasReasons(case, run)
    BY <1>2 DEF HasReasons
  <2> QED BY <1>2, <2>1, <1>0
<1> QED BY <1>1, <1>2

\* A reviewer may approve a case with the label "the judge shall fail this":
\* the golden case it becomes passes under no judge and with no run, for a
\* judge that fails it as labelled fails the case, and one that passes it
\* contradicts the label.
THEOREM LabelledFailingNeverPasses ==
  ASSUME NEW old \in CaseRecords, NEW review \in Bodies, NEW case, NEW run, NEW rubric, NEW verdict,
         review.labels.passed = FALSE,
         case.labels = ApprovedCase(old, review).labels
  PROVE  ~JudgedPasses(case, run, rubric, verdict)
<1>1. case.labels.passed = FALSE
  <2>1. FALSE # Unset
    BY CaseAssumption
  <2>2. Relabelled(old.labels, review.labels).passed = FALSE
    <3> DEFINE given == review.labels.passed
    <3>1. given = FALSE
      OBVIOUS
    <3>2. Relabelled(old.labels, review.labels).passed = IF given = Unset THEN old.labels.passed ELSE given
      BY DEF Relabelled
    <3> HIDE DEF given
    <3> QED BY <2>1, <3>1, <3>2, Zenon
  <2>3. case.labels = Relabelled(old.labels, review.labels)
    BY DEF ApprovedCase
  <2> QED BY <2>2, <2>3, Zenon
<1> QED BY <1>1, CaseAssumption DEF JudgedPasses, Calibrated

\* A reviewed score more than the tolerance below 100 has the same effect under
\* the rule judge: no run passes.
THEOREM LowScoresNeverPass ==
  ASSUME NEW case, NEW run, NEW rubric \in JudgeRubrics,
         case.labels.score \in Int, case.tolerance \in Int,
         case.labels.score < 100 - case.tolerance
  PROVE  ~JudgedPasses(case, run, rubric, RuleJudge(case, run, rubric))
<1>1. SUFFICES ASSUME JudgedPasses(case, run, rubric, RuleJudge(case, run, rubric))
               PROVE  FALSE
  OBVIOUS
<1>2. RuleJudge(case, run, rubric).score = 100
  BY <1>1, RuleJudgeRepeatsTheChecks DEF JudgedPasses
<1>3. case.labels.score # Unset
  BY CaseAssumption
<1>4. 100 - case.labels.score <= case.tolerance
  BY <1>1, <1>2, <1>3 DEF JudgedPasses, Calibrated
<1> QED BY <1>4
---------------------------------------------------------------------------
\* What eval reports hold: numbers by name.
Reports ==
  [gate : BOOLEAN, metrics : UNION {[D -> Int] : D \in SUBSET STRING},
   cases : UNION {[D -> BOOLEAN] : D \in SUBSET STRING}]

LEMMA ValuesAreNumbers ==
  ASSUME NEW r \in Reports, NEW name
  PROVE  Value(r.metrics, name) \in Int
<1>1. PICK D \in SUBSET STRING : r.metrics \in [D -> Int]
  BY DEF Reports
<1>2. CASE name \in DOMAIN r.metrics
  BY <1>1, <1>2 DEF Value
<1>3. CASE name \notin DOMAIN r.metrics
  BY <1>3 DEF Value
<1> QED BY <1>2, <1>3

\* A regression between two reports does not hide behind the reports between
\* them: CI that compares each report with the one before misses nothing that
\* comparing it with any older one would show.
THEOREM RegressionsCompose ==
  ASSUME NEW a \in Reports, NEW b \in Reports, NEW c \in Reports,
         ~HasRegression(a, b), ~HasRegression(b, c)
  PROVE  ~HasRegression(a, c)
<1>1. ~GateLost(a, c)
  BY DEF HasRegression, GateLost, Reports
<1>2. WorseMetrics(a.metrics, c.metrics) = {}
  <2>1. SUFFICES ASSUME NEW name \in WorseMetrics(a.metrics, c.metrics)
                 PROVE  FALSE
    OBVIOUS
  <2> DEFINE va == Value(a.metrics, name)
             vb == Value(b.metrics, name)
             vc == Value(c.metrics, name)
  <2>2. va \in Int /\ vb \in Int /\ vc \in Int
    BY ValuesAreNumbers
  <2>3. \/ name \in RATE_METRICS /\ vc - va < 0
        \/ name \in LOWER_IS_BETTER_METRICS /\ vc - va > 0
    BY <2>1 DEF WorseMetrics
  <2>4. vb # va => name \in DOMAIN a.metrics \cup DOMAIN b.metrics
    BY DEF Value
  <2>5. vc # vb => name \in DOMAIN b.metrics \cup DOMAIN c.metrics
    BY DEF Value
  <2>6. name \notin WorseMetrics(a.metrics, b.metrics) /\ name \notin WorseMetrics(b.metrics, c.metrics)
    BY DEF HasRegression
  <2>7. name \in RATE_METRICS => vb - va >= 0 /\ vc - vb >= 0
    BY <2>2, <2>4, <2>5, <2>6 DEF WorseMetrics
  <2>8. name \in LOWER_IS_BETTER_METRICS => vb - va <= 0 /\ vc - vb <= 0
    BY <2>2, <2>4, <2>5, <2>6 DEF WorseMetrics
  <2> HIDE DEF va, vb, vc
  <2> QED BY <2>2, <2>3, <2>7, <2>8
<1>3. WorseCases(a.cases, c.cases) = {}
  BY DEF HasRegression, WorseCases, Reports
<1> QED BY <1>1, <1>2, <1>3 DEF HasRegression

\* eval_history sees no more than eval_diff: what it reports of the last two
\* reports, the comparison of those two reports too.  (It compares no cases.)
THEOREM DiffSeesWhatHistorySees ==
  ASSUME NEW history \in Seq(Reports), HistoryRegresses(history)
  PROVE  HasRegression(history[Len(history) - 1], history[Len(history)])
BY DEF HistoryRegresses, HasRegression

\* A candidate without a regression closes no threshold the base met, whatever
\* the thresholds are.
THEOREM NoRegressionKeepsThresholds ==
  ASSUME NEW a \in Reports, NEW b \in Reports, NEW limits,
         limits.minCasePassRate \in Int, limits.minToolSuccessRate \in Int,
         limits.maxRunFailed \in Int, limits.maxPlannerFallbacks \in Int,
         {"case_pass_rate", "tool_success_rate", "run_failed", "planner_fallbacks"}
           \subseteq DOMAIN a.metrics \cap DOMAIN b.metrics,
         ~HasRegression(a, b)
  PROVE  GateFailures(b.metrics, limits) \subseteq GateFailures(a.metrics, limits)
<1> DEFINE keys == {"case_pass_rate", "tool_success_rate", "run_failed", "planner_fallbacks"}
<1>1. \A k \in keys : /\ Value(a.metrics, k) = a.metrics[k] /\ Value(b.metrics, k) = b.metrics[k]
                      /\ a.metrics[k] \in Int /\ b.metrics[k] \in Int
  BY DEF Value, Reports
<1>2. \A k \in keys : k \notin WorseMetrics(a.metrics, b.metrics)
  BY DEF HasRegression
<1>3. \A k \in keys \cap RATE_METRICS : b.metrics[k] >= a.metrics[k]
  BY <1>1, <1>2 DEF WorseMetrics
<1>4. \A k \in keys \cap LOWER_IS_BETTER_METRICS : b.metrics[k] <= a.metrics[k]
  BY <1>1, <1>2 DEF WorseMetrics
<1>5. /\ b.metrics.case_pass_rate >= a.metrics.case_pass_rate
      /\ b.metrics.tool_success_rate >= a.metrics.tool_success_rate
      /\ b.metrics.run_failed <= a.metrics.run_failed
      /\ b.metrics.planner_fallbacks <= a.metrics.planner_fallbacks
  BY <1>3, <1>4 DEF RATE_METRICS, LOWER_IS_BETTER_METRICS
<1>6. /\ a.metrics.case_pass_rate \in Int /\ b.metrics.case_pass_rate \in Int
      /\ a.metrics.tool_success_rate \in Int /\ b.metrics.tool_success_rate \in Int
      /\ a.metrics.run_failed \in Int /\ b.metrics.run_failed \in Int
      /\ a.metrics.planner_fallbacks \in Int /\ b.metrics.planner_fallbacks \in Int
  BY <1>1
<1> QED BY <1>5, <1>6 DEF GateFailures
---------------------------------------------------------------------------
\* Whoever `_authorize` lets apply a review, on a server on which applying is
\* on, may review.
LEMMA AdmittedMayReview ==
  ASSUME NEW server \in AccessConfigs, NEW file, NEW token \in Tokens \cup {None}, NEW hour,
         Authorize(server, file, "apply", token, hour) = 200,
         ReviewConfigured(server)
  PROVE  IsReviewer(server, file, token, hour)
<1>1. RequiredScope("apply") = REVIEW_SCOPE
  BY DEF RequiredScope
<1>2. VIEW_SCOPE # REVIEW_SCOPE
  BY DEF VIEW_SCOPE, REVIEW_SCOPE
<1>3. AuthRequired(server)
  <2>1. CASE server.secret # None
    BY <2>1 DEF AuthRequired
  <2>2. CASE \E other \in Tokens : REVIEW_SCOPE \in StaticScopes(server, other)
    <3>1. PICK other \in Tokens : REVIEW_SCOPE \in StaticScopes(server, other)
      BY <2>2
    <3>2. other = server.auth \/ other = server.reviewer
      BY <3>1, <1>2 DEF StaticScopes
    <3>3. other # None BY AccessAssumption
    <3> QED BY <3>2, <3>3 DEF AuthRequired
  <2> QED BY <2>1, <2>2 DEF ReviewConfigured
<1>4. /\ token # None
      /\ Known(server, token, hour)
      /\ REVIEW_SCOPE \in Principal(server, token).scopes
      /\ server.tenants => TenantAllows(file, Principal(server, token).tenant, REVIEW_SCOPE)
  BY <1>1, <1>3 DEF Authorize
<1>5. CASE StaticScopes(server, token) # {}
  <2>1. /\ Principal(server, token).scopes = StaticScopes(server, token)
        /\ Principal(server, token).tenant = LocalTenant
    BY <1>5 DEF Principal
  <2>2. token \in {server.auth, server.reviewer}
    BY <2>1, <1>2, <1>4 DEF StaticScopes
  <2> QED BY <2>1, <2>2, <1>4 DEF IsReviewer
<1>6. CASE StaticScopes(server, token) = {}
  <2>1. /\ Principal(server, token).scopes = Claims[token].scopes
        /\ Principal(server, token).tenant = Claims[token].tenant
    BY <1>6 DEF Principal
  <2>2. token \notin {server.auth, server.viewer, server.reviewer}
    BY <1>6 DEF StaticScopes
  <2>3. Verified(server, token, hour)
    BY <1>4, <1>6 DEF Known
  <2> QED BY <2>1, <2>2, <2>3, <1>4 DEF IsReviewer
<1> QED BY <1>5, <1>6
---------------------------------------------------------------------------
LEMMA CaseFields ==
  ASSUME NEW old \in Labels, NEW given \in Labels
  PROVE  Relabelled(old, given) \in Labels
BY DEF Relabelled, Labels

LEMMA NoBodyType == NoBody \in Bodies /\ NoLabels \in Labels
BY DEF NoBody, Bodies, NoLabels, Labels

\* What a request decides are decisions, its own and of its time.
LEMMA AddedDecisions ==
  ASSUME NEW r \in Requests, body[r] \in Bodies, at[r] \in Nat
  PROVE  /\ Added(r) \subseteq Decisions(Requests)
         /\ \A d \in Added(r) : d.from = r /\ d.at = at[r]
<1>1. \A c \in DOMAIN Dataset : c \in Names /\ Dataset[c].labels \in Labels
  BY ServerAssumption DEF CaseRecords
<1>2. body[r].labels \in Labels
  BY DEF Bodies
<1>3. ASSUME NEW d \in Added(r)
      PROVE  d \in Decisions(Requests) /\ d.from = r /\ d.at = at[r]
  <2>1. PICK c \in DOMAIN Dataset :
          d = [from |-> r, case |-> c, at |-> at[r],
               status |-> IF Rejects(body[r], c) THEN "rejected" ELSE "approved",
               labels |-> IF Rejects(body[r], c) THEN NoLabels
                          ELSE Relabelled(Dataset[c].labels, body[r].labels)]
    BY <1>3 DEF Added, NewDecisions
  <2>2. (IF Rejects(body[r], c) THEN NoLabels
         ELSE Relabelled(Dataset[c].labels, body[r].labels)) \in Labels
    BY <1>1, <1>2, CaseFields, NoBodyType
  <2>3. c \in Names BY <1>1
  <2> QED BY <2>1, <2>2, <2>3 DEF Decisions
<1> QED BY <1>3

\* Types of the eval server: what is stored are decisions, none of them of the
\* future.
ServerTypes == TypeOK /\ (\A d \in store : d.at <= now)

LEMMA ServerTypesInv == Spec => []ServerTypes
<1> USE ServerAssumption
<1>1. Init => ServerTypes
  BY NoBodyType DEF Init, ServerTypes, TypeOK, Steps
<1>2. ServerTypes /\ [Next]_vars => ServerTypes'
  <2> SUFFICES ASSUME ServerTypes, [Next]_vars PROVE ServerTypes'
    OBVIOUS
  <2> USE DEF ServerTypes, TypeOK, Steps
  <2>1. ASSUME NEW r \in Requests, NEW token \in Tokens \cup {None},
               NEW sent \in RequestBodies \cup {Malformed}, Arrive(r, token, sent)
        PROVE  ServerTypes'
    <3>1. body' \in [Requests -> Bodies]
      BY <2>1 DEF Arrive
    <3>2. pc' \in [Requests -> Steps] /\ entitled' \subseteq Requests
      BY <2>1 DEF Arrive, Goto
    <3>3. audit' \subseteq Requests \X {"applied", "failed"}
      BY <2>1 DEF Arrive, Audited
    <3>4. UNCHANGED <<config, policy, now, seen, at, store, output, readerVars>>
      BY <2>1 DEF Arrive
    <3> QED BY <3>1, <3>2, <3>3, <3>4 DEF readerVars
  <2>2. ASSUME NEW r \in Requests, Merge(r) PROVE ServerTypes'
    BY <2>2 DEF Merge, Goto, MergedDecisions, fileVars, readerVars
  <2>3. ASSUME NEW r \in Requests, Persist(r) PROVE ServerTypes'
    <3>1. /\ Added(r) \subseteq Decisions(Requests)
          /\ \A d \in Added(r) : d.at <= now
      BY AddedDecisions
    <3> QED BY <2>3, <3>1 DEF Persist, Goto, Appended, readerVars
  <2>4. ASSUME NEW r \in Requests, ApplyFails(r) PROVE ServerTypes'
    BY <2>4 DEF ApplyFails, Goto, Audited, readerVars
  <2>5. ASSUME NEW r \in Requests, OpenOutput(r) PROVE ServerTypes'
    BY <2>5 DEF OpenOutput, Goto, readerVars
  <2>6. ASSUME NEW r \in Requests, WriteOutput(r) PROVE ServerTypes'
    BY <2>6 DEF WriteOutput, Goto, readerVars
  <2>7. ASSUME NEW r \in Requests, OutputFails(r) PROVE ServerTypes'
    BY <2>7 DEF OutputFails, Goto, readerVars
  <2>8. ASSUME NEW r \in Requests, Answer(r) PROVE ServerTypes'
    BY <2>8 DEF Answer, Goto, Audited, readerVars
  <2>9. CASE Crash
    BY <2>9 DEF Crash, fileVars, readerVars
  <2>10. CASE HarnessChecks
    BY <2>10 DEF HarnessChecks, serverVars, fileVars
  <2>11. CASE HarnessLoads
    BY <2>11 DEF HarnessLoads, Whole, serverVars, fileVars
  <2>12. CASE HarnessEnds
    BY <2>12 DEF HarnessEnds, serverVars, fileVars
  <2>13. CASE Tick
    BY <2>13 DEF Tick, serverVars, fileVars, readerVars, Decisions
  <2>14. CASE PolicyChanges
    BY <2>14 DEF PolicyChanges, serverVars, fileVars, readerVars
  <2>15. CASE UNCHANGED vars
    BY <2>15 DEF vars, serverVars, fileVars, readerVars
  <2> QED BY <2>1, <2>2, <2>3, <2>4, <2>5, <2>6, <2>7, <2>8, <2>9, <2>10, <2>11,
             <2>12, <2>13, <2>14, <2>15 DEF Next, Handle
<1> QED BY <1>1, <1>2, PTL DEF Spec

\* Types of the eval server, for any number of requests, tokens and files.
THEOREM ServerHasTypes == Spec => []TypeOK
<1>1. ServerTypes => TypeOK BY DEF ServerTypes
<1> QED BY <1>1, ServerTypesInv, PTL
---------------------------------------------------------------------------
\* Requests that were let in.
LetIn == {r \in Requests : pc[r] \notin {"new", "refused"}}

\* Whoever was let in is entitled, and so is whoever stored or wrote something.
DecidersInv ==
  /\ LetIn \subseteq entitled
  /\ OnlyReviewersDecide

\* Nothing is stored and no golden file written for anyone who could not review
\* when the request came in.
THEOREM Deciders == Spec => []OnlyReviewersDecide
<1> USE ServerAssumption
<1>1. Init => DecidersInv
  BY DEF Init, DecidersInv, LetIn, OnlyReviewersDecide, Whole
<1>2. DecidersInv /\ ServerTypes /\ ServerTypes' /\ [Next]_vars => DecidersInv'
  <2> SUFFICES ASSUME DecidersInv, ServerTypes, ServerTypes', [Next]_vars PROVE DecidersInv'
    OBVIOUS
  <2> USE DEF DecidersInv, LetIn, OnlyReviewersDecide, Whole
  <2>0. pc \in [Requests -> Steps]
    BY DEF ServerTypes, TypeOK
  <2>1. ASSUME NEW r \in Requests, NEW token \in Tokens \cup {None},
               NEW sent \in RequestBodies \cup {Malformed}, Arrive(r, token, sent)
        PROVE  DecidersInv'
    <3>1. entitled \subseteq entitled'
      BY <2>1 DEF Arrive
    <3>2. \A q \in Requests : q # r => pc'[q] = pc[q]
      BY <2>0, <2>1 DEF Arrive, Goto
    <3>3. pc'[r] \notin {"new", "refused"} => r \in entitled'
      <4>1. ASSUME pc'[r] \notin {"new", "refused"}
            PROVE  /\ Authorize(config.access, policy, "apply", token, now) = 200
                   /\ ReviewConfigured(config.access)
        BY <4>1, <2>0, <2>1 DEF Arrive, Goto
      <4>2. config.access \in AccessConfigs
        BY DEF ServerTypes, TypeOK, ServerConfigs
      <4>3. ASSUME pc'[r] \notin {"new", "refused"}
            PROVE  IsReviewer(config.access, policy, token, now)
        BY <4>1, <4>2, <4>3, AdmittedMayReview
      <4> QED BY <2>1, <4>3 DEF Arrive
    <3>4. store' = store /\ output' = output
      BY <2>1 DEF Arrive
    <3> QED BY <3>1, <3>2, <3>3, <3>4
  <2>2. ASSUME NEW r \in Requests, Merge(r) PROVE DecidersInv'
    BY <2>0, <2>2 DEF Merge, Goto, fileVars
  <2>3. ASSUME NEW r \in Requests, Persist(r) PROVE DecidersInv'
    <3>1. \A d \in Added(r) : d.from = r
      BY AddedDecisions DEF ServerTypes, TypeOK
    <3>2. r \in entitled
      BY <2>3 DEF Persist
    <3>3. \A d \in store' : d \in store \/ d \in Added(r)
      BY <2>3 DEF Persist, Appended
    <3> QED BY <2>0, <2>3, <3>1, <3>2, <3>3 DEF Persist, Goto
  <2>4. ASSUME NEW r \in Requests, ApplyFails(r) PROVE DecidersInv'
    BY <2>0, <2>4 DEF ApplyFails, Goto
  <2>5. ASSUME NEW r \in Requests, OpenOutput(r) PROVE DecidersInv'
    BY <2>0, <2>5 DEF OpenOutput, Goto
  <2>6. ASSUME NEW r \in Requests, WriteOutput(r) PROVE DecidersInv'
    BY <2>0, <2>6 DEF WriteOutput, Goto
  <2>7. ASSUME NEW r \in Requests, OutputFails(r) PROVE DecidersInv'
    BY <2>0, <2>7 DEF OutputFails, Goto
  <2>8. ASSUME NEW r \in Requests, Answer(r) PROVE DecidersInv'
    BY <2>0, <2>8 DEF Answer, Goto
  <2>9. CASE Crash
    BY <2>0, <2>9 DEF Crash, Running, fileVars
  <2>10. CASE UNCHANGED <<pc, store, output, entitled>>
    BY <2>10
  <2>11. CASE \/ HarnessChecks \/ HarnessLoads \/ HarnessEnds \/ Tick \/ PolicyChanges
              \/ UNCHANGED vars
    BY <2>10, <2>11 DEF HarnessChecks, HarnessLoads, HarnessEnds, Tick, PolicyChanges,
                        vars, serverVars, fileVars
  <2> QED BY <2>1, <2>2, <2>3, <2>4, <2>5, <2>6, <2>7, <2>8, <2>9, <2>11 DEF Next, Handle
<1>3. DecidersInv => OnlyReviewersDecide
  BY DEF DecidersInv
<1> QED BY <1>1, <1>2, <1>3, ServerTypesInv, PTL DEF Spec
---------------------------------------------------------------------------
\* The decisions a request has merged and those it adds are stored and have
\* names; it will not read or decide anything again.
Persisted(r) ==
  /\ pc[r] \notin {"new", "admitted", "merged"}
  /\ seen[r] \subseteq store
  /\ Added(r) \subseteq store
  /\ Storable(Added(r))

\* With a store, what a request has merged is stored; so is what it decided,
\* once it writes its file, whoever has its file.
BackedInv ==
  config.store =>
    /\ \A r \in Requests : seen[r] \subseteq store
    /\ \A r \in Requests : pc[r] \in {"stored", "opened", "written", "done"} => Persisted(r)
    /\ \A r \in Requests \cap {output, loaded} : Persisted(r)

\* Once persisted, always persisted: decisions are never removed, and the
\* request has left the steps in which it changes its own.
LEMMA PersistedStays ==
  ASSUME ServerTypes, [Next]_vars, NEW q \in Requests, Persisted(q)
  PROVE  Persisted(q)'
<1> SUFFICES /\ pc'[q] \notin {"new", "admitted", "merged"}
             /\ seen'[q] = seen[q] /\ body'[q] = body[q] /\ at'[q] = at[q]
             /\ store \subseteq store'
  BY DEF Persisted, Added
<1> USE DEF Persisted
<1>0. /\ pc \in [Requests -> Steps]
      /\ seen \in [Requests -> SUBSET Decisions(Requests)]
      /\ body \in [Requests -> Bodies]
      /\ at \in [Requests -> Nat]
  BY DEF ServerTypes, TypeOK
<1>1. ASSUME NEW r \in Requests, Handle(r)
      PROVE  /\ pc'[q] \notin {"new", "admitted", "merged"}
             /\ seen'[q] = seen[q] /\ body'[q] = body[q] /\ at'[q] = at[q]
             /\ store \subseteq store'
  <2>1. ASSUME NEW token \in Tokens \cup {None}, NEW sent \in RequestBodies \cup {Malformed},
               Arrive(r, token, sent)
        PROVE  /\ pc'[q] = pc[q] /\ seen' = seen /\ body'[q] = body[q] /\ at' = at
               /\ store' = store
    BY <1>0, <2>1 DEF Arrive, Goto
  <2>2. CASE Merge(r)
    BY <1>0, <2>2 DEF Merge, Goto, fileVars
  <2>3. CASE Persist(r)
    BY <1>0, <2>3 DEF Persist, Goto, Appended
  <2>4. CASE ApplyFails(r)
    BY <1>0, <2>4 DEF ApplyFails, Goto
  <2>5. CASE OpenOutput(r)
    BY <1>0, <2>5 DEF OpenOutput, Goto
  <2>6. CASE WriteOutput(r)
    BY <1>0, <2>6 DEF WriteOutput, Goto
  <2>7. CASE OutputFails(r)
    BY <1>0, <2>7 DEF OutputFails, Goto
  <2>8. CASE Answer(r)
    BY <1>0, <2>8 DEF Answer, Goto
  <2> QED BY <1>1, <2>1, <2>2, <2>3, <2>4, <2>5, <2>6, <2>7, <2>8 DEF Handle
<1>2. CASE Crash
  BY <1>0, <1>2 DEF Crash, fileVars
<1>3. CASE \/ HarnessChecks \/ HarnessLoads \/ HarnessEnds \/ Tick \/ PolicyChanges
           \/ UNCHANGED vars
  BY <1>3 DEF HarnessChecks, HarnessLoads, HarnessEnds, Tick, PolicyChanges,
              vars, serverVars, fileVars
<1> QED BY <1>1, <1>2, <1>3 DEF Next

\* No step changes the configuration, and none removes a decision.
LEMMA StoreGrows ==
  ASSUME [Next]_vars
  PROVE  config' = config /\ store \subseteq store'
<1>1. ASSUME NEW r \in Requests, Handle(r) PROVE config' = config /\ store \subseteq store'
  BY <1>1 DEF Handle, Arrive, Merge, Persist, ApplyFails, OpenOutput, WriteOutput, OutputFails,
              Answer, Appended, fileVars
<1>2. CASE \/ Crash \/ HarnessChecks \/ HarnessLoads \/ HarnessEnds \/ Tick \/ PolicyChanges
           \/ UNCHANGED vars
  BY <1>2 DEF Crash, HarnessChecks, HarnessLoads, HarnessEnds, Tick, PolicyChanges,
              vars, fileVars
<1> QED BY <1>1, <1>2 DEF Next

\* What each request has merged, decided or written, step by step.
LEMMA StepsOfOne ==
  ASSUME ServerTypes, [Next]_vars, config.store, NEW q \in Requests
  PROVE  /\ seen'[q] \in {seen[q], store}
         /\ pc'[q] \in {"stored", "opened", "written", "done"} =>
              \/ pc[q] \in {"stored", "opened", "written", "done"}
              \/ /\ pc'[q] = "stored"
                 /\ seen'[q] = seen[q] /\ body'[q] = body[q] /\ at'[q] = at[q]
                 /\ Storable(Added(q)) /\ Added(q) \subseteq store'
         /\ q \in {output', loaded'} => q \in {output, loaded} \/ pc[q] = "opened"
<1> DEFINE Goal == /\ seen'[q] \in {seen[q], store}
                   /\ pc'[q] \in {"stored", "opened", "written", "done"} =>
                        \/ pc[q] \in {"stored", "opened", "written", "done"}
                        \/ /\ pc'[q] = "stored"
                           /\ seen'[q] = seen[q] /\ body'[q] = body[q] /\ at'[q] = at[q]
                           /\ Storable(Added(q)) /\ Added(q) \subseteq store'
                   /\ q \in {output', loaded'} => q \in {output, loaded} \/ pc[q] = "opened"
<1>0. /\ pc \in [Requests -> Steps]
      /\ seen \in [Requests -> SUBSET Decisions(Requests)]
      /\ q \notin {"absent", "empty", "torn"}
  BY ServerAssumption DEF ServerTypes, TypeOK
<1>1. ASSUME NEW r \in Requests, Handle(r) PROVE Goal
  <2>1. ASSUME NEW token \in Tokens \cup {None}, NEW sent \in RequestBodies \cup {Malformed},
               Arrive(r, token, sent)
        PROVE  Goal
    <3>1. /\ pc'[q] \in {pc[q], "refused", "admitted"} /\ seen' = seen
          /\ output' = output /\ loaded' = loaded
      BY <1>0, <2>1 DEF Arrive, Goto, readerVars
    <3> QED BY <3>1
  <2>2. CASE Merge(r)
    <3>1. MergedDecisions({}, store, FALSE) = store
      BY DEF MergedDecisions
    <3> QED BY <1>0, <2>2, <3>1 DEF Merge, Goto, fileVars, readerVars
  <2>3. CASE Persist(r)
    <3>1. store' = store \cup Added(r) /\ Storable(Added(r))
      BY <2>3 DEF Persist, Appended
    <3> QED BY <1>0, <2>3, <3>1 DEF Persist, Goto, readerVars
  <2>4. CASE ApplyFails(r)
    BY <1>0, <2>4 DEF ApplyFails, Goto, readerVars
  <2>5. CASE OpenOutput(r)
    BY <1>0, <2>5 DEF OpenOutput, Goto, readerVars
  <2>6. CASE WriteOutput(r)
    BY <1>0, <2>6 DEF WriteOutput, Goto, readerVars
  <2>7. CASE OutputFails(r)
    BY <1>0, <2>7 DEF OutputFails, Goto, readerVars
  <2>8. CASE Answer(r)
    BY <1>0, <2>8 DEF Answer, Goto, readerVars
  <2> QED BY <1>1, <2>1, <2>2, <2>3, <2>4, <2>5, <2>6, <2>7, <2>8 DEF Handle
<1>2. CASE Crash
  BY <1>0, <1>2 DEF Crash, fileVars, readerVars
<1>3. CASE \/ HarnessChecks \/ HarnessLoads \/ HarnessEnds \/ Tick \/ PolicyChanges
           \/ UNCHANGED vars
  BY <1>0, <1>3 DEF HarnessChecks, HarnessLoads, HarnessEnds, Tick, PolicyChanges,
                    vars, serverVars, fileVars, readerVars
<1> QED BY <1>1, <1>2, <1>3 DEF Next

LEMMA BackedAlways == Spec => []BackedInv
<1>1. Init => BackedInv
  BY ServerAssumption DEF Init, BackedInv, Persisted
<1>2. BackedInv /\ ServerTypes /\ [Next]_vars => BackedInv'
  <2> SUFFICES ASSUME BackedInv, ServerTypes, [Next]_vars, config.store PROVE BackedInv'
    BY StoreGrows DEF BackedInv
  <2>1. /\ \A r \in Requests : seen[r] \subseteq store
        /\ \A r \in Requests : pc[r] \in {"stored", "opened", "written", "done"} => Persisted(r)
        /\ \A r \in Requests \cap {output, loaded} : Persisted(r)
    BY DEF BackedInv
  <2>2. ASSUME NEW r \in Requests PROVE seen'[r] \subseteq store'
    BY <2>1, StepsOfOne, StoreGrows
  <2>3. ASSUME NEW r \in Requests, pc'[r] \in {"stored", "opened", "written", "done"}
        PROVE  Persisted(r)'
    <3>1. CASE pc[r] \in {"stored", "opened", "written", "done"}
      BY <2>1, <3>1, PersistedStays
    <3>2. CASE pc[r] \notin {"stored", "opened", "written", "done"}
      <4>1. /\ pc'[r] = "stored"
            /\ body'[r] = body[r] /\ at'[r] = at[r]
            /\ Storable(Added(r)) /\ Added(r) \subseteq store'
        BY <2>3, <3>2, StepsOfOne
      <4>2. Added(r)' = Added(r)
        BY <4>1 DEF Added
      <4> QED BY <2>2, <4>1, <4>2 DEF Persisted
    <3> QED BY <3>1, <3>2
  <2>4. ASSUME NEW r \in Requests, r \in {output', loaded'}
        PROVE  Persisted(r)'
    BY <2>1, <2>4, StepsOfOne, PersistedStays
  <2> QED BY <2>2, <2>3, <2>4 DEF BackedInv
<1> QED BY <1>1, <1>2, ServerTypesInv, PTL DEF Spec

\* Every approval in a whole golden file, and in what the harness has loaded,
\* is a stored decision.
THEOREM Backing == Spec => []ApprovalsAreBacked
<1>1. BackedInv /\ ServerTypes => ApprovalsAreBacked
  <2> SUFFICES ASSUME BackedInv, ServerTypes, config.store,
                      NEW r \in Requests \cap {output, loaded}
               PROVE  /\ DocDecisions(r) \subseteq store
                      /\ \A c \in Names \cap DOMAIN DocCases(r) :
                           DocCases(r)[c].status = "approved" /\ Dataset[c].status # "approved" =>
                             \E d \in store : d.case = c /\ d.status = "approved"
    BY DEF ApprovalsAreBacked
  <2>1. seen[r] \subseteq store /\ Added(r) \subseteq store
    BY DEF BackedInv, Persisted
  <2>2. ASSUME NEW c \in DOMAIN DocCases(r), DocCases(r)[c].status = "approved",
               Dataset[c].status # "approved"
        PROVE  \E d \in store : d.case = c /\ d.status = "approved"
    <3>1. /\ c \in DOMAIN Dataset /\ ~Rejects(body[r], c)
          /\ DocCases(r)[c] = IF Approves(body[r], c) THEN ApprovedCase(Dataset[c], body[r])
                                                      ELSE Dataset[c]
      BY DEF DocCases, Reviewed
    <3>2. Approves(body[r], c)
      BY <2>2, <3>1
    <3>3. [from |-> r, case |-> c, at |-> at[r], status |-> "approved",
           labels |-> Relabelled(Dataset[c].labels, body[r].labels)] \in Added(r)
      BY <3>1, <3>2 DEF Added, NewDecisions, Decides
    <3> QED BY <2>1, <3>3
  <2> QED BY <2>1, <2>2 DEF DocDecisions
<1> QED BY <1>1, BackedAlways, ServerTypesInv, PTL
---------------------------------------------------------------------------
LEMMA LeastNatural ==
  ASSUME NEW naturals \in SUBSET Nat, naturals # {}
  PROVE  \E n \in naturals : \A m \in naturals : n <= m
<1>1. PICK n \in naturals : \A m \in naturals : <<m, n>> \notin OpToRel(<, Nat)
  BY NatLessThanWellFounded, WFMin, Zenon
<1>2. \A m \in naturals : ~ (m < n)
  BY <1>1, Zenon DEF OpToRel
<1> QED BY <1>2

\* Decisions up to some moment have a latest one.
LEMMA LatestIsOne ==
  ASSUME NEW decisions, NEW n \in Nat, decisions # {},
         \A d \in decisions : d.at \in Nat /\ d.at <= n
  PROVE  Latest(decisions) \in decisions
<1> DEFINE ages == {n - d.at : d \in decisions}
<1>1. ages \in SUBSET Nat /\ ages # {}
  OBVIOUS
<1>2. PICK age \in ages : \A other \in ages : age <= other
  BY <1>1, LeastNatural
<1>3. PICK d \in decisions : age = n - d.at
  OBVIOUS
<1>4. ASSUME NEW e \in decisions PROVE e.at <= d.at
  <2>1. n - d.at <= n - e.at
    BY <1>2, <1>3
  <2> QED BY <2>1
<1>5. \E latest \in decisions : \A e \in decisions : e.at <= latest.at
  BY <1>4
<1> QED BY <1>5 DEF Latest

\* The status shown of a case is "conflict" exactly if its decisions conflict;
\* if they do not, it is the status of every one of them.
LEMMA StatusShown ==
  ASSUME ServerTypes, NEW case \in CaseRecords \cup {NoCase}, NEW decisions \in SUBSET store
  PROVE  /\ CurrentStatus(case, decisions, Tolerance) = "conflict"
              <=> Conflicts(decisions, Tolerance) # {}
         /\ \A d \in decisions : CurrentStatus(case, decisions, Tolerance) \in {d.status, "conflict"}
<1>1. \A d \in decisions : d.at \in Nat /\ d.at <= now /\ d.status \in {"approved", "rejected"}
  BY DEF ServerTypes, TypeOK, Decisions
<1>2. now \in Nat
  BY DEF ServerTypes, TypeOK
<1>3. decisions # {} => Latest(decisions) \in decisions
  BY <1>1, <1>2, LatestIsOne
<1>4. CASE Conflicts(decisions, Tolerance) # {}
  BY <1>4 DEF CurrentStatus
<1>5. CASE Conflicts(decisions, Tolerance) = {} /\ decisions # {}
  <2>1. CurrentStatus(case, decisions, Tolerance) = Latest(decisions).status
    BY <1>5 DEF CurrentStatus
  <2>2. \A d, e \in decisions : d.status = e.status
    <3>1. "status" \notin Conflicts(decisions, Tolerance)
      BY <1>5
    <3> QED BY <3>1 DEF Conflicts
  <2> QED BY <1>1, <1>3, <1>5, <2>1, <2>2
<1>6. CASE Conflicts(decisions, Tolerance) = {} /\ decisions = {}
  <2>1. case.status # Unset => case.status \in {"pending", "approved"}
    BY DEF CaseRecords, NoCase
  <2> QED BY <1>6, <2>1 DEF CurrentStatus
<1> QED BY <1>4, <1>5, <1>6

\* What the status view shows, and of which cases.
LEMMA ViewShows ==
  ASSUME NEW decisions
  PROVE  /\ \A c \in DOMAIN View(decisions) :
              View(decisions)[c] =
                CurrentStatus(IF c \in DOMAIN Dataset THEN Dataset[c] ELSE NoCase,
                              About(decisions, c), Tolerance)
         /\ DOMAIN View(decisions) =
              (DOMAIN Dataset \cup {d.case : d \in decisions}) \ {Unnamed}
BY DEF View, StateView

LEMMA ShownCase ==
  ASSUME NEW c
  PROVE  (IF c \in DOMAIN Dataset THEN Dataset[c] ELSE NoCase) \in CaseRecords \cup {NoCase}
BY ServerAssumption

\* What a reviewer was told is done stays on show, or a conflict does.
THEOREM AcksShow == Spec => []AckedReviewsShow
<1>1. BackedInv /\ ServerTypes => AckedReviewsShow
  <2> SUFFICES ASSUME BackedInv, ServerTypes, config.store,
                      NEW r \in Requests, pc[r] = "done", NEW d \in Added(r)
               PROVE  View(store)[d.case] \in {d.status, "conflict"}
    BY DEF AckedReviewsShow
  <2>1. d \in store /\ d.case # Unnamed
    BY DEF BackedInv, Persisted, Storable
  <2>2. d.case \in DOMAIN View(store)
    BY <2>1, ViewShows
  <2>3. d \in About(store, d.case) /\ About(store, d.case) \in SUBSET store
    BY <2>1 DEF About
  <2> DEFINE case == IF d.case \in DOMAIN Dataset THEN Dataset[d.case] ELSE NoCase
  <2>4. View(store)[d.case] = CurrentStatus(case, About(store, d.case), Tolerance)
    BY <2>2, ViewShows
  <2>5. case \in CaseRecords \cup {NoCase}
    BY ShownCase
  <2> HIDE DEF case
  <2> QED BY <2>3, <2>4, <2>5, StatusShown
<1> QED BY <1>1, BackedAlways, ServerTypesInv, PTL

\* A conflict that is shown stays.
THEOREM ConflictsRemain == Spec => ConflictsStay
<1> DEFINE Stays == \A c \in DOMAIN View(store) :
                      View(store)[c] = "conflict" => View(store')[c] = "conflict"
<1>1. ServerTypes /\ ServerTypes' /\ [Next]_vars => [Stays]_store
  <2> SUFFICES ASSUME ServerTypes, ServerTypes', [Next]_vars,
                      NEW c \in DOMAIN View(store), View(store)[c] = "conflict"
               PROVE  View(store')[c] = "conflict"
    OBVIOUS
  <2> DEFINE case == IF c \in DOMAIN Dataset THEN Dataset[c] ELSE NoCase
  <2>1. About(store, c) \subseteq About(store', c) /\ About(store, c) \in SUBSET store
    BY StoreGrows DEF About
  <2>2. Conflicts(About(store, c), Tolerance) # {}
    <3>1. View(store)[c] = CurrentStatus(case, About(store, c), Tolerance)
      BY ViewShows
    <3>2. case \in CaseRecords \cup {NoCase}
      BY ShownCase
    <3> HIDE DEF case
    <3> QED BY <2>1, <3>1, <3>2, StatusShown
  <2>3. Conflicts(About(store', c), Tolerance) # {}
    BY <2>1, <2>2 DEF Conflicts
  <2>4. c \in DOMAIN View(store')
    <3>1. {d.case : d \in store} \subseteq {d.case : d \in store'}
      BY StoreGrows
    <3>2. DOMAIN View(store) = (DOMAIN Dataset \cup {d.case : d \in store}) \ {Unnamed}
      BY ViewShows
    <3>3. DOMAIN View(store') = (DOMAIN Dataset \cup {d.case : d \in store'}) \ {Unnamed}
      BY ViewShows
    <3> QED BY <3>1, <3>2, <3>3, Zenon
  <2>5. View(store')[c] = CurrentStatus(case, About(store', c), Tolerance)
    BY <2>4, ViewShows
  <2> QED BY <2>3, <2>5 DEF CurrentStatus
<1> QED BY <1>1, ServerTypesInv, PTL DEF Spec, ConflictsStay
=============================================================================
