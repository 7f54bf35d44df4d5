----------------------------- MODULE EvalReview -----------------------------
(* Reviewing an eval dataset: what one approve/reject request makes of the   *)
(* cases, and what several reviewers' decisions say together                 *)
(* (evalops/review.py, and the rows of evalops/review_store.py).             *)
(*                                                                           *)
(* A dataset's cases are a function from names to cases.  Decisions are a    *)
(* set: they are listed by time and then by a random id, so that nothing may *)
(* depend on the order of two decisions of one moment (StatusIgnoresOrder).  *)
EXTENDS EvalCases

CONSTANTS
  Names,       \* names of cases
  Unnamed      \* the empty name, which a decision must not have

\* What review reads and writes of a case; the rest is copied.
CaseRecords == [required : BOOLEAN, status : {Unset, "pending", "approved"},
                labels : Labels]

\* The body of a request: names to approve and to reject, approveAll, labels.
Bodies == [approve : SUBSET Names, reject : SUBSET Names, all : BOOLEAN,
           labels : Labels]

\* A decision row; `from` and `case` stand for its id.
Decisions(requests) ==
  [from : requests, case : Names, status : {"approved", "rejected"},
   labels : Labels, at : Nat]
---------------------------------------------------------------------------
\* review_dataset: a rejection wins, a case nobody names is copied as it is.
Rejects(body, c) == c \in body.reject
Approves(body, c) == ~Rejects(body, c) /\ (body.all \/ c \in body.approve)
Decides(body, c) == Rejects(body, c) \/ Approves(body, c)

\* `_apply_judge_labels`: a label that is not given leaves the old one.
Relabelled(old, given) ==
  [passed |-> IF given.passed = Unset THEN old.passed ELSE given.passed,
   score |-> IF given.score = Unset THEN old.score ELSE given.score]

ApprovedCase(case, body) ==
  [required |-> FALSE, status |-> "approved",
   labels |-> Relabelled(case.labels, body.labels)]

\* The output's cases: the rejected ones are left out.
Reviewed(cases, body) ==
  [c \in {n \in DOMAIN cases : ~Rejects(body, n)} |->
     IF Approves(body, c) THEN ApprovedCase(cases[c], body) ELSE cases[c]]

\* Mutant: the decision says what was asked, "approve" or "reject".
NewDecisionsAsked(cases, body, from, at) ==
  {[from |-> from, case |-> c, at |-> at,
    status |-> IF Rejects(body, c) THEN "reject" ELSE "approve",
    labels |-> Relabelled(cases[c].labels, body.labels)] :
     c \in {n \in DOMAIN cases : Decides(body, n)}}

\* The decisions a request adds: one per case it approves or rejects, with the
\* labels the case then has (`_judge_labels_for_decision`).
NewDecisions(cases, body, from, at) ==
  {[from |-> from, case |-> c, at |-> at,
    status |-> IF Rejects(body, c) THEN "rejected" ELSE "approved",
    labels |-> IF Rejects(body, c) THEN NoLabels
                                   ELSE Relabelled(cases[c].labels, body.labels)] :
     c \in {n \in DOMAIN cases : Decides(body, n)}}

\* `_normalize_decision` refuses a decision without a case name, and with it
\* all the decisions of its request.
Storable(decisions) == \A d \in decisions : d.case # Unnamed

\* require_reviewed_dataset.
AllReviewed(cases) == \A c \in DOMAIN cases : ~cases[c].required

\* `_review_summary`.
Summary(cases, decisions) ==
  [approved |-> Cardinality({c \in DOMAIN cases :
                   cases[c].status = "approved" /\ ~cases[c].required}),
   pending  |-> Cardinality({c \in DOMAIN cases : cases[c].required}),
   rejected |-> Cardinality({d \in decisions : d.status = "rejected"})]
---------------------------------------------------------------------------
\* append_decisions: rows are added under their id, in one transaction, or none.
Appended(rows, decisions) == rows \cup decisions

\* merge_decisions_into_dataset: the store's rows, and the dataset's own
\* decisions only when asked for; a row with a known id counts once.
MergedDecisions(own, rows, includeExisting) ==
  IF includeExisting THEN own \cup rows ELSE rows

\* list_decisions, of one case or (Unset) of all.
Listed(list, case) == SelectSeq(list, LAMBDA d : case \in {Unset, d.case})

\* query_decisions: `total` is counted in a transaction before the one that
\* lists the rows.
Page(total, list, limit, offset) ==
  LET last == IF offset + limit < Len(list) THEN offset + limit ELSE Len(list)
      shown == SubSeq(list, offset + 1, last)
  IN  [decisions |-> shown, hasMore |-> offset + Len(shown) < total]
---------------------------------------------------------------------------
\* Mutant: the decisions of the last moment replace the older ones.
AboutNow(decisions, c) ==
  {d \in decisions : d.case = c /\ c # Unnamed
                     /\ \A e \in decisions : e.case = c => e.at <= d.at}

\* `_decisions_by_case`: one without a case name is not shown.
About(decisions, c) == {d \in decisions : d.case = c /\ c # Unnamed}

\* `_agreement_conflicts`, of the decisions about one case.
Conflicts(decisions, tolerance) ==
  {kind \in {"status", "passed", "score"} :
     \E d, e \in decisions :
       \/ kind = "status" /\ d.status # e.status
       \/ /\ kind = "passed"
          /\ Unset \notin {d.labels.passed, e.labels.passed}
          /\ d.labels.passed # e.labels.passed
       \/ /\ kind = "score"
          /\ Unset \notin {d.labels.score, e.labels.score}
          /\ d.labels.score - e.labels.score > tolerance}

\* The last decision in the store's order, one of several of the same moment.
Latest(decisions) ==
  CHOOSE d \in decisions : \A e \in decisions : e.at <= d.at

\* `_current_review_status`.
CurrentStatus(case, decisions, tolerance) ==
  IF Conflicts(decisions, tolerance) # {} THEN "conflict"
  ELSE IF decisions # {} THEN Latest(decisions).status
  ELSE IF case.status # Unset THEN case.status
  ELSE IF case.required THEN "pending" ELSE "ready"

\* A case the dataset no longer has is shown by its decisions alone.
NoCase == [required |-> FALSE, status |-> Unset,
           labels |-> NoLabels]

\* review_state: the cases of the dataset and those only decided on.
StateView(cases, decisions, tolerance) ==
  [c \in (DOMAIN cases \cup {d.case : d \in decisions}) \ {Unnamed} |->
     CurrentStatus(IF c \in DOMAIN cases THEN cases[c] ELSE NoCase,
                   About(decisions, c), tolerance)]

\* `needsReview` of review_state, and the counts of `_review_state_summary`.
NeedsReview(view) == {c \in DOMAIN view : view[c] \in {"pending", "conflict"}}
Ready(view) == {c \in DOMAIN view : view[c] \in {"approved", "ready"}}

\* review_agreement: the cases several decisions disagree on.
Disputed(decisions, tolerance) ==
  {c \in {d.case : d \in decisions} \ {Unnamed} :
     Conflicts(About(decisions, c), tolerance) # {}}
=============================================================================
