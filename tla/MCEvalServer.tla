---------------------------- MODULE MCEvalServer ----------------------------
(* Three requests about a dataset of two cases, from a reviewer, a viewer, an *)
(* outside reviewer whose token expires and whose tenant may be shut out, or  *)
(* nobody; to a secured server, one without a store, and one without tokens.  *)
EXTENDS EvalServer, MCEvalGates

CONSTANTS r1, r2, r3, c1, c2, noname, reviewer, viewer, outsider

MCClaims == [t \in {reviewer, viewer, outsider} |->
  IF t = outsider
    THEN [secret |-> "s", tenant |-> "t", scopes |-> {REVIEW_SCOPE}, expires |-> 1]
    ELSE NoClaims]

MCDataset == [c \in Names |-> [required |-> TRUE, status |-> "pending", labels |-> NoLabels]]

ApproveAll == [NoBody EXCEPT !.all = TRUE]
RejectOne == [NoBody EXCEPT !.reject = {c1}]
MCBodies == {ApproveAll, RejectOne}

Open == [auth |-> None, viewer |-> None, reviewer |-> None, secret |-> None,
         tenants |-> FALSE]
Secured == [Open EXCEPT !.viewer = viewer, !.reviewer = reviewer, !.secret = "s",
                        !.tenants = TRUE]
MCConfigs ==
  {[access |-> Secured, files |-> TRUE, store |-> TRUE, audit |-> FALSE],
   [access |-> Secured, files |-> TRUE, store |-> FALSE, audit |-> FALSE],
   [access |-> Open, files |-> TRUE, store |-> TRUE, audit |-> TRUE]}

MayDo(scopes) == [enabled |-> TRUE, scopes |-> scopes]
MCPolicies ==
  {("local_static" :> MayDo(Scopes)) @@ ("t" :> MayDo({REVIEW_SCOPE})),
   ("local_static" :> MayDo(Scopes))}

\* Without a token of a known viewer, only the health route of a server that
\* asks for tokens answers anything.
ASSUME StrangersSeeHealthOnly ==
  \A server \in MCConfigs, file \in MCPolicies, method \in {"GET", "POST"}, hour \in 0..1,
     path \in {"dashboard", "health", "status", "decisions", "apply", "x"},
     token \in Tokens \cup {None} :
    AuthRequired(server.access)
      /\ ReadStatus(server, file, method, path, token, hour) \notin {401, 403} =>
        \/ path = "health"
        \/ /\ token # None
           /\ Known(server.access, token, hour)
           /\ VIEW_SCOPE \in Principal(server.access, token).scopes

\* Following hasMore from the first page shows every decision once, unless the
\* client asks for pages of nothing, which always have more.
ASSUME PagesCoverTheList ==
  \A total \in 0..4, limit \in 0..3 :
    LET list == [i \in 1..total |-> [case |-> IF i < 3 THEN c1 ELSE c2]]
        page(k) == Page(total, list, limit, k * limit)
    IN  IF limit = 0 THEN page(0).hasMore <=> total > 0
        ELSE /\ \A i \in 1..total :
                  page((i - 1) \div limit).decisions[((i - 1) % limit) + 1] = list[i]
             /\ \A k \in 0..4 : page(k).hasMore <=> page(k + 1).decisions # <<>>
             /\ Len(Listed(list, c1)) = IF total < 2 THEN total ELSE 2

Alike == Permutations(Requests)
=============================================================================
