----------------------------- MODULE EvalAccess -----------------------------
(* Who may call the eval governance server: static and signed tokens, their  *)
(* scopes, and the tenant policy file, which is read for every request       *)
(* (evalops/governance: server.py, auth_tokens.py, tenant_policy.py).        *)
EXTENDS Integers

CONSTANTS
  Tokens,      \* strings a client may send after "Bearer "
  Claims,      \* token -> what a signed token says, NoClaims for any other string
  NoClaims,
  None         \* an option that is not set, a header that is missing

VIEW_SCOPE == "eval.viewer"
REVIEW_SCOPE == "eval.reviewer"
Scopes == {VIEW_SCOPE, REVIEW_SCOPE}

\* Tenant of every static token.
LocalTenant == "local_static"

\* AuthClaims, with the secret the token was signed with.
AuthClaims == [secret : STRING, tenant : STRING, scopes : SUBSET Scopes, expires : Nat]

ASSUME AccessAssumption ==
  /\ Claims \in [Tokens -> AuthClaims \cup {NoClaims}]
  /\ NoClaims \notin AuthClaims
  /\ None \notin Tokens \cup STRING

\* EvalServerConfig: the options that decide who may do what.
AccessConfigs ==
  [auth : Tokens \cup {None}, viewer : Tokens \cup {None}, reviewer : Tokens \cup {None},
   secret : STRING \cup {None}, tenants : BOOLEAN]

\* A tenant policy file: the tenants it lists, enabled or not, and what they
\* may do, whatever their tokens say.
TenantPolicies(tenants) ==
  UNION {[listed -> [enabled : BOOLEAN, scopes : SUBSET Scopes]] :
           listed \in SUBSET tenants}
---------------------------------------------------------------------------
\* `_configured_token_scopes`: one string may be configured in two roles.
StaticScopes(config, token) ==
  (IF token = config.auth THEN {VIEW_SCOPE, REVIEW_SCOPE} ELSE {})
    \cup (IF token = config.viewer THEN {VIEW_SCOPE} ELSE {})
    \cup (IF token = config.reviewer THEN {VIEW_SCOPE, REVIEW_SCOPE} ELSE {})

AuthRequired(config) ==
  \/ {config.auth, config.viewer, config.reviewer} # {None}
  \/ config.secret # None

\* `verify_signed_token`: a good signature that has not expired.
Verified(config, token, now) ==
  /\ config.secret # None
  /\ Claims[token] # NoClaims
  /\ Claims[token].secret = config.secret
  /\ now < Claims[token].expires

\* `_principal_for_token`: a static token first, then a signed one.
Known(config, token, now) ==
  StaticScopes(config, token) # {} \/ Verified(config, token, now)

Principal(config, token) ==
  IF StaticScopes(config, token) # {}
    THEN [tenant |-> LocalTenant, scopes |-> StaticScopes(config, token)]
    ELSE [tenant |-> Claims[token].tenant, scopes |-> Claims[token].scopes]

\* TenantPolicyStore.evaluate: an unlisted tenant may do nothing.
TenantAllows(policy, tenant, scope) ==
  /\ tenant \in DOMAIN policy
  /\ policy[tenant].enabled
  /\ scope \in policy[tenant].scopes

\* Mutant: a POST needs no more than a GET.
RequiredScopeOfGet(route) == VIEW_SCOPE

\* `_required_scope`, of the routes that need one.
RequiredScope(route) == IF route = "apply" THEN REVIEW_SCOPE ELSE VIEW_SCOPE

\* `_authorize`: the status it answers with, 200 to go on.
Authorize(config, policy, route, token, now) ==
  LET scope == RequiredScope(route) IN
  IF route = "health" \/ ~AuthRequired(config) THEN 200
  ELSE IF token = None \/ ~Known(config, token, now) THEN 401
  ELSE IF scope \notin Principal(config, token).scopes THEN 403
  ELSE IF config.tenants
            /\ ~TenantAllows(policy, Principal(config, token).tenant, scope) THEN 403
  ELSE 200

\* `_has_configured_scope(REVIEW_SCOPE)`: applying is off on a server that asks
\* nobody for a token.
ReviewConfigured(config) ==
  \/ \E token \in Tokens : REVIEW_SCOPE \in StaticScopes(config, token)
  \/ config.secret # None
\* handle_eval_request, of anything but a POST of a review: a route is looked at
\* only once the caller is admitted.
ReadStatus(server, policy, method, path, token, now) ==
  LET route == IF path = "apply" THEN "unknown" ELSE path
      admitted == Authorize(server.access, policy, route, token, now)
  IN  IF admitted # 200 THEN admitted
      ELSE IF method # "GET" THEN 405
      ELSE IF route \in {"dashboard", "health", "rubrics"} THEN 200
      ELSE IF route = "status" THEN IF server.files THEN 200 ELSE 409
      ELSE IF route = "decisions" THEN IF server.store THEN 200 ELSE 409
      ELSE 404
---------------------------------------------------------------------------
\* What the routes together promise, said without their order: the token is one
\* of the two static tokens that may review, or it is signed, not expired and
\* carries the scope; and its tenant, if tenants are checked, may review.
IsReviewer(config, policy, token, now) ==
  /\ token # None
  /\ \/ token \in {config.auth, config.reviewer}
     \/ /\ token # config.viewer
        /\ Verified(config, token, now)
        /\ REVIEW_SCOPE \in Claims[token].scopes
  /\ config.tenants =>
       LET tenant == IF token \in {config.auth, config.viewer, config.reviewer}
                       THEN LocalTenant ELSE Claims[token].tenant
       IN TenantAllows(policy, tenant, REVIEW_SCOPE)
=============================================================================
