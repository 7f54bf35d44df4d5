---------------------------- MODULE ToolCatalog ----------------------------
(* The tools ToolRegistry registers by itself, its gate and its catalog      *)
(* checks (tools/registry.py), and the identity the command line and the     *)
(* chat build from the environment (runtime/context.py).                     *)
EXTENDS Integers, FiniteSets

CONSTANTS
  Unset,      \* an environment variable that is not set
  NoLimit     \* None: permission scopes are not limited

\* What governance and the gate read of a ToolSpec.
ReadTool(scope) ==
  [scope |-> scope, approval |-> FALSE, risk |-> "low", effect |-> "read",
   cost |-> 1, retries |-> 0]

WriteTool(scope) ==
  [scope |-> scope, approval |-> FALSE, risk |-> "medium", effect |-> "write",
   cost |-> 2, retries |-> 0]

DefaultNames == {"calculator", "note.add", "todo.add", "todo.list", "study.plan", "memory.add"}

\* `_register_defaults`.
DefaultTool(name) ==
  CASE name = "calculator" -> ReadTool("tool:calculator:read")
    [] name = "note.add" -> WriteTool("memory:note:write")
    [] name = "todo.add" -> WriteTool("memory:todo:write")
    [] name = "todo.list" -> ReadTool("memory:todo:read")
    [] name = "study.plan" -> ReadTool("study:plan:read")
    [] name = "memory.add" -> WriteTool("memory:long_term:write")

\* memory.add leaves sensitive texts to the memory policy.
GuardsSensitive(name) == name \in {"note.add", "todo.add"}

\* ToolRegistry.execute gets to the tool.
Gate(known, lifecycle, guarded, sensitive) ==
  known /\ lifecycle # "removed" /\ ~(guarded /\ sensitive)

\* validate_catalog: what is wrong with a tool of a catalog, a function from
\* names to metadata.
CatalogErrors(catalog, name) ==
  LET tool == catalog[name]
      leaving == tool.lifecycle \in {"deprecated", "removed"}
  IN {error \in {"version", "owner", "replacedBy", "unknown", "notes", "deprecatedIn"} :
        \/ error = "version" /\ tool.version = ""
        \/ error = "owner" /\ tool.owner = ""
        \/ error = "replacedBy" /\ leaving /\ tool.replacedBy = ""
        \/ error = "unknown" /\ leaving /\ tool.replacedBy \notin DOMAIN catalog \cup {""}
        \/ error = "notes" /\ leaving /\ tool.notes = ""
        \/ error = "deprecatedIn" /\ tool.lifecycle = "deprecated" /\ tool.deprecatedIn = ""}

ValidCatalog(catalog) == \A name \in DOMAIN catalog : CatalogErrors(catalog, name) = {}
---------------------------------------------------------------------------
Least(a, b) == IF a <= b THEN a ELSE b
Most(a, b) == IF a >= b THEN a ELSE b

\* `_coerce_positive_int`.
PositiveInt(value, default) == IF value \in Int /\ value > 0 THEN value ELSE default

\* `_study_plan`: minutes of its three steps, 0 for one that is left out.  The
\* last takes what is left.
StepMinutes(max) == Most(5, Least(15, IF max \div 3 > 0 THEN max \div 3 ELSE max))

StudyPlan(max) ==
  LET first == Least(StepMinutes(max), max)
      second == Least(StepMinutes(max), max - first)
  IN <<first, second, max - first - second>>
---------------------------------------------------------------------------
\* `_csv_set` of a variable, as the set of items between its commas.
CsvSet(items) == IF items = Unset THEN {} ELSE items \ {""}

\* build_runtime_identity_from_env.
IdentityFromEnv(scopes, roles) ==
  [scopes |-> CsvSet(scopes),
   roles |-> IF CsvSet(roles) = {} THEN {"developer"} ELSE CsvSet(roles)]

\* `_allowed_scopes`: those of the policy, or else of the identity.
AllowedScopes(policyScopes, identity) ==
  IF policyScopes = NoLimit THEN identity.scopes ELSE policyScopes
=============================================================================
