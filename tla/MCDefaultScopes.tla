-------------------------- MODULE MCDefaultScopes --------------------------
(* The tool pipeline as the command line and the chat build it when no       *)
(* environment variable is set: the default policy, no budget, the default   *)
(* tools, and an identity from the environment.  One read and one write.     *)
EXTENDS ToolPipeline, ToolCatalog

CONSTANTS list, note, run

DefaultCalls == {list, note}
DefaultIdemKey == [c \in DefaultCalls |-> c]
DefaultBudgetKey == [c \in DefaultCalls |-> run]
DefaultToolOf ==
  [c \in DefaultCalls |-> DefaultTool(IF c = list THEN "todo.list" ELSE "note.add")]
DefaultPolicy == [denied |-> {}, risks |-> {"high"}, effects |-> {}]

DefaultAllowed ==
  LET scopes == AllowedScopes(NoLimit, IdentityFromEnv(Unset, Unset))
  IN  [c \in DefaultCalls |->
         IF scopes = NoLimit THEN {DefaultTool(name).scope : name \in DefaultNames}
         ELSE scopes]

\* What build_runtime_identity_from_env says of itself: permission scopes are
\* not limited by default.  A call that needs no approval and has no budget to
\* exceed gets to its tool.
DefaultsDoNotRestrict == \A c \in Calls : pc[c] = "returned" => attempt[c] > 0
=============================================================================
