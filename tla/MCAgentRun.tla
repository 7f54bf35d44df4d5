----------------------------- MODULE MCAgentRun -----------------------------
(* A run of at most two steps, with a responder, under the default identity  *)
(* or another one.                                                           *)
EXTENDS EvalDataset

CONSTANTS local, guest

MCNamespaces == {local, guest}
=============================================================================
