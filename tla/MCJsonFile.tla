----------------------------- MODULE MCJsonFile -----------------------------
(* Two threads of an agent's process and one of the memory review server,    *)
(* two updates each; or three threads of two processes that store tool       *)
(* results.  Any of them may be there or not, fail anywhere, or die anywhere. *)
EXTENDS JsonFile, TLC

CONSTANTS a, server, a1, a2, s1

MCProcess == [s \in Savers |-> IF s = s1 THEN server ELSE a]

Alike == Permutations({a1, a2})
=============================================================================
