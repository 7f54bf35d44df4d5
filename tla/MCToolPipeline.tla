--------------------------- MODULE MCToolPipeline ---------------------------
(* c1 and c2 are the same write call made twice (one idempotency key), with  *)
(* one retry.  In the Paid instance c3 is a high-risk read, approved or not, *)
(* and the run cannot pay for all three; the Free instance has no limit.     *)
EXTENDS ToolPipeline, TLC

CONSTANTS c1, c2, c3, run, key12, key3

Policies == [denied |-> {"mail"}, risks |-> {"high"}, effects |-> {}]
WriteTool == [scope |-> "todo", approval |-> FALSE, risk |-> "low",
              effect |-> "write", cost |-> 2, retries |-> 1]
ReadTool == [scope |-> "calc", approval |-> FALSE, risk |-> "high",
             effect |-> "read", cost |-> 1, retries |-> 0]

PaidCalls == {c1, c2, c3}
PaidKeys == {run}
PaidIdemKeys == {key12, key3}
PaidBudgetKey == [c \in PaidCalls |-> run]
PaidIdemKey == [c \in PaidCalls |-> IF c = c3 THEN key3 ELSE key12]
PaidAllowed == [c \in PaidCalls |-> {"todo", "calc", "mail"}]
PaidTool == [c \in PaidCalls |-> IF c = c3 THEN ReadTool ELSE WriteTool]
PaidMaxCost == 4

FreeCalls == {c1, c2}
FreeIdemKeys == {key12}
FreeBudgetKey == [c \in FreeCalls |-> run]
FreeIdemKey == [c \in FreeCalls |-> key12]
FreeAllowed == [c \in FreeCalls |-> {"todo"}]
FreeTool == [c \in FreeCalls |-> WriteTool]

SameCall == Permutations({c1, c2})
=============================================================================
