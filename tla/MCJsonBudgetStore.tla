------------------------- MODULE MCJsonBudgetStore -------------------------
(* Three processes: two charge run k1, of which the limit admits one, and    *)
(* one charges run k2 through the same file.                                *)
EXTENDS JsonBudgetStore

CONSTANTS r1, r2, r3, k1, k2

MCRequests == {r1, r2, r3}
MCKeys == {k1, k2}
MCKeyOf == [r \in MCRequests |-> IF r = r3 THEN k2 ELSE k1]
MCCostOf == [r \in MCRequests |-> IF r = r1 THEN 2 ELSE 1]
MCMaxCost == 2
===========================================================================
