---------------------------- MODULE ToolBudget ----------------------------
(***************************************************************************)
(* What a ToolBudgetStore promises to the tool pipeline: reserve() reads   *)
(* the units a budget key has used, adds the cost of the call and, when    *)
(* the total stays within the limit, records it, all in one step.          *)
(* InMemoryToolBudgetStore (in one thread) and SQLiteToolBudgetStore       *)
(* (BEGIN IMMEDIATE ... COMMIT) do exactly this; JsonBudgetStore shows     *)
(* that the JSON file store under its lock implements it.                  *)
(***************************************************************************)
EXTENDS Integers, FiniteSetsExt

CONSTANTS
  Requests,   \* the reserve() calls made over the life of the store
  Keys,       \* budget keys, one per tenant and run
  KeyOf,      \* the budget key each request charges
  CostOf,     \* the costUnits of the tool each request is for
  MaxCost     \* max_cost_units_per_run

VARIABLES
  used,       \* units used so far, per budget key
  decision    \* the ToolBudgetDecision each request has got

budgetVars == <<used, decision>>

Decisions == {"pending", "allowed", "denied"}

BudgetTypeOK ==
  /\ used \in [Keys -> Nat]
  /\ decision \in [Requests -> Decisions]

\* The used_after a request would leave on its key, given balances u.
Projected(u, r) == u[KeyOf[r]] + CostOf[r]

\* Mutant: the check looks at the balance before the charge.
FitsBefore(u, r) == u[KeyOf[r]] <= MaxCost

\* The limit applies to the balance the charge would leave.
Fits(u, r) == Projected(u, r) <= MaxCost

\* Balances u once request r has been charged.
Charge(u, r) == [u EXCEPT ![KeyOf[r]] = Projected(u, r)]

BudgetInit ==
  /\ used = [k \in Keys |-> 0]
  /\ decision = [r \in Requests |-> "pending"]

Allow(r) ==
  /\ decision[r] = "pending"
  /\ Fits(used, r)
  /\ used' = Charge(used, r)
  /\ decision' = [decision EXCEPT ![r] = "allowed"]

Refuse(r) ==
  /\ decision[r] = "pending"
  /\ ~Fits(used, r)
  /\ decision' = [decision EXCEPT ![r] = "denied"]
  /\ UNCHANGED used

Reserve(r) == Allow(r) \/ Refuse(r)

BudgetNext == \E r \in Requests : Reserve(r)

BudgetSpec == BudgetInit /\ [][BudgetNext]_budgetVars
---------------------------------------------------------------------------
AllowedFor(k) == {r \in Requests : KeyOf[r] = k /\ decision[r] = "allowed"}

\* The balance of a key is the cost of exactly the requests that were told
\* "allowed" for it, and stays within the limit: no charge is lost, none is
\* made twice, none is made for a refused request.
BudgetHolds ==
  \A k \in Keys :
    /\ used[k] = MapThenSumSet(LAMBDA r : CostOf[r], AllowedFor(k))
    /\ used[k] <= MaxCost
===========================================================================
