-------------------------- MODULE JsonBudgetStore --------------------------
(***************************************************************************)
(* JsonFileToolBudgetStore (agentic_core/tools/middleware.py): budgets in  *)
(* one JSON file, shared by the processes of a machine.  Every reserve()   *)
(* runs in a process of its own: it takes the flock of "<file>.lock",      *)
(* loads the file, and, when the request fits, writes the whole map to the *)
(* shared "<file>.tmp" and renames that over the file.  Processes may die  *)
(* at any point, which frees their flock, and a write may fail.            *)
(***************************************************************************)
EXTENDS Integers

CONSTANTS
  Requests,   \* the reserve() calls, one process each
  Keys,       \* budget keys
  KeyOf,      \* request -> budget key
  CostOf,     \* request -> costUnits
  MaxCost,    \* max_cost_units_per_run
  Absent,     \* a path at which there is no file
  Torn,       \* a file whose writer has not finished: not valid JSON
  Nobody      \* the lock is free

ASSUME StoreAssumption ==
  /\ KeyOf \in [Requests -> Keys]
  /\ CostOf \in [Requests -> Nat]
  /\ MaxCost \in Nat
  /\ Nobody \notin Requests
  /\ Absent # Torn
  /\ {Absent, Torn} \cap [Keys -> 0..MaxCost] = {}

VARIABLES
  file,       \* content of the budget file
  tmp,        \* content of "<file>.tmp"
  lock,       \* the request whose process holds the flock, or Nobody
  pc,         \* where each process is in reserve()
  data,       \* the map each process has loaded (and charged)
  decision    \* what each process has decided

storeVars == <<file, tmp, lock, pc, data, decision>>

Balances == [Keys -> 0..MaxCost]
NoCharges == [k \in Keys |-> 0]

\* `_load`: a missing file and one that is not valid JSON both read as no
\* budgets at all.
Loaded(content) == IF content \in {Absent, Torn} THEN NoCharges ELSE content

Budget == INSTANCE ToolBudget WITH used <- Loaded(file)

Holding == {"load", "write", "flush", "replace", "unlock"}
Steps == {"start", "done", "crashed"} \cup Holding

StoreTypeOK ==
  /\ file \in Balances \cup {Absent, Torn}
  /\ tmp \in Balances \cup {Absent, Torn}
  /\ lock \in Requests \cup {Nobody}
  /\ pc \in [Requests -> Steps]
  /\ data \in [Requests -> Balances]
  /\ decision \in [Requests -> {"pending", "allowed", "denied"}]
---------------------------------------------------------------------------
StoreInit ==
  /\ file = Absent
  /\ tmp = Absent
  /\ lock = Nobody
  /\ pc = [r \in Requests |-> "start"]
  /\ data = [r \in Requests |-> NoCharges]
  /\ decision = [r \in Requests |-> "pending"]

Goto(r, step) == pc' = [pc EXCEPT ![r] = step]

\* Mutant: the flock is not taken (no exclusion between processes).
AcquireUnlocked(r) ==
  /\ pc[r] = "start"
  /\ Goto(r, "load")
  /\ UNCHANGED <<file, tmp, lock, data, decision>>

\* `_locked`: flock(LOCK_EX) blocks until no other process holds the lock.
Acquire(r) ==
  /\ pc[r] = "start"
  /\ lock = Nobody
  /\ lock' = r
  /\ Goto(r, "load")
  /\ UNCHANGED <<file, tmp, data, decision>>

\* `_load`, the projection and the verdict on it.
Load(r) ==
  /\ pc[r] = "load"
  /\ LET u == Loaded(file) IN
       IF Budget!Fits(u, r)
         THEN /\ data' = [data EXCEPT ![r] = Budget!Charge(u, r)]
              /\ Goto(r, "write")
              /\ UNCHANGED decision
         ELSE /\ data' = [data EXCEPT ![r] = u]
              /\ Goto(r, "unlock")
              /\ decision' = [decision EXCEPT ![r] = "denied"]
  /\ UNCHANGED <<file, tmp, lock>>

\* Mutant: the rename does not wait for the write of the temporary file.
OpenTmpEarly(r) ==
  /\ pc[r] = "write"
  /\ tmp' = Torn
  /\ Goto(r, "replace")
  /\ UNCHANGED <<file, lock, data, decision>>

\* `temp_path.write_text`: opening for writing truncates the temporary file.
OpenTmp(r) ==
  /\ pc[r] = "write"
  /\ tmp' = Torn
  /\ Goto(r, "flush")
  /\ UNCHANGED <<file, lock, data, decision>>

FlushTmp(r) ==
  /\ pc[r] = "flush"
  /\ tmp' = data[r]
  /\ Goto(r, "replace")
  /\ UNCHANGED <<file, lock, data, decision>>

\* Opening or writing the temporary file raises (disk full, permissions): the
\* exception leaves reserve() through the `finally` that unlocks.
WriteFails(r) ==
  /\ pc[r] \in {"write", "flush"}
  /\ Goto(r, "unlock")
  /\ UNCHANGED <<file, tmp, lock, data, decision>>

\* `temp_path.replace(path)`: atomic rename; without a temporary file it
\* raises, and nothing is charged.
Replace(r) ==
  /\ pc[r] = "replace"
  /\ Goto(r, "unlock")
  /\ IF tmp = Absent
       THEN UNCHANGED <<file, tmp, decision>>
       ELSE /\ file' = tmp
            /\ tmp' = Absent
            /\ decision' = [decision EXCEPT ![r] = "allowed"]
  /\ UNCHANGED <<lock, data>>

\* The `finally` of `_locked`; reserve() returns or raises.
Unlock(r) ==
  /\ pc[r] = "unlock"
  /\ lock' = Nobody
  /\ Goto(r, "done")
  /\ UNCHANGED <<file, tmp, data, decision>>

\* Mutant: a lock that outlives the process that took it.
CrashKeepingLock(r) ==
  /\ pc[r] \notin {"done", "crashed"}
  /\ Goto(r, "crashed")
  /\ UNCHANGED <<file, tmp, lock, data, decision>>

\* The process dies; the kernel drops its flock, the files stay as they are.
Crash(r) ==
  /\ pc[r] \notin {"done", "crashed"}
  /\ lock' = IF lock = r THEN Nobody ELSE lock
  /\ Goto(r, "crashed")
  /\ UNCHANGED <<file, tmp, data, decision>>

Step(r) ==
  \/ Acquire(r)
  \/ Load(r)
  \/ OpenTmp(r)
  \/ FlushTmp(r)
  \/ WriteFails(r)
  \/ Replace(r)
  \/ Unlock(r)

Settled(r) == pc[r] \in {"done", "crashed"}

StoreDone ==
  /\ \A r \in Requests : Settled(r)
  /\ UNCHANGED storeVars

StoreNext ==
  \/ \E r \in Requests : Step(r) \/ Crash(r)
  \/ StoreDone

\* A process that is not dead keeps running; nothing makes one die.
StoreFairness == \A r \in Requests : WF_storeVars(Step(r))

StoreSpec == StoreInit /\ [][StoreNext]_storeVars /\ StoreFairness
---------------------------------------------------------------------------
\* The locked file store is the atomic store: a decision takes effect at the
\* rename that charges it, or at the load that refuses it.
ImplementsBudget == Budget!BudgetSpec

\* Every unit in the file is owed by a request that was allowed, and the file
\* never holds more than the limit, whatever dies and wherever.
FileHoldsBudget == Budget!BudgetHolds

\* No reader, with or without the lock, can ever see a half-written budget
\* file, which `_load` would take for an empty one and forget every charge.
FileNeverTorn == file # Torn

\* A process that dies in reserve() blocks nobody: every other one settles.
EveryRequestSettles == \A r \in Requests : <>Settled(r)
===========================================================================
