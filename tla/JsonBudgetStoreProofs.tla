----------------------- MODULE JsonBudgetStoreProofs -----------------------
(***************************************************************************)
(* For every number of processes, keys, costs and every limit: the locked  *)
(* JSON budget file is never seen half-written and implements the atomic   *)
(* budget store.                                                           *)
(***************************************************************************)
EXTENDS JsonBudgetStore, TLAPS

Charging == {"write", "flush", "replace"}

\* One process at a time is between taking and freeing the lock.
LockInv == \A r \in Requests : pc[r] \in Holding <=> lock = r

\* No process decides before the rename or the load that settles it.
PendingInv ==
  \A r \in Requests :
    pc[r] \in {"start", "load"} \cup Charging => decision[r] = "pending"

\* What the process in the middle of a charge has loaded is still what the
\* file says, and what it has finished writing is still in the temporary file.
ChargeInv ==
  \A r \in Requests :
    /\ pc[r] \in Charging => /\ Budget!Fits(Loaded(file), r)
                             /\ data[r] = Budget!Charge(Loaded(file), r)
    /\ pc[r] = "replace" => tmp = data[r]

StoreInv ==
  /\ StoreTypeOK
  /\ LockInv
  /\ PendingInv
  /\ ChargeInv
  /\ FileNeverTorn

\* Reading a budget file always gives balances within the limit.
LEMMA LoadedType ==
  ASSUME file \in Balances \cup {Absent, Torn}
  PROVE  Loaded(file) \in Balances
  BY StoreAssumption DEF Loaded, Balances, NoCharges

\* Charging a request that fits keeps the balances within the limit.
LEMMA ChargeType ==
  ASSUME NEW u \in Balances, NEW r \in Requests, Budget!Fits(u, r)
  PROVE  Budget!Charge(u, r) \in Balances
  BY StoreAssumption DEF Balances, Budget!Charge, Budget!Fits, Budget!Projected

\* No file, no lock, nobody started.
LEMMA InitInv == StoreInit => StoreInv
  BY StoreAssumption DEF StoreInit, StoreInv, StoreTypeOK, LockInv, PendingInv,
     ChargeInv, FileNeverTorn, Balances, NoCharges, Steps, Holding, Charging

\* The inductive step: one case per action of reserve().
LEMMA StepInv == StoreInv /\ [StoreNext]_storeVars => StoreInv'
  <1> SUFFICES ASSUME StoreInv, [StoreNext]_storeVars
               PROVE  StoreInv'
    OBVIOUS
  <1> USE StoreAssumption
          DEF StoreInv, StoreTypeOK, LockInv, PendingInv, ChargeInv, FileNeverTorn,
              Steps, Holding, Charging, Goto
  <1>1. ASSUME NEW r \in Requests, Acquire(r) PROVE StoreInv'
    BY <1>1 DEF Acquire
  <1>2. ASSUME NEW r \in Requests, Load(r) PROVE StoreInv'
    <2>1. Loaded(file) \in Balances
      BY LoadedType
    <2>2. CASE Budget!Fits(Loaded(file), r)
      <3>1. Budget!Charge(Loaded(file), r) \in Balances
        BY <2>1, <2>2, ChargeType
      <3>2. /\ data' = [data EXCEPT ![r] = Budget!Charge(Loaded(file), r)]
            /\ pc' = [pc EXCEPT ![r] = "write"]
            /\ UNCHANGED <<file, tmp, lock, decision>>
        BY <1>2, <2>2 DEF Load
      <3>3. QED
        BY <1>2, <2>2, <3>1, <3>2 DEF Load
    <2>3. CASE ~Budget!Fits(Loaded(file), r)
      BY <1>2, <2>1, <2>3 DEF Load
    <2>4. QED
      BY <2>2, <2>3
  <1>3. ASSUME NEW r \in Requests, OpenTmp(r) PROVE StoreInv'
    BY <1>3 DEF OpenTmp
  <1>4. ASSUME NEW r \in Requests, FlushTmp(r) PROVE StoreInv'
    BY <1>4 DEF FlushTmp
  <1>5. ASSUME NEW r \in Requests, WriteFails(r) PROVE StoreInv'
    BY <1>5 DEF WriteFails
  <1>6. ASSUME NEW r \in Requests, Replace(r) PROVE StoreInv'
    <2>1. tmp = data[r] /\ tmp \in Balances
      BY <1>6 DEF Replace
    <2>2. tmp # Absent /\ tmp # Torn
      BY <2>1 DEF Balances
    <2>3. QED
      BY <1>6, <2>1, <2>2 DEF Replace
  <1>7. ASSUME NEW r \in Requests, Unlock(r) PROVE StoreInv'
    BY <1>7 DEF Unlock
  <1>8. ASSUME NEW r \in Requests, Crash(r) PROVE StoreInv'
    BY <1>8 DEF Crash
  <1>9. CASE UNCHANGED storeVars
    BY <1>9 DEF storeVars
  <1>10. CASE StoreDone
    BY <1>9, <1>10 DEF StoreDone
  <1>11. QED
    BY <1>1, <1>2, <1>3, <1>4, <1>5, <1>6, <1>7, <1>8, <1>9, <1>10
       DEF StoreNext, Step

\* The inductive invariant of the file store.
LEMMA Invariance == StoreSpec => []StoreInv
  BY InitInv, StepInv, PTL DEF StoreSpec

\* Types, and no balance loaded, charged or stored ever exceeds the limit.
THEOREM StoreTypes == StoreSpec => []StoreTypeOK
  BY Invariance, PTL DEF StoreInv

\* `_load` never meets a half-written file, so no charge is ever forgotten.
THEOREM NeverTorn == StoreSpec => []FileNeverTorn
  BY Invariance, PTL DEF StoreInv
---------------------------------------------------------------------------
\* Every step of the file store is a step of the atomic store or leaves its
\* balances and decisions alone.
LEMMA StepRefines ==
  StoreInv /\ [StoreNext]_storeVars => [Budget!BudgetNext]_Budget!budgetVars
  <1> SUFFICES ASSUME StoreInv, [StoreNext]_storeVars
               PROVE  Budget!BudgetNext \/ UNCHANGED Budget!budgetVars
    OBVIOUS
  <1> USE DEF Budget!budgetVars
  <1>1. ASSUME NEW r \in Requests, Load(r)
        PROVE  Budget!BudgetNext \/ UNCHANGED Budget!budgetVars
    <2>1. CASE Budget!Fits(Loaded(file), r)
      BY <1>1, <2>1 DEF Load
    <2>2. CASE ~Budget!Fits(Loaded(file), r)
      <3>1. decision[r] = "pending"
        BY <1>1 DEF Load, StoreInv, PendingInv
      <3>2. Budget!Refuse(r)
        BY <1>1, <2>2, <3>1 DEF Load, Budget!Refuse
      <3>3. QED
        BY <3>2 DEF Budget!BudgetNext, Budget!Reserve
    <2>3. QED
      BY <2>1, <2>2
  <1>2. ASSUME NEW r \in Requests, Replace(r)
        PROVE  Budget!BudgetNext \/ UNCHANGED Budget!budgetVars
    <2>1. /\ decision[r] = "pending"
          /\ Budget!Fits(Loaded(file), r)
          /\ tmp = Budget!Charge(Loaded(file), r)
          /\ tmp \in Balances
      BY <1>2 DEF Replace, StoreInv, StoreTypeOK, PendingInv, ChargeInv, Charging
    <2>2. tmp # Absent /\ tmp # Torn
      BY <2>1, StoreAssumption DEF Balances
    <2>3. file' = tmp /\ decision' = [decision EXCEPT ![r] = "allowed"]
      BY <1>2, <2>2 DEF Replace
    <2>4. Loaded(file') = tmp
      BY <2>2, <2>3 DEF Loaded
    <2>5. Budget!Allow(r)
      BY <2>1, <2>3, <2>4 DEF Budget!Allow, Loaded
    <2>6. QED
      BY <2>5 DEF Budget!BudgetNext, Budget!Reserve
  <1>3. ASSUME NEW r \in Requests,
               \/ Acquire(r) \/ OpenTmp(r) \/ FlushTmp(r) \/ WriteFails(r)
               \/ Unlock(r) \/ Crash(r)
        PROVE  UNCHANGED Budget!budgetVars
    BY <1>3 DEF Acquire, OpenTmp, FlushTmp, WriteFails, Unlock, Crash
  <1>4. CASE UNCHANGED storeVars
    BY <1>4 DEF storeVars
  <1>5. CASE StoreDone
    BY <1>4, <1>5 DEF StoreDone
  <1>6. QED
    BY <1>1, <1>2, <1>3, <1>4, <1>5 DEF StoreNext, Step

\* A missing file is an atomic store without charges.
LEMMA InitRefines == StoreInit => Budget!BudgetInit
  BY DEF StoreInit, Budget!BudgetInit, Loaded, NoCharges

\* The locked file store implements the atomic store: this is the reserve()
\* that JsonFileToolBudgetStore promises the pipeline.
THEOREM Refinement == StoreSpec => ImplementsBudget
  BY InitRefines, StepRefines, Invariance, PTL
     DEF StoreSpec, ImplementsBudget, Budget!BudgetSpec
===========================================================================
