SPECIFICATION StoreSpec
CONSTANTS
  r1 = r1
  r2 = r2
  r3 = r3
  k1 = k1
  k2 = k2
  Absent = Absent
  Torn = Torn
  Nobody = Nobody
  Requests <- MCRequests
  Keys <- MCKeys
  KeyOf <- MCKeyOf
  CostOf <- MCCostOf
  MaxCost <- MCMaxCost
INVARIANTS
  StoreTypeOK
  FileNeverTorn
PROPERTIES
  ImplementsBudget
  EveryRequestSettles
