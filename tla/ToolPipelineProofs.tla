------------------------ MODULE ToolPipelineProofs ------------------------
(***************************************************************************)
(* For every set of calls, tools, policies and every limit: what the tool  *)
(* pipeline keeps true of the calls that run, of the results it stores and *)
(* of the answers it gives.                                                *)
(***************************************************************************)
EXTENDS ToolPipeline, FiniteSetTheorems, TLAPS

\* The sum MapThenSumSet computes, and the function it defines recursively on
\* the way: take an element the set chooses off, and add its f.
Sum(f, S) == MapThenSumSet(LAMBDA x : f[x], S)
Chosen(s) == CHOOSE x \in s : TRUE
SumOf(f, g, s) == IF s = {} THEN 0 ELSE f[Chosen(s)] + g[s \ {Chosen(s)}]
IsSum(f, S, g) == g = [s \in SUBSET S |-> SumOf(f, g, s)]

\* MapThenSumSet is a recursive function over the subsets of its set.
LEMMA SumUnfolds ==
  ASSUME NEW f, NEW S
  PROVE  Sum(f, S) = (CHOOSE g : IsSum(f, S, g))[S]
  BY DEF Sum, MapThenSumSet, MapThenFoldSet, IsSum, SumOf, Chosen

\* The element the recursion takes off is one.
LEMMA ChosenIsOne == ASSUME NEW s, s # {} PROVE Chosen(s) \in s
  BY DEF Chosen

\* Naturals have a least one.
LEMMA LeastNatural ==
  ASSUME NEW naturals \in SUBSET Nat, naturals # {}
  PROVE  \E n \in naturals : \A m \in naturals : n <= m
<1>1. PICK n \in naturals : \A m \in naturals : ~ (<<m, n>> \in OpToRel(<, Nat))
  BY NatLessThanWellFounded, WFMin, Zenon
<1>2. \A m \in naturals : ~ (m < n)
  BY <1>1, Zenon DEF OpToRel
<1> QED BY <1>2

\* Of finite sets, one is smallest: induction over finite sets, without a
\* predicate to instantiate.
LEMMA SmallestSet ==
  ASSUME NEW sets, sets # {}, \A T \in sets : IsFiniteSet(T)
  PROVE  \E T \in sets : \A U \in sets : ~(Cardinality(U) < Cardinality(T))
<1> DEFINE sizes == {Cardinality(T) : T \in sets}
<1>1. sizes \in SUBSET Nat /\ sizes # {}
  BY FS_CardinalityType
<1>2. PICK n \in sizes : \A m \in sizes : n <= m
  BY <1>1, LeastNatural
<1>3. PICK T \in sets : n = Cardinality(T)
  OBVIOUS
<1>4. ASSUME NEW U \in sets PROVE ~(Cardinality(U) < Cardinality(T))
  <2>1. Cardinality(U) \in sizes
    OBVIOUS
  <2>2. n <= Cardinality(U) /\ n \in Nat /\ Cardinality(U) \in Nat
    BY <1>1, <1>2, <2>1
  <2>3. QED
    BY <1>3, <2>2
<1> QED BY <1>4

\* A part of a finite set without one of its elements is finite, and smaller.
LEMMA SmallerPart ==
  ASSUME NEW S, IsFiniteSet(S), NEW x \in S
  PROVE  /\ IsFiniteSet(S \ {x})
         /\ Cardinality(S) \in Nat
         /\ Cardinality(S \ {x}) \in Nat
         /\ Cardinality(S \ {x}) = Cardinality(S) - 1
  BY FS_RemoveElement, FS_CardinalityType

\* The recursion over the subsets of a finite set has a solution: by induction
\* over the size of the subsets.
LEMMA SumExists ==
  ASSUME NEW f, NEW S, IsFiniteSet(S)
  PROVE  \E g : IsSum(f, S, g)
<1> DEFINE Upto(n) == {s \in SUBSET S : Cardinality(s) <= n}
           Good(n) == \E g : g = [s \in Upto(n) |-> SumOf(f, g, s)]
           bad == {n \in Nat : ~Good(n)}
<1>0. \A s \in SUBSET S : IsFiniteSet(s) /\ Cardinality(s) \in Nat
  BY FS_Subset, FS_CardinalityType
<1>1. bad = {}
  <2>1. SUFFICES ASSUME bad # {} PROVE FALSE
    OBVIOUS
  <2>2. PICK n \in bad : \A m \in bad : n <= m
    BY <2>1, LeastNatural
  <2>3. CASE n = 0
    <3>1. Upto(0) = {{}}
      <4>1. \A s \in Upto(0) : Cardinality(s) = 0
        BY <1>0
      <4>2. QED
        BY <1>0, <4>1, FS_EmptySet
    <3>2. [s \in Upto(0) |-> 0] = [s \in Upto(0) |-> SumOf(f, [t \in Upto(0) |-> 0], s)]
      BY <3>1 DEF SumOf
    <3>3. Good(0)
      BY <3>2
    <3>4. QED
      BY <2>2, <2>3, <3>3
  <2>4. CASE n # 0
    <3>1. n - 1 \in Nat /\ n - 1 \notin bad
      <4>1. n \in Nat /\ n - 1 \in Nat /\ ~(n <= n - 1)
        BY <2>4
      <4>2. QED
        BY <2>2, <4>1
    <3>2. PICK g : g = [s \in Upto(n - 1) |-> SumOf(f, g, s)]
      BY <3>1
    <3> DEFINE h == [s \in Upto(n) |-> SumOf(f, g, s)]
    <3>3. \A s \in Upto(n) : s # {} => s \ {Chosen(s)} \in Upto(n - 1)
      BY <1>0, <3>1, ChosenIsOne, SmallerPart
    <3>4. \A t \in Upto(n - 1) : t \in Upto(n) /\ h[t] = g[t]
      <4>1. SUFFICES ASSUME NEW t \in Upto(n - 1) PROVE t \in Upto(n) /\ h[t] = g[t]
        OBVIOUS
      <4>2. t \in Upto(n)
        BY <1>0, <3>1
      <4>3. g[t] = SumOf(f, g, t)
        BY <3>2
      <4>4. QED
        BY <4>2, <4>3
    <3>5. \A s \in Upto(n) : SumOf(f, h, s) = SumOf(f, g, s)
      BY <3>3, <3>4 DEF SumOf
    <3>6. h = [s \in Upto(n) |-> SumOf(f, h, s)]
      BY <3>5
    <3>7. QED
      BY <2>2, <3>6
  <2>5. QED
    BY <2>3, <2>4
<1>2. Good(Cardinality(S))
  BY <1>0, <1>1
<1>3. Upto(Cardinality(S)) = SUBSET S
  BY <1>0, FS_Subset
<1>4. QED
  BY <1>2, <1>3 DEF IsSum

\* Two such functions agree on the sets they share.
LEMMA SumIsUnique ==
  ASSUME NEW f, NEW S, NEW T, NEW g, NEW h, IsSum(f, S, g), IsSum(f, T, h),
         NEW U, IsFiniteSet(U), U \subseteq S, U \subseteq T
  PROVE  g[U] = h[U]
<1> DEFINE bad == {s \in SUBSET U : g[s] # h[s]}
<1>1. SUFFICES ASSUME bad # {} PROVE FALSE
  OBVIOUS
<1>2. \A s \in bad : IsFiniteSet(s)
  BY FS_Subset
<1>3. PICK s \in bad : \A t \in bad : ~(Cardinality(t) < Cardinality(s))
  BY <1>1, <1>2, SmallestSet
<1>4. g[s] = SumOf(f, g, s) /\ h[s] = SumOf(f, h, s)
  <2>1. s \in SUBSET S /\ s \in SUBSET T
    OBVIOUS
  <2>2. QED
    BY <2>1 DEF IsSum
<1>5. CASE s = {}
  BY <1>4, <1>5 DEF SumOf
<1>6. CASE s # {}
  <2>1. Chosen(s) \in s
    BY <1>6, ChosenIsOne
  <2>2. s \ {Chosen(s)} \notin bad
    BY <1>2, <1>3, <2>1, SmallerPart
  <2>3. g[s \ {Chosen(s)}] = h[s \ {Chosen(s)}]
    BY <2>2
  <2>4. QED
    BY <1>4, <1>6, <2>3 DEF SumOf
<1>7. QED
  BY <1>5, <1>6

\* The recursion MapThenSumSet stands for.
LEMMA SumRecursion ==
  ASSUME NEW f, NEW S, IsFiniteSet(S)
  PROVE  /\ Sum(f, {}) = 0
         /\ S # {} => Sum(f, S) = f[Chosen(S)] + Sum(f, S \ {Chosen(S)})
<1>1. ASSUME NEW T, IsFiniteSet(T)
      PROVE  \E g : IsSum(f, T, g) /\ Sum(f, T) = g[T] /\ g[T] = SumOf(f, g, T)
  <2> DEFINE g == CHOOSE g : IsSum(f, T, g)
  <2>1. IsSum(f, T, g)
    BY <1>1, SumExists
  <2>2. Sum(f, T) = g[T]
    BY SumUnfolds
  <2>3. g[T] = SumOf(f, g, T)
    <3> HIDE DEF g
    <3> QED BY <2>1 DEF IsSum
  <2>4. QED
    BY <2>1, <2>2, <2>3
<1>2. Sum(f, {}) = 0
  BY <1>1, FS_EmptySet DEF SumOf
<1>3. ASSUME S # {} PROVE Sum(f, S) = f[Chosen(S)] + Sum(f, S \ {Chosen(S)})
  <2> DEFINE T == S \ {Chosen(S)}
  <2>0. IsFiniteSet(T) /\ T \subseteq S
    BY <1>3, ChosenIsOne, SmallerPart
  <2>1. PICK g : IsSum(f, S, g) /\ Sum(f, S) = g[S] /\ g[S] = SumOf(f, g, S)
    BY <1>1
  <2>2. PICK h : IsSum(f, T, h) /\ Sum(f, T) = h[T]
    BY <1>1, <2>0
  <2>3. g[T] = h[T]
    BY <2>0, <2>1, <2>2, SumIsUnique
  <2>4. QED
    BY <1>3, <2>1, <2>2, <2>3 DEF SumOf
<1>4. QED
  BY <1>2, <1>3

\* A sum of naturals is one, and any element may be taken off first.
LEMMA SumTakes ==
  ASSUME NEW f, NEW S, IsFiniteSet(S), \A x \in S : f[x] \in Nat
  PROVE  /\ Sum(f, S) \in Nat
         /\ \A x \in S : Sum(f, S) = f[x] + Sum(f, S \ {x})
<1> DEFINE Good(T) == /\ Sum(f, T) \in Nat
                      /\ \A x \in T : Sum(f, T) = f[x] + Sum(f, T \ {x})
           bad == {T \in SUBSET S : ~Good(T)}
<1>1. SUFFICES ASSUME bad # {} PROVE FALSE
  OBVIOUS
<1>2. \A T \in SUBSET S : IsFiniteSet(T)
  BY FS_Subset
<1>3. PICK T \in bad : \A U \in bad : ~(Cardinality(U) < Cardinality(T))
  BY <1>1, <1>2, SmallestSet
<1>4. IsFiniteSet(T) /\ T \subseteq S
  BY <1>2
<1>5. ASSUME NEW U \in SUBSET S, Cardinality(U) < Cardinality(T) PROVE Good(U)
  BY <1>3, <1>5
<1>6. ~Good(T)
  OBVIOUS
<1> HIDE DEF bad
<1>7. ASSUME NEW x \in T
      PROVE  /\ T \ {x} \in SUBSET S
             /\ IsFiniteSet(T \ {x})
             /\ Cardinality(T \ {x}) \in Nat
             /\ Cardinality(T) \in Nat
             /\ Cardinality(T \ {x}) < Cardinality(T)
             /\ Good(T \ {x})
  <2>1. /\ IsFiniteSet(T \ {x}) /\ Cardinality(T \ {x}) \in Nat /\ Cardinality(T) \in Nat
        /\ Cardinality(T \ {x}) < Cardinality(T) /\ T \ {x} \in SUBSET S
    BY <1>4, SmallerPart
  <2>2. QED
    BY <1>5, <2>1
<1>8. CASE T = {}
  <2>1. Sum(f, T) = 0
    BY <1>8, SumRecursion, FS_EmptySet
  <2>2. QED
    BY <1>6, <1>8, <2>1
<1>9. CASE T # {}
  <2> DEFINE c == Chosen(T)
  <2>1. c \in T /\ Sum(f, T) = f[c] + Sum(f, T \ {c})
    BY <1>4, <1>9, SumRecursion, ChosenIsOne
  <2> HIDE DEF c
  <2>2. Sum(f, T) \in Nat
    BY <1>4, <1>7, <2>1
  <2>3. ASSUME NEW x \in T, x # c PROVE Sum(f, T) = f[x] + Sum(f, T \ {x})
    <3>1. Sum(f, T \ {c}) = f[x] + Sum(f, (T \ {c}) \ {x})
      BY <1>7, <2>1, <2>3
    <3>2. Sum(f, T \ {x}) = f[c] + Sum(f, (T \ {x}) \ {c})
      BY <1>7, <2>1, <2>3
    <3>3. (T \ {c}) \ {x} = (T \ {x}) \ {c}
      OBVIOUS
    <3>4. Sum(f, (T \ {c}) \ {x}) \in Nat
      <4>1. IsFiniteSet(T \ {c}) /\ x \in T \ {c} /\ T \ {c} \in SUBSET S
        BY <1>7, <2>1, <2>3
      <4>2. /\ Cardinality((T \ {c}) \ {x}) = Cardinality(T \ {c}) - 1
            /\ (T \ {c}) \ {x} \in SUBSET S
        BY <4>1, SmallerPart
      <4>3. /\ Cardinality(T \ {c}) \in Nat /\ Cardinality(T) \in Nat
            /\ Cardinality(T \ {c}) < Cardinality(T)
        BY <1>7, <2>1
      <4>4. Cardinality((T \ {c}) \ {x}) < Cardinality(T)
        BY <4>2, <4>3
      <4>5. QED
        BY <1>5, <4>2, <4>4
    <3>5. f[x] \in Nat /\ f[c] \in Nat
      BY <1>4, <2>1
    <3>6. Sum(f, T) = f[c] + (f[x] + Sum(f, (T \ {c}) \ {x}))
      BY <2>1, <3>1
    <3>7. Sum(f, T \ {x}) = f[c] + Sum(f, (T \ {c}) \ {x})
      BY <3>2, <3>3
    <3>8. QED
      BY <3>4, <3>5, <3>6, <3>7
  <2>4. QED
    BY <1>6, <2>1, <2>2, <2>3
<1>10. QED
  BY <1>8, <1>9

\* A part sums up to no more than the whole.
LEMMA SumGrows ==
  ASSUME NEW f, NEW S, NEW T, IsFiniteSet(T), S \subseteq T, \A x \in T : f[x] \in Nat
  PROVE  Sum(f, S) <= Sum(f, T)
<1> DEFINE bad == {U \in SUBSET T : S \subseteq U /\ ~(Sum(f, S) <= Sum(f, U))}
<1>1. SUFFICES ASSUME bad # {} PROVE FALSE
  OBVIOUS
<1>2. \A U \in SUBSET T : IsFiniteSet(U) /\ Sum(f, U) \in Nat
  BY FS_Subset, SumTakes
<1>3. PICK U \in bad : \A V \in bad : ~(Cardinality(V) < Cardinality(U))
  BY <1>1, <1>2, SmallestSet
<1>4. CASE U = S
  BY <1>2, <1>4
<1>5. CASE U # S
  <2>1. PICK x \in U : x \notin S
    BY <1>5
  <2>2. U \ {x} \notin bad
    BY <1>2, <1>3, SmallerPart
  <2>3. Sum(f, S) <= Sum(f, U \ {x})
    BY <2>1, <2>2
  <2>4. Sum(f, U) = f[x] + Sum(f, U \ {x})
    BY <1>2, SumTakes
  <2>5. QED
    BY <1>2, <2>3, <2>4
<1>6. QED
  BY <1>4, <1>5---------------------------------------------------------------------------

Admitted(c) == Governed(c) /\ (MaxCost # Unlimited => decision[c] = "allowed")

\* Past governance, and in the background for ever after, a call is admitted.
AdmittedInv ==
  \A c \in Calls :
    (pc[c] \in {"lookup", "attempt", "waiting", "store"} \/ attempt[c] > 0) => Admitted(c)

\* The loop counter: threads exist for the attempts made, and one is left
\* whenever the loop goes round.
AttemptInv ==
  /\ \A r \in Runs : r[2] > attempt[r[1]] => thread[r] = "none"
  /\ \A c \in Calls :
       /\ pc[c] \in {"start", "lookup"} => attempt[c] = 0
       /\ pc[c] = "attempt" => attempt[c] < Attempts(c)
       /\ pc[c] \in {"waiting", "store"} => attempt[c] > 0

\* Effects come from the threads of writes; a write tool returns only after its effect.
EffectInv ==
  \A r \in Runs :
    /\ r \in landed => Began(r) /\ Writes(r[1])
    /\ (Writes(r[1]) /\ thread[r] = "returned") => r \in landed

\* What an observation that is about to be stored or returned stands for.
ObsInv ==
  \A c \in Calls : pc[c] \in {"store", "trace", "returned"} =>
    /\ obs[c] \in Observations
    /\ "string" \notin obs[c].sensitive
    /\ pc[c] = "store" => obs[c].ok /\ Writes(c)
    /\ (obs[c].ok /\ attempt[c] > 0) => thread[Mine(c)] = "returned"
    /\ (obs[c].ok /\ attempt[c] = 0) => cache[IdemKey[c]] # NoResult

CacheInv ==
  /\ CachedResultHappened
  /\ \A k \in IdemKeys : cache[k] # NoResult => "string" \notin cache[k].sensitive

Inv ==
  /\ TypeOK
  /\ AdmittedInv
  /\ AttemptInv
  /\ EffectInv
  /\ ObsInv
  /\ CacheInv

\* What the constants say of the tool of a call.
LEMMA ToolType ==
  ASSUME NEW c \in Calls
  PROVE  /\ Tool[c].retries \in Nat
         /\ Attempts(c) \in Nat \ {0}
         /\ Tool[c].cost \in Nat
         /\ BudgetKey[c] \in Keys
         /\ IdemKey[c] \in IdemKeys
  BY PipelineAssumption DEF ToolSpecs, Attempts

\* A run is a call and the number of one of its attempts.
LEMMA RunType ==
  /\ \A r \in Runs : /\ r[1] \in Calls
                      /\ r[2] \in 1..Attempts(r[1])
                      /\ r = <<r[1], r[2]>>
  /\ \A c \in Calls : \A n \in 1..Attempts(c) :
       <<c, n>> \in Runs /\ <<c, n>> \in RunsOf(c)
  /\ \A c \in Calls : \A r \in RunsOf(c) : r \in Runs /\ r[1] = c
  BY DEF Runs, RunsOf

\* No call has begun, nothing is stored.
LEMMA InitInv == Init => Inv
  BY ToolType, RunType, PipelineAssumption, NoResultAssumption
     DEF Init, Inv, TypeOK, AdmittedInv, AttemptInv, EffectInv, ObsInv, CacheInv,
         CachedResultHappened, Budget!Decisions, Threads, Steps

\* after_tool leaves an observation, with nothing sensitive in it.
LEMMA AfterToolType ==
  ASSUME NEW o \in Observations
  PROVE  /\ AfterTool(o) \in Observations
         /\ "string" \notin AfterTool(o).sensitive
         /\ AfterTool(o).ok = o.ok
  BY DEF AfterTool, Observations, Carriers

\* A failed observation is one.
LEMMA FailedType ==
  Failed \in Observations /\ ~Failed.ok /\ Failed.sensitive = {}
  BY DEF Failed, Observations
---------------------------------------------------------------------------
\* Typing, action by action.
LEMMA TypeStep == Inv /\ [Next]_vars => TypeOK'
  <1> SUFFICES ASSUME Inv, [Next]_vars PROVE TypeOK'
    OBVIOUS
  <1> USE PipelineAssumption DEF Inv, TypeOK, Goto, Steps, budgetVars, toolVars
  <1>0. /\ AfterTool(Failed) \in Observations
        /\ Failed \in Observations
    BY AfterToolType, FailedType
  <1>1. ASSUME UNCHANGED approved, NEW c \in Calls, Reject(c) PROVE TypeOK'
    BY <1>0, <1>1 DEF Reject
  <1>2. ASSUME UNCHANGED approved, NEW c \in Calls, AdmitUnlimited(c) PROVE TypeOK'
    BY <1>2 DEF AdmitUnlimited, AfterGovernance
  <1>3. ASSUME UNCHANGED approved, NEW c \in Calls, Admit(c) PROVE TypeOK'
    <2>1. used' \in [Keys -> Nat]
      BY <1>3, ToolType DEF Admit, Budget!Allow, Budget!Charge, Budget!Projected, Cost
    <2>2. decision' \in [Calls -> Budget!Decisions]
      BY <1>3 DEF Admit, Budget!Allow, Budget!Decisions
    <2>3. QED
      BY <1>3, <2>1, <2>2 DEF Admit, AfterGovernance
  <1>4. ASSUME UNCHANGED approved, NEW c \in Calls, RejectOverBudget(c) PROVE TypeOK'
    <2>1. used' = used /\ decision' \in [Calls -> Budget!Decisions]
      BY <1>4 DEF RejectOverBudget, Budget!Refuse, Budget!Decisions
    <2>2. QED
      BY <1>0, <1>4, <2>1 DEF RejectOverBudget
  <1>5. ASSUME UNCHANGED approved, NEW c \in Calls, LookupHit(c) PROVE TypeOK'
    <2>1. AfterTool(cache[IdemKey[c]]) \in Observations
      BY <1>5, AfterToolType, ToolType DEF LookupHit
    <2>2. QED
      BY <1>5, <2>1 DEF LookupHit
  <1>6. ASSUME UNCHANGED approved, NEW c \in Calls, LookupMiss(c) PROVE TypeOK'
    BY <1>6 DEF LookupMiss
  <1>7. ASSUME UNCHANGED approved, NEW c \in Calls, Submit(c) PROVE TypeOK'
    <2>1. attempt' = [attempt EXCEPT ![c] = @ + 1] /\ attempt[c] < Attempts(c)
      BY <1>7 DEF Submit, AttemptInv
    <2>2. attempt[c] + 1 \in 1..Attempts(c)
      BY <2>1, ToolType
    <2>3. QED
      BY <1>7, <2>1, <2>2, RunType, ToolType DEF Submit, Threads
  <1>8. ASSUME UNCHANGED approved, NEW c \in Calls, Collect(c) PROVE TypeOK'
    <2>1. PICK o \in Answers(Mine(c)) : EndAttempt(c, o)
      BY <1>8 DEF Collect
    <2>2. o \in Observations /\ (o.ok <=> thread[Mine(c)] = "returned")
      BY DEF Answers
    <2>3. QED
      BY <1>8, <2>1, <2>2, AfterToolType DEF Collect, EndAttempt
  <1>9. ASSUME UNCHANGED approved, NEW c \in Calls, Timeout(c) PROVE TypeOK'
    BY <1>0, <1>9, AfterToolType DEF Timeout, EndAttempt, Threads
  <1>10. ASSUME UNCHANGED approved, NEW c \in Calls, Store(c) PROVE TypeOK'
    BY <1>10 DEF Store, ObsInv
  <1>11. ASSUME UNCHANGED approved, NEW c \in Calls, Trace(c) PROVE TypeOK'
    BY <1>11 DEF Trace
  <1>12. ASSUME UNCHANGED approved, NEW c \in Calls, StoreRaises(c) PROVE TypeOK'
    BY <1>0, <1>12 DEF StoreRaises
  <1>13. ASSUME UNCHANGED approved, NEW c \in Calls, Crash(c) PROVE TypeOK'
    BY <1>13 DEF Crash, Threads
  <1>14. ASSUME UNCHANGED approved, NEW r \in Runs, Background(r) PROVE TypeOK'
    BY <1>14 DEF Background, ToolBegins, ToolEffect, ToolReturns, ToolRaises,
                 SetThread, Threads
  <1>15. CASE UNCHANGED vars
    BY <1>15 DEF vars
  <1>16. CASE Finished
    BY <1>15, <1>16 DEF Finished
  <1>17. QED
    BY <1>1, <1>2, <1>3, <1>4, <1>5, <1>6, <1>7, <1>8, <1>9, <1>10, <1>11, <1>12,
       <1>13, <1>14, <1>15, <1>16 DEF Next, Pipeline
---------------------------------------------------------------------------
\* Whether a call is governed depends on what never changes.
LEMMA GovernedStays ==
  ASSUME UNCHANGED approved, NEW c \in Calls
  PROVE  Governed(c)' = Governed(c)
  BY DEF Governed, Permitted, NeedsApproval

\* Governance comes before the budget, and both before the tool.
LEMMA AdmittedStep == Inv /\ [Next]_vars => AdmittedInv'
  <1> SUFFICES ASSUME Inv, [Next]_vars PROVE AdmittedInv'
    OBVIOUS
  <1> USE DEF Inv, TypeOK, AdmittedInv, Admitted, Goto, budgetVars, toolVars
  <1>1. ASSUME UNCHANGED approved, NEW c \in Calls, Reject(c) PROVE AdmittedInv'
    BY <1>1, GovernedStays DEF Reject
  <1>2. ASSUME UNCHANGED approved, NEW c \in Calls, AdmitUnlimited(c) PROVE AdmittedInv'
    BY <1>2, GovernedStays DEF AdmitUnlimited
  <1>3. ASSUME UNCHANGED approved, NEW c \in Calls, Admit(c) PROVE AdmittedInv'
    <2>1. decision' = [decision EXCEPT ![c] = "allowed"]
      BY <1>3 DEF Admit, Budget!Allow
    <2>2. QED
      BY <1>3, <2>1, GovernedStays DEF Admit
  <1>4. ASSUME UNCHANGED approved, NEW c \in Calls, RejectOverBudget(c) PROVE AdmittedInv'
    <2>1. decision' = [decision EXCEPT ![c] = "denied"] /\ attempt[c] = 0
      BY <1>4 DEF RejectOverBudget, Budget!Refuse, AttemptInv
    <2>2. QED
      BY <1>4, <2>1, GovernedStays DEF RejectOverBudget
  <1>5. ASSUME UNCHANGED approved, NEW c \in Calls, LookupHit(c) \/ LookupMiss(c)
        PROVE  AdmittedInv'
    BY <1>5, GovernedStays DEF LookupHit, LookupMiss
  <1>6. ASSUME UNCHANGED approved, NEW c \in Calls, Submit(c) PROVE AdmittedInv'
    BY <1>6, GovernedStays DEF Submit
  <1>7. ASSUME UNCHANGED approved, NEW c \in Calls, Collect(c) PROVE AdmittedInv'
    <2>1. PICK o \in Answers(Mine(c)) : EndAttempt(c, o)
      BY <1>7 DEF Collect
    <2>2. QED
      BY <1>7, <2>1, GovernedStays DEF Collect, EndAttempt
  <1>8. ASSUME UNCHANGED approved, NEW c \in Calls, Timeout(c) PROVE AdmittedInv'
    BY <1>8, GovernedStays DEF Timeout, EndAttempt
  <1>9. ASSUME UNCHANGED approved, NEW c \in Calls,
               Store(c) \/ Trace(c) \/ StoreRaises(c) \/ Crash(c)
        PROVE  AdmittedInv'
    BY <1>9, GovernedStays DEF Store, Trace, StoreRaises, Crash
  <1>10. ASSUME UNCHANGED approved, NEW r \in Runs, Background(r) PROVE AdmittedInv'
    BY <1>10, GovernedStays DEF Background, ToolBegins, ToolEffect, ToolReturns, ToolRaises
  <1>11. CASE UNCHANGED vars
    BY <1>11, GovernedStays DEF vars
  <1>12. CASE Finished
    BY <1>11, <1>12 DEF Finished
  <1>13. QED
    BY <1>1, <1>2, <1>3, <1>4, <1>5, <1>6, <1>7, <1>8, <1>9, <1>10, <1>11, <1>12
       DEF Next, Pipeline

\* A thread's run is one of the call's attempts, and the loop makes no more
\* than it may.
LEMMA AttemptStep == Inv /\ [Next]_vars => AttemptInv'
  <1> SUFFICES ASSUME Inv, [Next]_vars PROVE AttemptInv'
    OBVIOUS
  <1> USE RunType, ToolType DEF Inv, TypeOK, AttemptInv, Goto, budgetVars, toolVars
  <1>1. ASSUME NEW c \in Calls,
               Reject(c) \/ RejectOverBudget(c) \/ LookupHit(c) \/ Store(c) \/ Trace(c)
                 \/ StoreRaises(c)
        PROVE  AttemptInv'
    BY <1>1 DEF Reject, RejectOverBudget, LookupHit, Store, Trace, StoreRaises
  <1>2. ASSUME NEW c \in Calls, AdmitUnlimited(c) \/ Admit(c) \/ LookupMiss(c)
        PROVE  AttemptInv'
    BY <1>2 DEF AdmitUnlimited, Admit, LookupMiss, AfterGovernance
  <1>3. ASSUME NEW c \in Calls, Submit(c) PROVE AttemptInv'
    <2>1. /\ attempt' = [attempt EXCEPT ![c] = attempt[c] + 1]
          /\ thread' = [thread EXCEPT ![<<c, attempt[c] + 1>>] = "queued"]
          /\ pc' = [pc EXCEPT ![c] = "waiting"]
      BY <1>3 DEF Submit
    <2>2. ASSUME NEW r \in Runs, r[2] > attempt'[r[1]] PROVE thread'[r] = "none"
      <3>1. r # <<c, attempt[c] + 1>>
        BY <2>1, <2>2
      <3>2. r[2] > attempt[r[1]]
        BY <2>1, <2>2
      <3>3. QED
        BY <2>1, <3>1, <3>2
    <2>3. QED
      BY <2>1, <2>2
  <1>4. ASSUME NEW c \in Calls, NEW o \in Observations, EndAttempt(c, o),
               pc[c] = "waiting", attempt' = attempt,
               \A r \in Runs : thread'[r] = thread[r] \/ r = Mine(c)
        PROVE  AttemptInv'
    BY <1>4 DEF EndAttempt, Mine
  <1>5. ASSUME NEW c \in Calls, Collect(c) PROVE AttemptInv'
    <2>1. PICK o \in Answers(Mine(c)) : EndAttempt(c, o)
      BY <1>5 DEF Collect
    <2>2. o \in Observations /\ (o.ok <=> thread[Mine(c)] = "returned")
      BY DEF Answers
    <2>3. QED
      BY <1>4, <1>5, <2>1, <2>2 DEF Collect
  <1>6. ASSUME NEW c \in Calls, Timeout(c) PROVE AttemptInv'
    BY <1>4, <1>6, FailedType DEF Timeout
  <1>7. ASSUME NEW c \in Calls, Crash(c) PROVE AttemptInv'
    BY <1>7 DEF Crash
  <1>8. ASSUME NEW r \in Runs, Background(r) PROVE AttemptInv'
    BY <1>8 DEF Background, ToolBegins, ToolEffect, ToolReturns, ToolRaises, SetThread
  <1>9. CASE UNCHANGED vars
    BY <1>9 DEF vars
  <1>10. CASE Finished
    BY <1>9, <1>10 DEF Finished
  <1>11. QED
    BY <1>1, <1>2, <1>3, <1>5, <1>6, <1>7, <1>8, <1>9, <1>10 DEF Next, Pipeline

\* Threads that have returned stay so, and effects are not undone.
LEMMA EffectStep == Inv /\ [Next]_vars =>
    /\ EffectInv'
    /\ landed \subseteq landed'
    /\ \A r \in Runs : thread[r] = "returned" => thread'[r] = "returned"
  <1> DEFINE Goal == /\ EffectInv'
                     /\ landed \subseteq landed'
                     /\ \A r \in Runs : thread[r] = "returned" => thread'[r] = "returned"
  <1> SUFFICES ASSUME Inv, [Next]_vars PROVE Goal
    OBVIOUS
  <1> USE RunType, ToolType DEF Inv, TypeOK, EffectInv, Began, toolVars
  <1>1. ASSUME UNCHANGED toolVars PROVE Goal
    BY <1>1 DEF Writes
  <1>2. ASSUME NEW c \in Calls, Pipeline(c), ~Submit(c), ~Timeout(c) PROVE UNCHANGED toolVars
    BY <1>2 DEF Pipeline, Reject, AdmitUnlimited, Admit, RejectOverBudget, LookupHit,
                LookupMiss, Collect, Store, Trace, StoreRaises
  <1>3. ASSUME NEW c \in Calls, Submit(c) PROVE Goal
    <2>1. /\ thread' = [thread EXCEPT ![<<c, attempt[c] + 1>>] = "queued"]
          /\ landed' = landed
          /\ attempt[c] < Attempts(c)
      BY <1>3 DEF Submit, AttemptInv
    <2>2. thread[<<c, attempt[c] + 1>>] = "none" /\ <<c, attempt[c] + 1>> \in Runs
      BY <2>1 DEF AttemptInv
    <2>3. QED
      BY <2>1, <2>2 DEF Writes
  <1>4. ASSUME NEW c \in Calls, Timeout(c) PROVE Goal
    BY <1>4 DEF Timeout, Writes
  <1>5. ASSUME NEW c \in Calls, Crash(c) PROVE Goal
    BY <1>5 DEF Crash, Writes
  <1>6. ASSUME NEW r \in Runs, Background(r) PROVE Goal
    BY <1>6 DEF Background, ToolBegins, ToolEffect, ToolReturns, ToolRaises, SetThread, Writes
  <1>7. CASE UNCHANGED vars
    BY <1>1, <1>7 DEF vars
  <1>8. CASE Finished
    BY <1>7, <1>8 DEF Finished
  <1>9. QED
    BY <1>1, <1>2, <1>3, <1>4, <1>5, <1>6, <1>7, <1>8 DEF Next

\* A result is stored by a call whose own attempt returned, with its effect.
LEMMA CacheStep == Inv /\ [Next]_vars =>
    /\ CacheInv'
    /\ \A k \in IdemKeys : cache[k] # NoResult => cache'[k] # NoResult
  <1> DEFINE Goal == /\ CacheInv'
                     /\ \A k \in IdemKeys : cache[k] # NoResult => cache'[k] # NoResult
  <1> SUFFICES ASSUME Inv, [Next]_vars PROVE Goal
    OBVIOUS
  <1>1. /\ landed \subseteq landed'
        /\ \A r \in Runs : thread[r] = "returned" => thread'[r] = "returned"
        /\ landed \subseteq Runs
    BY EffectStep DEF Inv, TypeOK
  <1>2. ASSUME cache' = cache PROVE Goal
    BY <1>1, <1>2 DEF Inv, CacheInv, CachedResultHappened
  <1>3. ASSUME NEW c \in Calls, Store(c) PROVE Goal
    <2>1. /\ cache' = [cache EXCEPT ![IdemKey[c]] = obs[c]]
          /\ cache \in [IdemKeys -> Observations \cup {NoResult}]
          /\ IdemKey[c] \in IdemKeys
      BY <1>3, ToolType DEF Store, Inv, TypeOK
    <2>2. /\ obs[c] \in Observations
          /\ obs[c].ok
          /\ "string" \notin obs[c].sensitive
          /\ thread[Mine(c)] = "returned"
      BY <1>3, ToolType DEF Store, Inv, ObsInv, AttemptInv, TypeOK
    <2>3. Mine(c) \in Runs /\ Mine(c)[1] = c /\ Writes(c)
      BY <1>3, RunType, ToolType DEF Store, Inv, AttemptInv, TypeOK, ObsInv, Mine
    <2>4. Mine(c) \in landed
      BY <2>2, <2>3 DEF Inv, EffectInv
    <2>5. ASSUME NEW k \in IdemKeys, cache'[k] # NoResult
          PROVE  /\ cache'[k].ok
                 /\ \E r \in landed' : IdemKey[r[1]] = k /\ thread'[r] = "returned"
                 /\ "string" \notin cache'[k].sensitive
      <3>1. CASE k = IdemKey[c]
        BY <1>1, <2>1, <2>2, <2>3, <2>4, <3>1
      <3>2. CASE k # IdemKey[c]
        BY <1>1, <2>1, <2>5, <3>2 DEF Inv, CacheInv, CachedResultHappened
      <3>3. QED
        BY <3>1, <3>2
    <2>6. QED
      BY <2>1, <2>2, <2>5, NoResultAssumption DEF CacheInv, CachedResultHappened
  <1>4. ASSUME NEW c \in Calls, Pipeline(c), ~Store(c) PROVE cache' = cache
    BY <1>4 DEF Pipeline, Reject, AdmitUnlimited, Admit, RejectOverBudget, LookupHit,
                LookupMiss, Submit, Collect, Timeout, Trace, StoreRaises
  <1>5. ASSUME NEW c \in Calls, Crash(c) PROVE cache' = cache
    BY <1>5 DEF Crash
  <1>6. ASSUME NEW r \in Runs, Background(r) PROVE cache' = cache
    BY <1>6 DEF Background, ToolBegins, ToolEffect, ToolReturns, ToolRaises
  <1>7. CASE UNCHANGED vars
    BY <1>2, <1>7 DEF vars
  <1>8. CASE Finished
    BY <1>7, <1>8 DEF Finished
  <1>9. QED
    BY <1>2, <1>3, <1>4, <1>5, <1>6, <1>7, <1>8 DEF Next

\* ObsInv of one call.
Answer(c) ==
  pc[c] \in {"store", "trace", "returned"} =>
    /\ obs[c] \in Observations
    /\ "string" \notin obs[c].sensitive
    /\ pc[c] = "store" => obs[c].ok /\ Writes(c)
    /\ (obs[c].ok /\ attempt[c] > 0) => thread[Mine(c)] = "returned"
    /\ (obs[c].ok /\ attempt[c] = 0) => cache[IdemKey[c]] # NoResult

\* What a call's answer stands for is not undone while others run.
LEMMA AnswerStays ==
  ASSUME Inv, [Next]_vars, NEW c \in Calls,
         obs'[c] = obs[c], attempt'[c] = attempt[c],
         pc'[c] = pc[c] \/ pc'[c] \notin {"store", "trace", "returned"}
  PROVE  Answer(c)'
  <1>1. Answer(c)
    BY DEF Inv, ObsInv, Answer
  <1>2. CASE pc'[c] \notin {"store", "trace", "returned"}
    BY <1>2 DEF Answer
  <1>3. CASE pc'[c] = pc[c] /\ pc[c] \in {"store", "trace", "returned"}
    <2>1. Mine(c)' = Mine(c)
      BY DEF Mine
    <2>2. attempt[c] > 0 => Mine(c) \in Runs
      BY RunType, ToolType DEF Mine, Inv, TypeOK
    <2>3. thread[Mine(c)] = "returned" /\ attempt[c] > 0 => thread'[Mine(c)] = "returned"
      BY <2>2, EffectStep
    <2>4. cache[IdemKey[c]] # NoResult => cache'[IdemKey[c]] # NoResult
      BY CacheStep, ToolType
    <2>5. QED
      BY <1>1, <1>3, <2>1, <2>3, <2>4 DEF Answer, Writes
  <1>4. QED
    BY <1>2, <1>3

\* Every answer a call ends up with is safe, and an "ok" is backed.
LEMMA ObsStep == Inv /\ [Next]_vars => ObsInv'
  <1> SUFFICES ASSUME Inv, [Next]_vars, NEW d \in Calls PROVE Answer(d)'
    BY DEF ObsInv, Answer
  <1> USE DEF Goto
  <1>0. /\ AfterTool(Failed) \in Observations
        /\ ~AfterTool(Failed).ok
        /\ "string" \notin AfterTool(Failed).sensitive
    BY AfterToolType, FailedType
  <1>t. /\ pc \in [Calls -> Steps]
        /\ obs \in [Calls -> Observations \cup {NoResult}]
        /\ attempt \in [Calls -> Nat]
        /\ thread \in [Runs -> Threads]
        /\ cache \in [IdemKeys -> Observations \cup {NoResult}]
    BY DEF Inv, TypeOK
  <1>1. ASSUME NEW c \in Calls, Reject(c) \/ RejectOverBudget(c) PROVE Answer(d)'
    <2>1. /\ obs' = [obs EXCEPT ![c] = AfterTool(Failed)]
          /\ pc' = [pc EXCEPT ![c] = "trace"]
          /\ attempt' = attempt
      BY <1>1 DEF Reject, RejectOverBudget
    <2>2. CASE d = c
      BY <1>0, <1>t, <2>1, <2>2 DEF Answer
    <2>3. CASE d # c
      BY <1>t, <2>1, <2>3, AnswerStays
    <2>4. QED
      BY <2>2, <2>3
  <1>2. ASSUME NEW c \in Calls, AdmitUnlimited(c) \/ Admit(c) \/ LookupMiss(c) \/ Submit(c)
        PROVE  Answer(d)'
    <2>1. /\ obs' = obs
          /\ \E step \in {"lookup", "attempt", "waiting"} : pc' = [pc EXCEPT ![c] = step]
          /\ d # c => attempt'[d] = attempt[d]
      BY <1>2, <1>t DEF AdmitUnlimited, Admit, LookupMiss, Submit, AfterGovernance
    <2>2. CASE d = c
      BY <1>t, <2>1, <2>2 DEF Answer
    <2>3. CASE d # c
      BY <1>t, <2>1, <2>3, AnswerStays
    <2>4. QED
      BY <2>2, <2>3
  <1>3. ASSUME NEW c \in Calls, LookupHit(c) PROVE Answer(d)'
    <2>1. /\ obs' = [obs EXCEPT ![c] = AfterTool(cache[IdemKey[c]])]
          /\ pc' = [pc EXCEPT ![c] = "trace"]
          /\ attempt' = attempt /\ thread' = thread /\ cache' = cache
          /\ cache[IdemKey[c]] # NoResult
          /\ attempt[c] = 0
      BY <1>3 DEF LookupHit, toolVars, Inv, AttemptInv
    <2>2. cache[IdemKey[c]] \in Observations
      BY <1>t, <2>1, ToolType
    <2>3. CASE d = c
      BY <1>t, <2>1, <2>2, <2>3, AfterToolType DEF Answer
    <2>4. CASE d # c
      BY <1>t, <2>1, <2>4, AnswerStays
    <2>5. QED
      BY <2>3, <2>4
  <1>4. ASSUME NEW c \in Calls, NEW o \in Observations, EndAttempt(c, o),
               pc[c] = "waiting", attempt' = attempt,
               o.ok => thread'[Mine(c)] = "returned"
        PROVE  Answer(d)'
    <2>1. CASE d # c
      BY <1>4, <1>t, <2>1, AnswerStays DEF EndAttempt
    <2>2. CASE d = c
      <3>1. attempt[c] > 0 /\ Mine(c)' = Mine(c)
        BY <1>4 DEF Inv, AttemptInv, Mine
      <3>2. /\ pc'[c] = "store" => o.ok /\ Writes(c) /\ obs'[c] = AfterTool(o)
            /\ pc'[c] = "trace" => obs'[c] = AfterTool(o)
            /\ pc'[c] # "returned"
        BY <1>4, <1>t DEF EndAttempt
      <3>3. QED
        BY <1>4, <1>t, <2>2, <3>1, <3>2, AfterToolType DEF Answer, Writes
    <2>3. QED
      BY <2>1, <2>2
  <1>5. ASSUME NEW c \in Calls, Collect(c) PROVE Answer(d)'
    <2>1. PICK o \in Answers(Mine(c)) : EndAttempt(c, o)
      BY <1>5 DEF Collect
    <2>2. o \in Observations /\ (o.ok <=> thread[Mine(c)] = "returned")
      BY DEF Answers
    <2>3. QED
      BY <1>4, <1>5, <2>1, <2>2 DEF Collect, toolVars
  <1>6. ASSUME NEW c \in Calls, Timeout(c) PROVE Answer(d)'
    BY <1>4, <1>6, FailedType DEF Timeout
  <1>7. ASSUME NEW c \in Calls, Store(c) \/ Trace(c) PROVE Answer(d)'
    <2>1. /\ obs' = obs /\ attempt' = attempt /\ thread' = thread
          /\ pc[c] \in {"store", "trace"}
          /\ \/ pc' = [pc EXCEPT ![c] = "trace"]
             \/ pc' = [pc EXCEPT ![c] = "returned"]
      BY <1>7 DEF Store, Trace, toolVars
    <2>2. CASE d # c
      BY <1>t, <2>1, <2>2, AnswerStays
    <2>3. CASE d = c
      <3>1. Answer(c)
        BY DEF Inv, ObsInv, Answer
      <3>2. cache[IdemKey[c]] # NoResult => cache'[IdemKey[c]] # NoResult
        BY CacheStep, ToolType
      <3>3. pc'[c] # "store" /\ Mine(c)' = Mine(c)
        BY <1>t, <2>1 DEF Mine
      <3>4. QED
        BY <2>1, <2>3, <3>1, <3>2, <3>3 DEF Answer
    <2>4. QED
      BY <2>2, <2>3
  <1>8. ASSUME NEW c \in Calls, StoreRaises(c) \/ Crash(c) PROVE Answer(d)'
    <2>1. /\ attempt' = attempt
          /\ d # c => obs'[d] = obs[d]
          /\ pc' = [pc EXCEPT ![c] = "raised"] \/ pc' = [pc EXCEPT ![c] = "crashed"]
      BY <1>8, <1>t DEF StoreRaises, Crash
    <2>2. CASE d = c
      BY <1>t, <2>1, <2>2 DEF Answer
    <2>3. CASE d # c
      BY <1>t, <2>1, <2>3, AnswerStays
    <2>4. QED
      BY <2>2, <2>3
  <1>9. ASSUME NEW r \in Runs, Background(r) PROVE Answer(d)'
    BY <1>9, AnswerStays DEF Background, ToolBegins, ToolEffect, ToolReturns, ToolRaises
  <1>10. CASE UNCHANGED vars
    BY <1>10, AnswerStays DEF vars
  <1>11. CASE Finished
    BY <1>10, <1>11 DEF Finished
  <1>12. QED
    BY <1>1, <1>2, <1>3, <1>5, <1>6, <1>7, <1>8, <1>9, <1>10, <1>11 DEF Next, Pipeline

\* The inductive invariant of the pipeline.
LEMMA Invariance == Spec => []Inv
  <1>1. Inv /\ [Next]_vars => Inv'
    BY TypeStep, AdmittedStep, AttemptStep, EffectStep, ObsStep, CacheStep DEF Inv
  <1>2. QED
    BY InitInv, <1>1, PTL DEF Spec
---------------------------------------------------------------------------
\* Type correctness of the pipeline and its stores.
THEOREM Types == Spec => []TypeOK
  <1>1. Inv => TypeOK
    BY DEF Inv
  <1>2. QED
    BY Invariance, <1>1, PTL

\* No tool runs for a call that governance or the budget refuses, in whatever
\* order calls, timeouts, retries and crashes come.
THEOREM Governance == Spec => []OnlyGovernedCallsRun
  <1>1. Inv => OnlyGovernedCallsRun
    <2> SUFFICES ASSUME Inv, NEW c \in Calls, NEW r \in RunsOf(c), Began(r)
                 PROVE  Admitted(c)
      BY DEF OnlyGovernedCallsRun, Ran, Admitted
    <2>1. r \in Runs /\ r[1] = c /\ r[2] > 0
      BY RunType, ToolType
    <2>2. ~(r[2] > attempt[c])
      BY <2>1 DEF Inv, AttemptInv, Began
    <2>3. attempt[c] > 0
      BY <2>1, <2>2, RunType, ToolType DEF Inv, TypeOK
    <2>4. QED
      BY <2>3 DEF Inv, AdmittedInv
  <1>2. QED
    BY Invariance, <1>1, PTL

\* The idempotency store holds only results that happened.
THEOREM StoredResults == Spec => []CachedResultHappened
  <1>1. Inv => CachedResultHappened
    BY DEF Inv, CacheInv
  <1>2. QED
    BY Invariance, <1>1, PTL

\* Output safety reaches every observation that is stored or returned: its
\* strings, which are all that it cleans.
THEOREM OutputSafety == Spec => []NoSensitiveStringLeaves
  <1>1. Inv => NoSensitiveStringLeaves
    BY DEF Inv, CacheInv, ObsInv, NoSensitiveStringLeaves
  <1>2. QED
    BY Invariance, <1>1, PTL

\* A write that answers "ok" has had its effect.
THEOREM BackedAnswers == Spec => []OkAnswerIsBacked
  <1>1. Inv => OkAnswerIsBacked
    <2> SUFFICES ASSUME Inv, NEW c \in Calls, pc[c] = "returned", obs[c].ok, Writes(c)
                 PROVE  IF attempt[c] = 0
                          THEN ~Ran(c) /\ \E r \in landed : IdemKey[r[1]] = IdemKey[c]
                          ELSE Mine(c) \in landed /\ thread[Mine(c)] = "returned"
      BY DEF OkAnswerIsBacked
    <2>1. CASE attempt[c] = 0
      <3>1. ~Ran(c)
        BY <2>1, RunType, ToolType DEF Ran, Began, Inv, AttemptInv
      <3>2. cache[IdemKey[c]] # NoResult /\ IdemKey[c] \in IdemKeys
        BY <2>1, ToolType DEF Inv, ObsInv
      <3>3. QED
        BY <2>1, <3>1, <3>2 DEF Inv, CacheInv, CachedResultHappened
    <2>2. CASE attempt[c] # 0
      <3>1. attempt[c] \in Nat /\ attempt[c] > 0 /\ attempt[c] <= Attempts(c)
        BY <2>2 DEF Inv, TypeOK
      <3>2. Mine(c) \in Runs /\ Mine(c)[1] = c
        BY <3>1, RunType, ToolType DEF Mine
      <3>3. thread[Mine(c)] = "returned"
        BY <3>1 DEF Inv, ObsInv
      <3>4. QED
        BY <2>2, <3>2, <3>3 DEF Inv, EffectInv
    <2>3. QED
      BY <2>1, <2>2
  <1>2. QED
    BY Invariance, <1>1, PTL

\* Only Admit and RejectOverBudget reach the budget store.
LEMMA BudgetStep == [Next]_vars => [Budget!BudgetNext]_budgetVars
  <1> SUFFICES ASSUME [Next]_vars PROVE Budget!BudgetNext \/ UNCHANGED budgetVars
    BY DEF budgetVars, Budget!budgetVars
  <1>1. ASSUME NEW c \in Calls, Admit(c) \/ RejectOverBudget(c) PROVE Budget!BudgetNext
    BY <1>1 DEF Admit, RejectOverBudget, Budget!BudgetNext, Budget!Reserve
  <1>2. ASSUME NEW c \in Calls, Pipeline(c), ~Admit(c), ~RejectOverBudget(c)
        PROVE  UNCHANGED budgetVars
    BY <1>2 DEF Pipeline, Reject, AdmitUnlimited, LookupHit, LookupMiss, Submit,
                Collect, Timeout, Store, Trace, StoreRaises
  <1>3. ASSUME NEW c \in Calls, Crash(c) PROVE UNCHANGED budgetVars
    BY <1>3 DEF Crash
  <1>4. ASSUME NEW r \in Runs, Background(r) PROVE UNCHANGED budgetVars
    BY <1>4 DEF Background, ToolBegins, ToolEffect, ToolReturns, ToolRaises
  <1>5. CASE UNCHANGED vars
    BY <1>5 DEF vars, budgetVars
  <1>6. CASE Finished
    BY <1>5, <1>6 DEF Finished
  <1>7. QED
    BY <1>1, <1>2, <1>3, <1>4, <1>5, <1>6 DEF Next
---------------------------------------------------------------------------
\* The atomic budget: the calls that were allowed are finitely many, and their
\* cost is what has been used.
AllowedCalls == {c \in Calls : decision[c] = "allowed"}

BudgetInv ==
  /\ used \in [Keys -> Nat]
  /\ decision \in [Calls -> Budget!Decisions]
  /\ IsFiniteSet(AllowedCalls)
  /\ \A k \in Keys : used[k] = Sum(Cost, Budget!AllowedFor(k)) /\ used[k] <= MaxCost

\* Nothing has been charged at the start.
LEMMA BudgetInit ==
  ASSUME MaxCost # Unlimited
  PROVE  Init => BudgetInv
  <1> SUFFICES ASSUME Init PROVE BudgetInv
    OBVIOUS
  <1>1. AllowedCalls = {} /\ \A k \in Keys : Budget!AllowedFor(k) = {}
    BY DEF Init, AllowedCalls, Budget!AllowedFor
  <1>2. Sum(Cost, {}) = 0
    BY SumRecursion, FS_EmptySet
  <1>3. QED
    BY <1>1, <1>2, FS_EmptySet, PipelineAssumption
       DEF BudgetInv, Init, Budget!Decisions

\* An admitted call adds its own cost, and the test of the limit saw it.
LEMMA BudgetKeeps ==
  ASSUME MaxCost # Unlimited
  PROVE  BudgetInv /\ [Budget!BudgetNext]_budgetVars => BudgetInv'
  <1> SUFFICES ASSUME BudgetInv, [Budget!BudgetNext]_budgetVars PROVE BudgetInv'
    OBVIOUS
  <1>1. ASSUME NEW c \in Calls, Budget!Allow(c) PROVE BudgetInv'
    <2>0. /\ BudgetKey[c] \in Keys /\ Cost[c] \in Nat /\ \A d \in Calls : Cost[d] \in Nat
          /\ MaxCost \in Nat
      BY ToolType, PipelineAssumption DEF Cost
    <2>1. /\ decision[c] = "pending"
          /\ used[BudgetKey[c]] + Cost[c] <= MaxCost
          /\ used' = [used EXCEPT ![BudgetKey[c]] = used[BudgetKey[c]] + Cost[c]]
          /\ decision' = [decision EXCEPT ![c] = "allowed"]
      BY <1>1 DEF Budget!Allow, Budget!Fits, Budget!Charge, Budget!Projected
    <2>2. AllowedCalls' = AllowedCalls \cup {c}
      BY <2>1 DEF AllowedCalls, BudgetInv
    <2>3. IsFiniteSet(AllowedCalls')
      BY <2>2, FS_AddElement DEF BudgetInv
    <2>4. ASSUME NEW k \in Keys
          PROVE  used'[k] = Sum(Cost, Budget!AllowedFor(k)') /\ used'[k] <= MaxCost
      <3>1. CASE k = BudgetKey[c]
        <4> DEFINE S == Budget!AllowedFor(k)
                   T == Budget!AllowedFor(k)'
        <4>1. T = S \cup {c} /\ c \notin S /\ T \subseteq AllowedCalls'
          BY <2>1, <3>1 DEF Budget!AllowedFor, AllowedCalls, BudgetInv
        <4>2. IsFiniteSet(T) /\ T \subseteq Calls
          BY <2>3, <4>1, FS_Subset DEF AllowedCalls
        <4>3. c \in T /\ T \ {c} = S
          BY <4>1
        <4>4. Sum(Cost, T) = Cost[c] + Sum(Cost, S)
          <5> HIDE DEF S, T
          <5> QED BY <2>0, <4>2, <4>3, SumTakes
        <4>5. QED
          BY <2>0, <2>1, <3>1, <4>4 DEF BudgetInv
      <3>2. CASE k # BudgetKey[c]
        <4>1. Budget!AllowedFor(k)' = Budget!AllowedFor(k) /\ used'[k] = used[k]
          BY <2>1, <3>2 DEF Budget!AllowedFor, BudgetInv
        <4>2. QED
          BY <4>1 DEF BudgetInv
      <3>3. QED
        BY <3>1, <3>2
    <2>5. used' \in [Keys -> Nat] /\ decision' \in [Calls -> Budget!Decisions]
      BY <2>0, <2>1 DEF BudgetInv, Budget!Decisions
    <2>6. QED
      BY <2>3, <2>4, <2>5 DEF BudgetInv
  <1>2. ASSUME NEW c \in Calls, Budget!Refuse(c) PROVE BudgetInv'
    <2>1. used' = used /\ decision[c] = "pending" /\ decision' = [decision EXCEPT ![c] = "denied"]
      BY <1>2 DEF Budget!Refuse
    <2>2. AllowedCalls' = AllowedCalls /\ \A k \in Keys : Budget!AllowedFor(k)' = Budget!AllowedFor(k)
      BY <2>1 DEF AllowedCalls, Budget!AllowedFor, BudgetInv
    <2>3. QED
      BY <2>1, <2>2 DEF BudgetInv, Budget!Decisions
  <1>3. CASE UNCHANGED budgetVars
    BY <1>3 DEF budgetVars, BudgetInv, AllowedCalls, Budget!AllowedFor
  <1>4. QED
    BY <1>1, <1>2, <1>3 DEF Budget!BudgetNext, Budget!Reserve

\* What has been used of each budget is the cost of exactly the calls that were
\* told "allowed" for it, and stays within the limit.
THEOREM ChargesAddUp == MaxCost # Unlimited => (Spec => []Budget!BudgetHolds)
  <1> SUFFICES ASSUME MaxCost # Unlimited PROVE Spec => []Budget!BudgetHolds
    OBVIOUS
  <1>1. BudgetInv => Budget!BudgetHolds
    <2>1. \A S : Budget!MapThenSumSet(LAMBDA c : Cost[c], S) = Sum(Cost, S)
      BY DEF Sum, MapThenSumSet, MapThenFoldSet, Budget!MapThenSumSet, Budget!MapThenFoldSet
    <2>2. QED
      BY <2>1 DEF BudgetInv, Budget!BudgetHolds
  <1>2. QED
    BY <1>1, BudgetInit, BudgetKeeps, BudgetStep, PTL DEF Spec

\* The tools that have run, late and crashed ones included, are paid for within
\* the limit.
THEOREM PaidFor == Spec => []RunsArePaidFor
  <1>1. CASE MaxCost = Unlimited
    <2>1. RunsArePaidFor
      BY <1>1 DEF RunsArePaidFor
    <2>2. QED
      BY <2>1, PTL
  <1>2. CASE MaxCost # Unlimited
    <2>1. BudgetInv /\ OnlyGovernedCallsRun => RunsArePaidFor
      <3> SUFFICES ASSUME BudgetInv, OnlyGovernedCallsRun, NEW k \in Keys
                   PROVE  /\ Sum(Cost, {c \in Calls : BudgetKey[c] = k /\ Ran(c)}) <= used[k]
                          /\ used[k] <= MaxCost
        BY DEF RunsArePaidFor, Sum
      <3> DEFINE S == {c \in Calls : BudgetKey[c] = k /\ Ran(c)}
                 T == Budget!AllowedFor(k)
      <3>1. S \subseteq T
        BY <1>2 DEF OnlyGovernedCallsRun, Budget!AllowedFor
      <3>2. IsFiniteSet(T) /\ \A c \in T : Cost[c] \in Nat
        <4>1. T \subseteq AllowedCalls /\ T \subseteq Calls
          BY DEF Budget!AllowedFor, AllowedCalls
        <4>2. QED
          BY <4>1, FS_Subset, ToolType DEF BudgetInv, Cost
      <3>3. used[k] = Sum(Cost, T) /\ used[k] <= MaxCost
        BY DEF BudgetInv
      <3> HIDE DEF S, T
      <3>4. Sum(Cost, S) <= Sum(Cost, T)
        BY <3>1, <3>2, SumGrows
      <3>5. QED
        BY <3>3, <3>4 DEF S
    <2>2. Spec => []BudgetInv
      BY <1>2, BudgetInit, BudgetKeeps, BudgetStep, PTL DEF Spec
    <2>3. QED
      BY <2>1, <2>2, Governance, PTL
  <1>3. QED
    BY <1>1, <1>2
---------------------------------------------------------------------------
\* A call that found, or will find, its result stored: no attempt, and none to
\* come.
Answered(c) ==
  /\ cache[IdemKey[c]] # NoResult
  /\ attempt[c] = 0
  /\ pc[c] \in {"start", "lookup", "trace", "returned", "raised", "crashed"}

\* Once a key has a result, a call with it that starts is answered from it.
LEMMA AnsweredStays ==
  ASSUME NEW c \in Calls, Writes(c)
  PROVE  Inv /\ Answered(c) /\ [Next]_vars => Answered(c)'
  <1> SUFFICES ASSUME Inv, Answered(c), [Next]_vars PROVE Answered(c)'
    OBVIOUS
  <1> USE DEF Goto
  <1>0. /\ cache'[IdemKey[c]] # NoResult
        /\ pc \in [Calls -> Steps] /\ attempt \in [Calls -> Nat]
        /\ pc[c] # "waiting" /\ pc[c] # "attempt" /\ pc[c] # "store"
    BY CacheStep, ToolType DEF Answered, Inv, TypeOK
  <1>1. ASSUME NEW d \in Calls, d # c, Pipeline(d) \/ Crash(d)
        PROVE  pc'[c] = pc[c] /\ attempt'[c] = attempt[c]
    <2>1. CASE Collect(d) \/ Timeout(d)
      BY <1>0, <1>1, <2>1 DEF Collect, Timeout, EndAttempt
    <2>2. CASE Submit(d)
      BY <1>0, <1>1, <2>2 DEF Submit
    <2>3. QED
      BY <1>0, <1>1, <2>1, <2>2
         DEF Pipeline, Crash, Reject, AdmitUnlimited, Admit, RejectOverBudget,
             LookupHit, LookupMiss, Store, Trace, StoreRaises
  <1>2. ASSUME Pipeline(c) \/ Crash(c)
        PROVE  /\ pc'[c] \in {"start", "lookup", "trace", "returned", "raised", "crashed"}
               /\ attempt'[c] = attempt[c]
    <2>1. ~LookupMiss(c) /\ ~Submit(c) /\ ~Collect(c) /\ ~Timeout(c) /\ ~Store(c)
      BY <1>0 DEF Answered, LookupMiss, Submit, Collect, Timeout, Store
    <2>2. QED
      BY <1>0, <1>2, <2>1
         DEF Pipeline, Crash, Reject, AdmitUnlimited, Admit, RejectOverBudget,
             LookupHit, Trace, StoreRaises, AfterGovernance
  <1>3. ASSUME NEW r \in Runs, Background(r) PROVE pc' = pc /\ attempt' = attempt
    BY <1>3 DEF Background, ToolBegins, ToolEffect, ToolReturns, ToolRaises
  <1>4. CASE UNCHANGED vars
    BY <1>4 DEF vars, Answered
  <1>5. CASE Finished
    BY <1>4, <1>5 DEF Finished
  <1>6. QED
    BY <1>0, <1>1, <1>2, <1>3, <1>4, <1>5 DEF Next, Answered

\* A stored result is final: a call with its key that has not begun never has
\* an effect, whatever overlaps with it.
THEOREM NeverReruns == Spec => StoredKeyNeverReruns
  <1> SUFFICES ASSUME NEW c \in Calls
               PROVE  Spec => [](cache[IdemKey[c]] # NoResult /\ pc[c] = "start"
                                   => [](landed \cap RunsOf(c) = {}))
    BY DEF StoredKeyNeverReruns
  <1> DEFINE Found == cache[IdemKey[c]] # NoResult /\ pc[c] = "start"
             NoEffect == landed \cap RunsOf(c) = {}
  <1>1. CASE Writes(c)
    <2>1. Inv /\ Found => Answered(c)
      BY DEF Inv, AttemptInv, Answered
    <2>2. Inv /\ Answered(c) => NoEffect
      BY RunType, ToolType DEF Inv, AttemptInv, EffectInv, Began, Answered, TypeOK
    <2>3. Inv /\ Answered(c) /\ [Next]_vars => Answered(c)'
      BY <1>1, AnsweredStays
    <2>4. QED
      BY <2>1, <2>2, <2>3, Invariance, PTL DEF Spec
  <1>2. CASE ~Writes(c)
    <2>1. Inv => NoEffect
      BY <1>2, RunType DEF Inv, EffectInv, TypeOK
    <2>2. QED
      BY <2>1, Invariance, PTL
  <1>3. QED
    BY <1>1, <1>2
===========================================================================
