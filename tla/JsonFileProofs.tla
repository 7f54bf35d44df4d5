--------------------------- MODULE JsonFileProofs ---------------------------
(* For any number of processes with any number of threads: a JSON document   *)
(* that is locked, or used by one process whose threads take turns, is safe  *)
(* from crashes and failed writes.                                           *)
EXTENDS JsonFile, TLAPS

\* Savers that have made a text and not renamed it yet.
Writing == {"dumped", "opened", "flushed"}

\* Savers in an update of an object have one, and it has their update.
ObjectInv ==
  \A s \in Savers :
    /\ pc[s] \in Busy => count[s] \in 1..MaxUpdates
    /\ pc[s] = "changed" => Keeps(s)
    /\ (pc[s] \in Busy /\ Keeps(s)) => Object(s) # None
    /\ (pc[s] \in Busy \ {"locked"} /\ Keeps(s)) => Update(s) \in Object(s)

\* The lone saver is the only one in an update, and while the order is "lone"
\* no other is.
LoneInv ==
  /\ \A s, t \in Savers : lone = s /\ pc[t] \in Busy => t = s
  /\ \A s \in Savers : order = "lone" /\ pc[s] \in Busy => lone = s
  /\ kind = "results" => order = "lone"

LEMMA ObjectTypes ==
  /\ None \in Objects
  /\ \A updates \in SUBSET Updates : updates \in Objects
  /\ \A held \in Objects : held # None => held \in SUBSET Updates
<1>1. None \in Objects BY DEF Objects
<1>2. ASSUME NEW updates \in SUBSET Updates PROVE updates \in Objects
  BY Zenon DEF Objects
<1>3. ASSUME NEW held \in Objects, held # None PROVE held \in SUBSET Updates
  <2>1. held \in SUBSET Updates \/ held \in {None}
    BY Zenon DEF Objects
  <2> QED BY <2>1, <1>3, Zenon
<1> QED BY <1>1, <1>2, <1>3

LEMMA FileFields ==
  /\ Absent.has = {} /\ Empty.has = {} /\ Torn.has = {}
  /\ Absent.state = "absent" /\ Empty.state = "empty" /\ Torn.state = "torn"
  /\ \A updates : Whole(updates).has = updates /\ Whole(updates).state = "whole"
  /\ \A file \in Files : file.has \in SUBSET Updates
  /\ {Absent, Empty, Torn} \subseteq Files
  /\ \A updates \in SUBSET Updates : Whole(updates) \in Files
<1>1. \A updates : Whole(updates).has = updates /\ Whole(updates).state = "whole"
  BY DEF Whole
<1>2. /\ Absent.has = {} /\ Empty.has = {} /\ Torn.has = {}
      /\ Absent.state = "absent" /\ Empty.state = "empty" /\ Torn.state = "torn"
  BY DEF Absent, Empty, Torn
<1>3. /\ {Absent, Empty, Torn} \subseteq Files
      /\ \A updates \in SUBSET Updates : Whole(updates) \in Files
  BY DEF Files
<1>4. \A file \in Files : file.has \in SUBSET Updates
  BY <1>1, <1>2 DEF Files
<1> QED BY <1>1, <1>2, <1>3, <1>4

\* Savers that are back to idle keep the types.
LEMMA Idle ==
  ASSUME TypeOK, ObjectInv, LoneInv, NEW savers \in SUBSET Savers, Released(savers),
         UNCHANGED <<settings, count>>,
         json' \in Files, tmp' \in Files, acked' \subseteq Updates,
         order' \in Orders, order' = "lone" <=> order = "lone",
         kept' \in [Processes -> Objects],
         \A s \in Savers \ savers : kept'[Process[s]] = kept[Process[s]]
  PROVE  TypeOK' /\ ObjectInv' /\ LoneInv'
<1> USE DEF TypeOK, ObjectInv, Released, settings
<1>1. \A s \in Savers : IF s \in savers
                        THEN pc'[s] = "idle" /\ opened'[s] = "nothing"
                        ELSE pc'[s] = pc[s] /\ opened'[s] = opened[s]
  OBVIOUS
<1>2. /\ pc' \in [Savers -> Busy \cup {"idle"}]
      /\ opened' \in [Savers -> {"nothing", "json", "tmp", "unlinked"}]
      /\ text' \in [Savers -> SUBSET Updates]
  OBVIOUS
<1>3. \A s \in Savers : pc'[s] \in Busy => s \notin savers /\ pc[s] \in Busy /\ pc'[s] = pc[s]
  BY <1>1 DEF Busy
<1>4. lock' \in sharers \cup {None} /\ (lock' # None => lock' = lock /\ lock \notin savers)
  OBVIOUS
<1>5. ObjectInv'
  <2> SUFFICES ASSUME NEW s \in Savers
               PROVE  /\ pc'[s] \in Busy => count[s] \in 1..MaxUpdates
                      /\ pc'[s] = "changed" => Keeps(s)
                      /\ (pc'[s] \in Busy /\ Keeps(s)) => kept'[Process[s]] # None
                      /\ (pc'[s] \in Busy \ {"locked"} /\ Keeps(s)) =>
                           Update(s) \in kept'[Process[s]]
    BY DEF Object, Keeps, Update
  <2>1. CASE pc'[s] \in Busy
    BY <1>3, <2>1 DEF Object
  <2>2. CASE pc'[s] \notin Busy
    BY <2>2 DEF Busy
  <2> QED BY <2>1, <2>2
<1>6. \A s \in Savers : pc'[s] \in Busy => s \in sharers /\ (kind = "results" => lock' = s)
  BY <1>3
<1>7. lock' # None => pc'[lock'] \in Busy
  BY <1>1, <1>4
<1>8. LoneInv'
  BY <1>3, FileAssumption DEF LoneInv
<1>9. lone' \in Savers \cup {None}
  OBVIOUS
<1>10. \A s \in Savers : pc'[s] # "opened" => opened'[s] = "nothing"
  BY <1>1
<1> QED BY <1>1, <1>2, <1>4, <1>5, <1>6, <1>7, <1>8, <1>9, <1>10

LEMMA TypesAndObjects == Spec => [](TypeOK /\ ObjectInv /\ LoneInv)
<1>1. Init => TypeOK /\ ObjectInv /\ LoneInv
  <2> SUFFICES ASSUME Init PROVE TypeOK /\ ObjectInv /\ LoneInv
    OBVIOUS
  <2>1. \A s \in Savers : pc[s] = "idle" /\ opened[s] = "nothing"
    BY DEF Init
  <2>2. ObjectInv /\ LoneInv
    BY <2>1 DEF ObjectInv, LoneInv, Busy, Init
  <2>3. /\ count \in [Savers -> 0..MaxUpdates]
        /\ kept \in [Processes -> Objects]
        /\ text \in [Savers -> SUBSET Updates]
        /\ pc \in [Savers -> Busy \cup {"idle"}]
        /\ opened \in [Savers -> {"nothing", "json", "tmp", "unlinked"}]
    BY FileAssumption, ObjectTypes DEF Init
  <2>4. json \in Files /\ tmp \in Files
    BY FileFields DEF Init
  <2> QED BY <2>1, <2>2, <2>3, <2>4 DEF Init, TypeOK, Busy, Orders
<1>2. TypeOK /\ ObjectInv /\ LoneInv /\ [Next]_vars => TypeOK' /\ ObjectInv' /\ LoneInv'
  <2> SUFFICES ASSUME TypeOK, ObjectInv, LoneInv, [Next]_vars
               PROVE  TypeOK' /\ ObjectInv' /\ LoneInv'
    OBVIOUS
  <2> USE FileAssumption, FileFields
      DEF TypeOK, ObjectInv, LoneInv, settings, history, Keeps, Object, Update
  <2>0. \A s \in Savers : Process[s] \in Processes
    OBVIOUS
  <2>1. ASSUME NEW s \in Savers, StartAgent(s) PROVE TypeOK' /\ ObjectInv' /\ LoneInv'
    <3>1. kept' \in [Processes -> Objects]
      BY <2>1, ObjectTypes DEF StartAgent
    <3>2. ObjectInv'
      <4> SUFFICES ASSUME NEW t \in Savers, pc[t] \in Busy, Keeps(t)
                   PROVE  kept'[Process[t]] = kept[Process[t]]
        BY <2>1 DEF StartAgent, Busy
      <4> QED BY <2>0, <2>1 DEF StartAgent
    <3> QED BY <2>1, <3>1, <3>2 DEF StartAgent
  <2>2. ASSUME NEW s \in Savers, Begin(s) PROVE TypeOK' /\ ObjectInv' /\ LoneInv'
    <3>1. /\ pc'[s] = "locked" /\ \A t \in Savers \ {s} : pc'[t] = pc[t]
          /\ pc' \in [Savers -> Busy \cup {"idle"}] /\ pc[s] = "idle"
      BY <2>2 DEF Begin, Goto, Busy
    <3>2. ObjectInv'
      BY <2>2, <3>1 DEF Begin, Busy
    <3>3. order' \in Orders /\ lone' \in Savers \cup {None}
      BY <2>2 DEF Begin, Orders
    <3>4. kind = "results" => \A t \in Savers : pc[t] \notin Busy
      BY <2>2 DEF Begin
    <3>5. LoneInv'
      BY <2>2, <3>1, <3>4 DEF Begin, Busy
    <3>6. count' \in [Savers -> 0..MaxUpdates] /\ s \in sharers
      BY <2>2 DEF Begin
    <3>7. CASE kind = "results"
      BY <2>2, <3>1, <3>2, <3>3, <3>4, <3>5, <3>6, <3>7 DEF Begin, Busy
    <3>8. CASE kind # "results"
      BY <2>2, <3>1, <3>2, <3>3, <3>5, <3>6, <3>8 DEF Begin, Busy
    <3> QED BY <3>7, <3>8
  <2>3. ASSUME NEW s \in Savers, Load(s) PROVE TypeOK' /\ ObjectInv' /\ LoneInv'
    <3>1. Update(s) \in Updates
      BY <2>3 DEF Load, Updates, Busy
    <3>2. text' \in [Savers -> SUBSET Updates]
      BY <2>3, <3>1 DEF Load
    <3>3. pc'[s] = "dumped" /\ pc[s] = "locked" /\ \A t \in Savers \ {s} : pc'[t] = pc[t]
      BY <2>3 DEF Load, Goto
    <3>4. ObjectInv'
      BY <2>3, <3>3 DEF Load, Busy
    <3> QED BY <2>3, <3>2, <3>3, <3>4 DEF Load, Goto, Busy
  <2>4. ASSUME NEW s \in Savers, Change(s) PROVE TypeOK' /\ ObjectInv' /\ LoneInv'
    <3>1. Update(s) \in Updates
      BY <2>4 DEF Change, Updates, Busy
    <3>2. Object(s) \in SUBSET Updates
      <4>1. pc[s] \in Busy /\ Keeps(s)
        BY <2>4 DEF Change, Busy
      <4>2. Object(s) \in Objects /\ Object(s) # None
        BY <2>0, <4>1
      <4> QED BY <4>2, ObjectTypes
    <3>3. (Object(s) \cup {Update(s)}) \in SUBSET Updates
      BY <3>1, <3>2
    <3>4. /\ kept' \in [Processes -> Objects]
          /\ kept'[Process[s]] = Object(s) \cup {Update(s)}
          /\ \A p \in Processes : p # Process[s] => kept'[p] = kept[p]
      BY <2>0, <2>4, <3>3, ObjectTypes DEF Change
    <3>5. pc'[s] = "changed" /\ pc[s] = "locked" /\ \A t \in Savers \ {s} : pc'[t] = pc[t]
      BY <2>4 DEF Change, Goto
    <3>6. kept'[Process[s]] # None
      <4>1. Update(s) \in kept'[Process[s]] /\ kept'[Process[s]] \in SUBSET Updates
        BY <3>3, <3>4
      <4> QED BY <2>4, <3>4, <4>1, NoneAssumption
    <3>7. ObjectInv'
      <4> SUFFICES ASSUME NEW t \in Savers
                   PROVE  /\ pc'[t] \in Busy => count[t] \in 1..MaxUpdates
                          /\ pc'[t] = "changed" => Keeps(t)
                          /\ (pc'[t] \in Busy /\ Keeps(t)) => kept'[Process[t]] # None
                          /\ (pc'[t] \in Busy \ {"locked"} /\ Keeps(t)) =>
                               Update(t) \in kept'[Process[t]]
        BY <2>4 DEF Change
      <4>1. CASE t = s
        BY <2>4, <3>4, <3>5, <3>6, <4>1 DEF Change, Busy
      <4>2. CASE t # s /\ Process[t] = Process[s]
        BY <3>4, <3>5, <3>6, <4>2
      <4>3. CASE Process[t] # Process[s]
        BY <2>0, <3>4, <3>5, <4>3
      <4> QED BY <4>1, <4>2, <4>3
    <3> QED BY <2>4, <3>4, <3>5, <3>7 DEF Change, Goto, Busy
  <2>5. ASSUME NEW s \in Savers, Dump(s) PROVE TypeOK' /\ ObjectInv' /\ LoneInv'
    <3>1. Object(s) \in SUBSET Updates
      <4>1. pc[s] \in Busy /\ Keeps(s)
        BY <2>5 DEF Dump, Busy
      <4>2. Object(s) \in Objects /\ Object(s) # None
        BY <2>0, <4>1
      <4> QED BY <4>2, ObjectTypes
    <3>2. text' \in [Savers -> SUBSET Updates]
      BY <2>5, <3>1 DEF Dump
    <3> QED BY <2>5, <3>2 DEF Dump, Goto, Busy
  <2>6. ASSUME NEW s \in Savers, OpenTmp(s) PROVE TypeOK' /\ ObjectInv' /\ LoneInv'
    BY <2>6 DEF OpenTmp, Goto, Busy
  <2>7. ASSUME NEW s \in Savers, Flush(s) PROVE TypeOK' /\ ObjectInv' /\ LoneInv'
    <3>1. json' \in Files /\ tmp' \in Files
      BY <2>7 DEF Flush, WrittenOver
    <3> QED BY <2>7, <3>1 DEF Flush, Goto, Busy
  <2>8. ASSUME NEW s \in Savers, Replace(s) PROVE TypeOK' /\ ObjectInv' /\ LoneInv'
    <3>1. /\ opened' \in [Savers -> {"nothing", "json", "tmp", "unlinked"}]
          /\ \A t \in Savers : opened[t] = "nothing" => opened'[t] = "nothing"
      BY <2>8 DEF Replace, Renamed
    <3> QED BY <2>8, <3>1 DEF Replace, Goto, Busy, Orders
  <2>9. ASSUME NEW s \in Savers, Finish(s) PROVE TypeOK' /\ ObjectInv' /\ LoneInv'
    <3>1. Update(s) \in Updates
      BY <2>9 DEF Finish, Updates, Busy
    <3>2. acked' \subseteq Updates
      BY <2>9, <3>1 DEF Finish
    <3> QED BY <2>9, <3>2, Idle DEF Finish
  <2>10. ASSUME NEW s \in Savers, Fails(s) PROVE TypeOK' /\ ObjectInv' /\ LoneInv'
    <3>1. json' \in Files /\ tmp' \in Files
      BY <2>10 DEF Fails, CutOff
    <3> QED BY <2>10, <3>1, Idle DEF Fails
  <2>11. ASSUME NEW s \in Savers, Crash(s) PROVE TypeOK' /\ ObjectInv' /\ LoneInv'
    <3>1. json' \in Files /\ tmp' \in Files
      BY <2>11 DEF Crash, CutOff
    <3>2. /\ kept' \in [Processes -> Objects]
          /\ \A t \in Savers \ Threads(Process[s]) : kept'[Process[t]] = kept[Process[t]]
      BY <2>0, <2>11, ObjectTypes DEF Crash, Threads
    <3>3. order' \in Orders /\ (order' = "lone" <=> order = "lone")
      BY <2>11 DEF Crash, Orders
    <3>4. Threads(Process[s]) \in SUBSET Savers
      BY DEF Threads
    <3> QED BY <2>11, <3>1, <3>2, <3>3, <3>4, Idle DEF Crash
  <2>12. CASE UNCHANGED vars
    BY <2>12 DEF vars
  <2> QED BY <2>1, <2>2, <2>3, <2>4, <2>5, <2>6, <2>7, <2>8, <2>9, <2>10, <2>11, <2>12
             DEF Next, Save
<1> QED BY <1>1, <1>2, PTL DEF Spec

\* Types of the documents, their savers and the lock, which only a saver in an
\* update holds.
THEOREM FileTypes == Spec => []TypeOK
BY TypesAndObjects, PTL
---------------------------------------------------------------------------
\* A document that is locked, or used by one process, ...
Owned == kind = "results" \/ OneProcess

\* ... is held whole, and so is what a saver writes that may rely on it.
Relies(s) == lone = s /\ pc[s] \in Busy /\ (order = "lone" \/ Keeps(s))

Writes(s) ==
  /\ pc[s] \in Writing => acked \subseteq text[s] /\ Update(s) \in text[s]
  /\ pc[s] = "opened" => opened[s] = "tmp" /\ tmp = Empty
  /\ pc[s] = "flushed" => tmp = Whole(text[s])
  /\ (pc[s] = "replaced" /\ order = "lone") => Update(s) \in json.has

\* As long as the process lives, its object has all that was acknowledged.
Held ==
  /\ order = "lone" => json.state \in {"absent", "whole"} /\ acked \subseteq json.has
  /\ \A s \in sharers : Keeps(s) /\ Object(s) # None => acked \subseteq Object(s)
  /\ \A s \in sharers : Keeps(s) /\ order = "overlapped" => Object(s) # None
  /\ \A s \in Savers : Relies(s) => Writes(s)

SafeInv == Owned /\ order # "lost" => Held

\* One process has one object.
LEMMA SameObject ==
  ASSUME Owned, NEW s \in sharers, NEW t \in sharers, Keeps(s)
  PROVE  Process[s] = Process[t] /\ Keeps(t) /\ Object(s) = Object(t)
BY DEF Owned, OneProcess, Keeps, Object

\* A JSON document that is locked, or that one process has for itself, is
\* whole and holds every update whose caller was told of success: at any moment
\* as long as updates come one after another, and again from the first that
\* does so after some did not (JsonFileIdempotencyStore, tools/middleware.py;
\* JsonMemoryStore.save, memory/store.py).
THEOREM FileSafety == Spec => []ExclusiveFileIsSafe
<1>1. Init => SafeInv
  BY FileFields DEF Init, SafeInv, Held, Relies, Object, Busy
<1>2. /\ SafeInv /\ TypeOK /\ ObjectInv /\ LoneInv /\ TypeOK' /\ LoneInv' /\ [Next]_vars
      => SafeInv'
  <2> SUFFICES ASSUME SafeInv, TypeOK, ObjectInv, LoneInv, TypeOK', LoneInv', [Next]_vars,
                      Owned', order' # "lost"
               PROVE  Held'
    BY DEF SafeInv
  <2>0a. UNCHANGED settings
    BY DEF Next, Save, vars, StartAgent, Begin, Load, Change, Dump, OpenTmp,
           Flush, Replace, Finish, Fails, Crash
  <2>0b. order # "lost"
    BY DEF Next, Save, vars, history, StartAgent, Begin, Load, Change, Dump, OpenTmp,
           Flush, Replace, Finish, Fails, Crash
  <2>0. Owned /\ Held /\ kind' = kind /\ sharers' = sharers /\ sharers \subseteq Savers
    BY <2>0a, <2>0b DEF SafeInv, Owned, OneProcess, settings, TypeOK
  <2>0c. \A s \in Savers : Keeps(s)' = Keeps(s) /\ Process[s] \in Processes
    BY <2>0, FileAssumption DEF Keeps
  <2>0d. \A s \in Savers : pc[s] \in Busy => s \in sharers
    BY DEF TypeOK
  <2>1. \A s, t \in Savers : lone = s /\ pc[t] \in Busy => t = s
    BY DEF LoneInv
  <2> USE DEF Held, Goto, history
  <2>2. ASSUME NEW s \in Savers, StartAgent(s) PROVE Held'
    <3>1. s \in sharers /\ Keeps(s) /\ Object(s) = None
      BY <2>2 DEF StartAgent
    <3>2. order = "lone" /\ UNCHANGED <<json, tmp, pc, opened, text, count, acked, lone, order>>
      BY <2>0, <2>0b, <2>2, <3>1 DEF StartAgent, TypeOK, Orders
    <3>3. kept'[Process[s]] = json.has
      BY <2>0c, <2>2 DEF StartAgent, TypeOK
    <3>4. \A t \in sharers : Process[t] = Process[s]
      BY <2>0, <3>1, SameObject
    <3>5. \A t \in sharers : acked \subseteq Object(t)'
      BY <2>0, <3>2, <3>3, <3>4 DEF Object
    <3>6. \A t \in Savers : Relies(t)' => Writes(t)'
      BY <2>0, <2>0c, <3>2 DEF Relies, Writes, Update
    <3> QED BY <2>0, <3>2, <3>5, <3>6
  <2>3. ASSUME NEW s \in Savers, Begin(s) PROVE Held'
    <3>1. /\ s \in sharers /\ pc'[s] = "locked" /\ (Keeps(s) => Object(s) # None)
          /\ UNCHANGED <<json, tmp, kept, text, acked>>
          /\ order' = "lone" => order = "lone"
          /\ lone' \in {s, None}
      BY <2>3 DEF Begin, TypeOK
    <3>2. \A t \in Savers : Object(t)' = Object(t)
      BY <3>1 DEF Object
    <3>3. \A t \in sharers : Keeps(t) => Object(t) # None
      BY <2>0, <3>1, SameObject DEF TypeOK
    <3>4. \A t \in Savers : Relies(t)' => Writes(t)'
      BY <3>1, FileAssumption DEF Relies, Writes, Writing
    <3> QED BY <2>0, <2>0c, <3>1, <3>2, <3>3, <3>4 DEF TypeOK
  <2>4. ASSUME NEW s \in Savers, Load(s) PROVE Held'
    <3>1. /\ pc'[s] = "dumped" /\ pc[s] \in Busy /\ ~Keeps(s)
          /\ text'[s] = json.has \cup {Update(s)}
          /\ UNCHANGED <<json, tmp, kept, opened, acked, count, lone, order>>
      BY <2>4 DEF Load, TypeOK, Busy
    <3>2. \A t \in Savers : Object(t)' = Object(t) /\ Update(t)' = Update(t)
      BY <3>1 DEF Object, Update
    <3>3. ASSUME NEW t \in Savers, Relies(t)' PROVE Writes(t)'
      <4>1. t = s
        BY <2>1, <3>1, <3>3 DEF Relies
      <4>2. order = "lone"
        BY <2>0c, <3>1, <3>3, <4>1 DEF Relies
      <4> QED BY <2>0, <3>1, <3>2, <4>1, <4>2 DEF Writes
    <3> QED BY <2>0, <2>0c, <3>1, <3>2, <3>3 DEF TypeOK
  <2>5. ASSUME NEW s \in Savers, Change(s) PROVE Held'
    <3>1. /\ pc'[s] = "changed" /\ pc[s] \in Busy
          /\ UNCHANGED <<json, tmp, text, opened, acked, count, lone, order>>
          /\ Keeps(s) /\ Object(s) # None
      BY <2>5 DEF Change, TypeOK, Busy, ObjectInv
    <3>2. kept'[Process[s]] = Object(s) \cup {Update(s)}
      BY <2>0c, <2>5 DEF Change, TypeOK, Object
    <3>3. \A t \in sharers : Object(t)' = Object(s) \cup {Update(s)}
      BY <2>0, <2>0d, <3>1, <3>2, SameObject DEF Object
    <3>4. acked \subseteq Object(s)
      BY <2>0, <2>0d, <3>1
    <3>5. \A t \in sharers : Object(t)' # None
      <4>1. s \in Savers /\ Object(s) \in SUBSET Updates /\ Update(s) \in Updates
        BY <2>0c, <3>1, ObjectTypes DEF TypeOK, Object, ObjectInv, Update, Updates
      <4>2. (Object(s) \cup {Update(s)}) \in SUBSET Updates
        BY <4>1
      <4> QED BY <3>3, <4>2, NoneAssumption
    <3>6. \A t \in Savers : Relies(t)' => Writes(t)'
      BY <2>1, <3>1 DEF Relies, Writes, Writing
    <3> QED BY <2>0, <2>0c, <3>1, <3>3, <3>4, <3>5, <3>6
  <2>6. ASSUME NEW s \in Savers, Dump(s) PROVE Held'
    <3>1. /\ pc'[s] = "dumped" /\ pc[s] \in Busy
          /\ text'[s] = Object(s)
          /\ UNCHANGED <<json, tmp, kept, opened, acked, count, lone, order>>
          /\ Keeps(s) /\ Object(s) # None /\ Update(s) \in Object(s)
      BY <2>6 DEF Dump, TypeOK, Busy, ObjectInv
    <3>2. \A t \in Savers : Object(t)' = Object(t) /\ Update(t)' = Update(t)
      BY <3>1 DEF Object, Update
    <3>3. acked \subseteq Object(s)
      BY <2>0, <2>0d, <3>1
    <3>4. \A t \in Savers : Relies(t)' => Writes(t)'
      BY <2>1, <3>1, <3>2, <3>3 DEF Relies, Writes
    <3> QED BY <2>0, <2>0c, <3>1, <3>2, <3>4
  <2>7. ASSUME NEW s \in Savers, OpenTmp(s) PROVE Held'
    <3>1. /\ pc'[s] = "opened" /\ pc[s] = "dumped"
          /\ opened'[s] = "tmp" /\ tmp' = Empty
          /\ UNCHANGED <<json, kept, text, acked, count, lone, order>>
      BY <2>7 DEF OpenTmp, TypeOK
    <3>2. \A t \in Savers : Object(t)' = Object(t) /\ Update(t)' = Update(t)
      BY <3>1 DEF Object, Update
    <3>3. ASSUME NEW t \in Savers, Relies(t)' PROVE Writes(t)'
      <4>1. t = s
        BY <2>1, <3>1, <3>3 DEF Relies, Busy
      <4>2. Relies(s)
        BY <2>0c, <3>1, <3>3, <4>1 DEF Relies, Busy
      <4> QED BY <2>0, <3>1, <3>2, <4>1, <4>2 DEF Writes, Writing
    <3> QED BY <2>0, <2>0c, <3>1, <3>2, <3>3
  <2>8. ASSUME NEW s \in Savers, Flush(s) PROVE Held'
    <3>1. /\ pc'[s] = "flushed" /\ pc[s] = "opened"
          /\ UNCHANGED <<kept, text, acked, count, lone, order>>
      BY <2>8 DEF Flush, TypeOK
    <3>2. \A t \in Savers : Object(t)' = Object(t) /\ Update(t)' = Update(t)
      BY <3>1 DEF Object, Update
    <3>3. ASSUME Relies(s) PROVE tmp' = Whole(text[s]) /\ json' = json
      <4>1. opened[s] = "tmp" /\ tmp.state = "empty"
        BY <2>0, <3>1, <3>3, FileFields DEF Writes
      <4> QED BY <2>8, <4>1 DEF Flush, WrittenOver
    <3>4. order = "lone" => Relies(s)
      BY <3>1 DEF Relies, LoneInv, Busy
    <3>5. ASSUME NEW t \in Savers, Relies(t)' PROVE Writes(t)'
      <4>1. t = s
        BY <2>1, <3>1, <3>5 DEF Relies, Busy
      <4>2. Relies(s)
        BY <2>0c, <3>1, <3>5, <4>1 DEF Relies, Busy
      <4> QED BY <2>0, <3>1, <3>2, <3>3, <4>1, <4>2 DEF Writes, Writing
    <3> QED BY <2>0, <2>0c, <3>1, <3>2, <3>3, <3>4, <3>5
  <2>9. ASSUME NEW s \in Savers, Replace(s) PROVE Held'
    <3>1. /\ pc'[s] = "replaced" /\ pc[s] = "flushed" /\ json' = tmp
          /\ UNCHANGED <<kept, text, acked, count, lone>>
          /\ order' \in {order, "lone"}
          /\ order' = "lone" => order = "lone" \/ (lone = s /\ Keeps(s))
      BY <2>9 DEF Replace, TypeOK
    <3>2. \A t \in Savers : Object(t)' = Object(t) /\ Update(t)' = Update(t)
      BY <3>1 DEF Object, Update
    <3>3. order' = "lone" => Relies(s)
      BY <3>1 DEF Relies, LoneInv, Busy
    <3>4. ASSUME Relies(s)
          PROVE  json'.state = "whole" /\ acked \subseteq json'.has /\ Update(s) \in json'.has
      BY <2>0, <3>1, <3>4, FileFields DEF Writes, Writing
    <3>5. ASSUME NEW t \in Savers, Relies(t)' PROVE Writes(t)'
      <4>1. t = s
        BY <2>1, <3>1, <3>5 DEF Relies, Busy
      <4> QED BY <3>1, <3>2, <3>3, <3>4, <4>1 DEF Writes, Writing
    <3> QED BY <2>0, <2>0c, <3>1, <3>2, <3>3, <3>4, <3>5
  <2>10. ASSUME NEW s \in Savers, Finish(s) PROVE Held'
    <3>1. /\ pc[s] = "replaced" /\ acked' = acked \cup {Update(s)}
          /\ UNCHANGED <<json, kept, count, order>>
      BY <2>10 DEF Finish
    <3>2. \A t \in Savers : Object(t)' = Object(t)
      BY <3>1 DEF Object
    <3>3. order = "lone" => Update(s) \in json.has
      BY <2>0, <3>1 DEF Relies, Writes, LoneInv, Busy
    <3>4. ASSUME NEW t \in sharers, Keeps(t) PROVE Update(s) \in Object(t)
      <4>1. Keeps(s) /\ Object(s) = Object(t)
        BY <2>0, <2>0d, <3>1, <3>4, SameObject DEF Busy
      <4> QED BY <3>1, <4>1 DEF ObjectInv, Busy
    <3>5. ASSUME NEW t \in Savers, Relies(t)' PROVE FALSE
      <4>1. lone' = t /\ t # s /\ lone' # None
        BY <2>10, <3>5, FileAssumption DEF Finish, Released, Relies, Busy
      <4>2. lone = t
        BY <2>10, <4>1 DEF Finish, Released
      <4> QED BY <2>1, <3>1, <4>1, <4>2 DEF Busy
    <3> QED BY <2>0, <2>0c, <3>1, <3>2, <3>3, <3>4, <3>5 DEF TypeOK
  <2>11. ASSUME NEW savers \in SUBSET Savers, Released(savers),
                \A t \in Savers : Object(t)' \in {Object(t), None},
                order' = order, order = "overlapped" => kept' = kept,
                json' \in CutOff(savers, "json", json), tmp' \in CutOff(savers, "tmp", tmp),
                UNCHANGED <<count, acked>>
         PROVE  Held'
    <3>1. \A t \in Savers : pc'[t] \in Busy => t \notin savers /\ pc'[t] = pc[t]
      BY <2>11 DEF Released, Busy
    <3>2. ASSUME order = "lone" PROVE json' = json
      <4>1. \A t \in Savers : opened[t] # "json"
        <5> SUFFICES ASSUME NEW t \in Savers, opened[t] = "json" PROVE FALSE
          OBVIOUS
        <5>1. pc[t] = "opened"
          BY DEF TypeOK
        <5>2. Relies(t)
          BY <3>2, <5>1 DEF Relies, LoneInv, Busy
        <5> QED BY <2>0, <5>1, <5>2 DEF Writes
      <4> QED BY <2>11, <4>1 DEF CutOff
    <3>3. \A t \in Savers : Object(t)' \in {Object(t), None} /\ Update(t)' = Update(t)
      BY <2>11 DEF Update
    <3>4. ASSUME NEW t \in Savers, Relies(t)' PROVE Writes(t)'
      <4>1. lone = t /\ t \notin savers /\ pc[t] \in Busy /\ pc'[t] = pc[t]
        BY <2>11, <3>1, <3>4, FileAssumption DEF Relies, Released
      <4>2. Relies(t)
        BY <2>0c, <2>11, <3>4, <4>1 DEF Relies
      <4>3. text'[t] = text[t] /\ opened'[t] = opened[t]
        BY <2>11, <4>1 DEF Released
      <4>4. tmp' = tmp
        <5>1. \A v \in savers : opened[v] = "nothing"
          BY <2>1, <4>1 DEF TypeOK, Busy
        <5> QED BY <2>11, <5>1 DEF CutOff
      <4> QED BY <2>0, <2>11, <3>2, <3>3, <4>1, <4>2, <4>3, <4>4 DEF Writes, Writing
    <3>5. order = "overlapped" => \A t \in Savers : Object(t)' = Object(t)
      BY <2>11 DEF Object
    <3> QED BY <2>0, <2>0c, <2>11, <3>2, <3>3, <3>4, <3>5 DEF TypeOK
  <2>12. ASSUME NEW s \in Savers, Fails(s) PROVE Held'
    <3>1. /\ {s} \in SUBSET Savers /\ Released({s})
          /\ \A t \in Savers : Object(t)' \in {Object(t), None}
          /\ order' = order /\ kept' = kept
          /\ json' \in CutOff({s}, "json", json) /\ tmp' \in CutOff({s}, "tmp", tmp)
          /\ UNCHANGED <<count, acked>>
      BY <2>12 DEF Fails, Object
    <3> QED BY <2>11, <3>1
  <2>13. ASSUME NEW s \in Savers, Crash(s) PROVE Held'
    <3>1. order' = order /\ order # "overlapped"
      BY <2>13 DEF Crash
    <3>2. Threads(Process[s]) \in SUBSET Savers
      BY DEF Threads
    <3>3. /\ Released(Threads(Process[s]))
          /\ \A t \in Savers : Object(t)' \in {Object(t), None}
          /\ json' \in CutOff(Threads(Process[s]), "json", json)
          /\ tmp' \in CutOff(Threads(Process[s]), "tmp", tmp)
          /\ UNCHANGED <<count, acked>>
      BY <2>0c, <2>13 DEF Crash, Object, TypeOK
    <3> QED BY <2>11, <3>1, <3>2, <3>3
  <2>14. CASE UNCHANGED vars
    <3>1. UNCHANGED <<json, tmp, pc, opened, kept, text, count, acked, lone, order>>
      BY <2>14 DEF vars
    <3>2. \A t \in Savers : Object(t)' = Object(t) /\ (Relies(t)' <=> Relies(t))
                           /\ (Writes(t)' <=> Writes(t))
      BY <2>0c, <3>1 DEF Object, Relies, Writes, Update
    <3> QED BY <2>0, <2>0c, <3>1, <3>2
  <2> QED BY <2>2, <2>3, <2>4, <2>5, <2>6, <2>7, <2>8, <2>9, <2>10, <2>12, <2>13, <2>14
             DEF Next, Save
<1>3. SafeInv /\ LoneInv => ExclusiveFileIsSafe
  BY DEF LoneInv, SafeInv, Held, Owned, Exclusive, ExclusiveFileIsSafe
<1> QED BY <1>1, <1>2, <1>3, TypesAndObjects, PTL DEF Spec
=============================================================================
