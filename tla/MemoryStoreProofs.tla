-------------------------- MODULE MemoryStoreProofs --------------------------
(***************************************************************************)
(* For any namespaces, facts, topics and times to live: what long-term     *)
(* memory keeps, merges, shows and archives.                               *)
(*                                                                         *)
(* All operations but two only let records fade: they stay what they say,  *)
(* and active ones may become archived.  Merge and Create are the two.     *)
(***************************************************************************)
EXTENDS MemoryStore, FiniteSetTheorems, TLAPS

Fades(a, b) ==
  /\ DOMAIN b = DOMAIN a
  /\ \A i \in DOMAIN a : /\ b[i].ns = a[i].ns
                         /\ b[i].fact = a[i].fact
                         /\ b[i].mergedFrom = a[i].mergedFrom
                         /\ b[i].expiresAt = a[i].expiresAt
                         /\ b[i].status = "active" => a[i].status = "active"
                         /\ b[i].status \in {"active", "archived"}

Inv == TypeOK /\ OneActivePerFact /\ NothingForgotten /\ ShownIsLive

\* Archiving and touching a record leave what it says alone.
LEMMA RecordSteps ==
  ASSUME TypeOK, NEW m \in Record
  PROVE  /\ Archived(m) \in Record
         /\ Archived(m) = [m EXCEPT !.status = "archived", !.updatedAt = now]
         /\ Archived(m).status = "archived"
         /\ Touched(m) \in Record
         /\ Touched(m).status = m.status
         /\ \A r \in {Archived(m), Touched(m)} :
              /\ r.ns = m.ns /\ r.fact = m.fact
              /\ r.mergedFrom = m.mergedFrom /\ r.expiresAt = m.expiresAt
<1>1. now \in Nat
  BY DEF TypeOK
<1>2. m.accessCount + 1 \in Nat
  BY DEF Record
<1>3. Archived(m) \in Record
  BY <1>1 DEF Archived, Record
<1>4. Touched(m) \in Record
  BY <1>1, <1>2 DEF Touched, Record
<1> QED BY <1>3, <1>4 DEF Archived, Touched, Record

\* A function from the records' indices to records is a store.
LEMMA RecordsAreSeq ==
  ASSUME NEW ms \in Seq(Record), NEW out,
         DOMAIN out = DOMAIN ms, out = [i \in DOMAIN ms |-> out[i]],
         \A i \in DOMAIN ms : out[i] \in Record
  PROVE  out \in Seq(Record)
<1>1. DOMAIN ms = 1..Len(ms) /\ Len(ms) \in Nat
  OBVIOUS
<1>2. out \in [1..Len(ms) -> Record]
  BY <1>1
<1> QED BY <1>1, <1>2

\* Archiving any records leaves a well-formed store that has only faded.
LEMMA ArchiveAllFades ==
  ASSUME TypeOK, NEW ms \in Seq(Record), NEW ids
  PROVE  ArchiveAll(ms, ids) \in Seq(Record) /\ Fades(ms, ArchiveAll(ms, ids))
<1> DEFINE out == ArchiveAll(ms, ids)
<1>1. ASSUME NEW i \in DOMAIN ms
      PROVE  /\ ms[i] \in Record
             /\ out[i] = IF i \in ids THEN Archived(ms[i]) ELSE ms[i]
  BY <1>1 DEF ArchiveAll
<1>2. \A i \in DOMAIN ms : out[i] \in Record
  BY <1>1, RecordSteps
<1>3. DOMAIN out = DOMAIN ms /\ out = [i \in DOMAIN ms |-> out[i]]
  BY DEF ArchiveAll
<1> HIDE DEF out
<1>4. out \in Seq(Record)
  BY <1>2, <1>3, RecordsAreSeq
<1>5. \A i \in DOMAIN ms : ms[i].status \in {"active", "archived"}
  BY <1>1 DEF Record
<1>6. ASSUME NEW i \in DOMAIN ms
      PROVE  /\ out[i].ns = ms[i].ns /\ out[i].fact = ms[i].fact
             /\ out[i].mergedFrom = ms[i].mergedFrom
             /\ out[i].expiresAt = ms[i].expiresAt
             /\ out[i].status = "active" => ms[i].status = "active"
             /\ out[i].status \in {"active", "archived"}
  <2>1. CASE i \in ids
    <3>1. out[i] = Archived(ms[i]) /\ ms[i] \in Record
      BY <2>1, <1>1
    <3> QED BY <3>1, RecordSteps
  <2>2. CASE i \notin ids
    BY <2>2, <1>1, <1>5
  <2> QED BY <2>1, <2>2
<1>7. Fades(ms, out)
  BY <1>3, <1>6 DEF Fades
<1> QED BY <1>4, <1>7 DEF out

\* After expired memories are archived no active one has expired.
LEMMA ArchiveExpiredLive ==
  ASSUME TypeOK
  PROVE  LET live == ArchiveExpired(memories)
         IN  \A i \in DOMAIN live : live[i].status = "active" =>
               live[i] = memories[i] /\ ~IsExpired(memories[i])
<1> DEFINE old == {i \in DOMAIN memories : memories[i].status = "active" /\ IsExpired(memories[i])}
           live == ArchiveExpired(memories)
<1>1. live = [i \in DOMAIN memories |-> IF i \in old THEN Archived(memories[i]) ELSE memories[i]]
  BY DEF ArchiveExpired, ArchiveAll
<1>2. ASSUME NEW i \in DOMAIN memories PROVE Archived(memories[i]).status = "archived"
  BY <1>2 DEF Archived, TypeOK, Record
<1> QED BY <1>1, <1>2

\* A store that fades keeps at most one active memory per fact and topic.
LEMMA FadingKeepsFacts ==
  ASSUME OneActivePerFact, Fades(memories, memories')
  PROVE  OneActivePerFact'
<1>1. ASSUME NEW ns \in Namespaces PROVE Active(memories', ns) \subseteq Active(memories, ns)
  BY DEF Fades, Active
<1>2. \A i \in DOMAIN memories : memories'[i].fact = memories[i].fact
  BY DEF Fades
<1> SUFFICES ASSUME NEW ns \in Namespaces,
                    NEW i \in Active(memories', ns), NEW j \in Active(memories', ns), i # j
             PROVE  /\ memories'[i].fact # memories'[j].fact
                    /\ \/ Topic[memories'[i].fact] = NoTopic
                       \/ Topic[memories'[i].fact] # Topic[memories'[j].fact]
  BY DEF OneActivePerFact
<1>3. i \in Active(memories, ns) /\ j \in Active(memories, ns)
  BY <1>1
<1> QED BY <1>2, <1>3 DEF OneActivePerFact, Active

\* A store that fades, nothing being told, forgets nothing.
LEMMA FadingKeeps ==
  ASSUME OneActivePerFact, NothingForgotten, Fades(memories, memories'), told' = told
  PROVE  OneActivePerFact' /\ NothingForgotten'
<1>1. OneActivePerFact'
  BY FadingKeepsFacts
<1>2. NothingForgotten'
  BY DEF NothingForgotten, Fades
<1> QED BY <1>1, <1>2

\* What a snapshot leaves behind and what it lists.
LEMMA SnapshotStep ==
  ASSUME TypeOK, NEW ns \in Namespaces, NEW touch \in BOOLEAN, Snapshot(ns, touch)
  PROVE  TypeOK' /\ Fades(memories, memories') /\ ShownIsLive'
<1> DEFINE live == ArchiveExpired(memories)
<1>1. PICK ids \in SUBSET Active(live, ns) :
        /\ memories' = [i \in DOMAIN live |->
                          IF touch /\ i \in ids THEN Touched(live[i]) ELSE live[i]]
        /\ shown' = [ns |-> ns, ids |-> ids]
  BY DEF Snapshot
<1>2. live \in Seq(Record) /\ Fades(memories, live)
  BY ArchiveAllFades DEF ArchiveExpired, TypeOK
<1> HIDE DEF live
<1>4. ASSUME NEW i \in DOMAIN live
      PROVE  /\ live[i] \in Record
             /\ memories'[i] \in {live[i], Touched(live[i])}
  BY <1>1, <1>2, <1>4
<1>5. DOMAIN memories' = DOMAIN live /\ memories' = [i \in DOMAIN live |-> memories'[i]]
  BY <1>1
<1>6. memories' \in Seq(Record)
  <2>1. ASSUME NEW i \in DOMAIN live PROVE memories'[i] \in Record
    <3>1. live[i] \in Record /\ Touched(live[i]) \in Record
      BY <1>4, RecordSteps
    <3> QED BY <3>1, <1>4
  <2> QED BY <2>1, <1>2, <1>5, RecordsAreSeq
<1>7. ASSUME NEW i \in DOMAIN live
      PROVE  /\ memories'[i].ns = live[i].ns
             /\ memories'[i].fact = live[i].fact
             /\ memories'[i].mergedFrom = live[i].mergedFrom
             /\ memories'[i].expiresAt = live[i].expiresAt
             /\ memories'[i].status = live[i].status
  <2>1. CASE memories'[i] = Touched(live[i])
    <3>1. live[i] \in Record
      BY <1>4
    <3> QED BY <2>1, <3>1, RecordSteps
  <2>2. CASE memories'[i] = live[i]
    BY <2>2
  <2> QED BY <2>1, <2>2, <1>4
<1>8. Fades(memories, memories')
  BY <1>2, <1>5, <1>7 DEF Fades
<1>9. TypeOK'
  BY <1>1, <1>5, <1>6 DEF TypeOK, Snapshot, Active
<1>10. ShownIsLive'
  <2> SUFFICES ASSUME NEW i \in ids
               PROVE  /\ memories'[i].ns = ns
                      /\ memories'[i].status = "active"
                      /\ ~IsExpired(memories[i])'
    BY <1>1 DEF ShownIsLive
  <2>1. i \in DOMAIN live /\ live[i].status = "active" /\ live[i].ns = ns
    BY DEF Active
  <2>2. live[i] = memories[i] /\ ~IsExpired(memories[i])
    BY <2>1, ArchiveExpiredLive DEF live
  <2>3. now' = now
    BY DEF Snapshot
  <2> QED BY <2>1, <2>2, <2>3, <1>7 DEF IsExpired
<1> QED BY <1>8, <1>9, <1>10

\* Every record is one.
LEMMA RecordsTyped ==
  ASSUME TypeOK
  PROVE  \A j \in DOMAIN memories :
           memories[j] \in Record /\ memories[j].status \in {"active", "archived"}
<1>1. \A j \in DOMAIN memories : memories[j] \in Record
  BY DEF TypeOK
<1> QED BY <1>1 DEF Record

\* The same fact again, in the record that has it.
LEMMA RestateStep ==
  ASSUME TypeOK, NEW ns \in Namespaces, NEW f \in Facts, NEW imp \in 0..MaxImportance,
         Restate(ns, f, imp)
  PROVE  TypeOK' /\ Fades(memories, memories')
<1>1. PICK i \in DOMAIN memories :
        memories' = [memories EXCEPT ![i].updatedAt = now,
                                     ![i].importance = Larger(@, imp)]
  BY DEF Restate, FirstOf, Exact, Active
<1>2. memories[i] \in Record /\ now \in Nat /\ MaxImportance \in Nat
  BY StoreAssumption DEF TypeOK
<1>3. Larger(memories[i].importance, imp) \in 0..MaxImportance
  BY <1>2 DEF Larger, Record
<1>4. \A j \in DOMAIN memories : memories[j].status \in {"active", "archived"}
  BY RecordsTyped
<1> DEFINE new == [memories[i] EXCEPT !.updatedAt = now,
                                      !.importance = Larger(memories[i].importance, imp)]
<1>5. memories' = [memories EXCEPT ![i] = new]
  BY <1>1
<1>6. new \in Record
  BY <1>2, <1>3 DEF Record
<1>7. /\ new.ns = memories[i].ns /\ new.fact = memories[i].fact
      /\ new.mergedFrom = memories[i].mergedFrom
      /\ new.expiresAt = memories[i].expiresAt /\ new.status = memories[i].status
  BY <1>2 DEF Record
<1> HIDE DEF new
<1>8. memories' \in Seq(Record) /\ DOMAIN memories' = DOMAIN memories
  BY <1>5, <1>6 DEF TypeOK
<1>9. TypeOK'
  BY <1>8, StoreAssumption DEF TypeOK, Restate, NothingShown
<1>10. Fades(memories, memories')
  BY <1>4, <1>5, <1>7, <1>8 DEF Fades
<1> QED BY <1>9, <1>10

\* A reviewer's importance, clamped.
LEMMA SetImportanceStep ==
  ASSUME TypeOK, NEW ns \in Namespaces, NEW i \in DOMAIN memories,
         NEW v \in -1..(MaxImportance + 1), SetImportance(ns, i, v)
  PROVE  TypeOK' /\ Fades(memories, memories')
<1>1. memories[i] \in Record /\ now \in Nat /\ MaxImportance \in Nat
  BY StoreAssumption DEF TypeOK
<1>2. ClampInt(v) \in 0..MaxImportance
  BY <1>1 DEF ClampInt
<1>3. \A j \in DOMAIN memories : memories[j].status \in {"active", "archived"}
  BY RecordsTyped
<1> DEFINE new == [memories[i] EXCEPT !.importance = ClampInt(v), !.updatedAt = now]
<1>4. memories' = [memories EXCEPT ![i] = new]
  BY DEF SetImportance
<1>5. new \in Record
  BY <1>1, <1>2 DEF Record
<1>6. /\ new.ns = memories[i].ns /\ new.fact = memories[i].fact
      /\ new.mergedFrom = memories[i].mergedFrom
      /\ new.expiresAt = memories[i].expiresAt /\ new.status = memories[i].status
  BY <1>1 DEF Record
<1> HIDE DEF new
<1>7. memories' \in Seq(Record) /\ DOMAIN memories' = DOMAIN memories
  BY <1>4, <1>5 DEF TypeOK
<1>8. TypeOK'
  BY <1>7, StoreAssumption DEF TypeOK, SetImportance, NothingShown
<1>9. Fades(memories, memories')
  BY <1>3, <1>4, <1>6, <1>7 DEF Fades
<1> QED BY <1>8, <1>9

\* A reviewer's archiving, of one record or of its rivals.
LEMMA ReviewSteps ==
  ASSUME TypeOK, NEW ns \in Namespaces, NEW i \in DOMAIN memories,
         ArchiveReviewed(ns, i) \/ Resolve(ns, i)
  PROVE  TypeOK' /\ Fades(memories, memories')
<1>1. PICK ids : memories' = ArchiveAll(memories, ids)
  BY DEF ArchiveReviewed, Resolve
<1>2. memories' \in Seq(Record) /\ Fades(memories, memories')
  BY <1>1, ArchiveAllFades DEF TypeOK
<1>3. TypeOK'
  BY <1>2, StoreAssumption DEF TypeOK, ArchiveReviewed, Resolve, NothingShown
<1> QED BY <1>2, <1>3

\* Retention, which only archives.
LEMMA PruneStep ==
  ASSUME TypeOK, NEW max \in 0..MaxMemories, Prune(max)
  PROVE  TypeOK' /\ Fades(memories, memories')
<1> DEFINE live == ArchiveExpired(memories)
<1>1. live \in Seq(Record) /\ Fades(memories, live)
  BY ArchiveAllFades DEF ArchiveExpired, TypeOK
<1>2. PICK ids : memories' = ArchiveAll(live, ids)
  BY DEF Prune
<1>3. memories' \in Seq(Record) /\ Fades(live, memories')
  BY <1>1, <1>2, ArchiveAllFades
<1>4. TypeOK'
  BY <1>3, StoreAssumption DEF TypeOK, Prune, NothingShown
<1>5. Fades(memories, memories')
  BY <1>1, <1>3 DEF Fades
<1> QED BY <1>4, <1>5

\* A merge is into the only memory of its topic, so no second one comes about;
\* what it replaces stays in merged_from.
LEMMA MergeStep ==
  ASSUME TypeOK, OneActivePerFact, NothingForgotten,
         NEW ns \in Namespaces, NEW f \in Facts, NEW imp \in 0..MaxImportance,
         Merge(ns, f, imp)
  PROVE  /\ TypeOK' /\ OneActivePerFact' /\ NothingForgotten'
         /\ DOMAIN memories' = DOMAIN memories
         /\ \A j \in DOMAIN memories :
              memories'[j] # memories[j] =>
                memories[j].status = "active" /\ memories[j].ns = ns
<1>1. PICK i \in FirstOf(OnTopic(ns, f)) :
        memories' = [memories EXCEPT ![i].mergedFrom = @ \cup {memories[i].fact},
                                     ![i].fact = f,
                                     ![i].importance = Larger(@, imp),
                                     ![i].expiresAt = DefaultExpiry(f),
                                     ![i].updatedAt = now]
  BY DEF Merge
<1>2. /\ i \in DOMAIN memories /\ memories[i].status = "active" /\ memories[i].ns = ns
      /\ Topic[f] # NoTopic /\ Topic[memories[i].fact] = Topic[f]
  BY DEF FirstOf, OnTopic, Active
<1>3. memories[i] \in Record /\ now \in Nat /\ {MaxImportance, Ttl} \subseteq Nat
  BY <1>2, StoreAssumption DEF TypeOK
<1>4. Larger(memories[i].importance, imp) \in 0..MaxImportance
  BY <1>3 DEF Larger, Record
<1>5. DefaultExpiry(f) \in Nat \cup {Never}
  BY <1>3 DEF DefaultExpiry
<1> DEFINE new == [memories[i] EXCEPT !.mergedFrom = memories[i].mergedFrom \cup {memories[i].fact},
                                      !.fact = f,
                                      !.importance = Larger(memories[i].importance, imp),
                                      !.expiresAt = DefaultExpiry(f),
                                      !.updatedAt = now]
<1>6. memories' = [memories EXCEPT ![i] = new]
  BY <1>1
<1>7. new \in Record
  BY <1>3, <1>4, <1>5 DEF Record
<1>8. /\ new.ns = ns /\ new.fact = f /\ new.status = "active"
      /\ new.mergedFrom = memories[i].mergedFrom \cup {memories[i].fact}
  BY <1>2, <1>3 DEF Record
<1> HIDE DEF new
<1>9. memories' \in Seq(Record) /\ DOMAIN memories' = DOMAIN memories
  BY <1>2, <1>6, <1>7 DEF TypeOK
<1>10. \A j \in DOMAIN memories : memories'[j] = IF j = i THEN new ELSE memories[j]
  BY <1>6
<1>11. TypeOK'
  BY <1>9, StoreAssumption DEF TypeOK, Merge, NothingShown
<1>12. OneActivePerFact'
  <2> SUFFICES ASSUME NEW n \in Namespaces,
                      NEW j \in Active(memories', n), NEW k \in Active(memories', n), j # k
               PROVE  /\ memories'[j].fact # memories'[k].fact
                      /\ \/ Topic[memories'[j].fact] = NoTopic
                         \/ Topic[memories'[j].fact] # Topic[memories'[k].fact]
    BY DEF OneActivePerFact
  <2>1. j \in Active(memories, n) /\ k \in Active(memories, n)
    BY <1>2, <1>8, <1>9, <1>10 DEF Active
  <2>2. ASSUME NEW l \in Active(memories, ns), l # i
        PROVE  memories[l].fact # f /\ Topic[memories[l].fact] # Topic[f]
    <3>1. memories[l].fact # f
      BY DEF Merge, Exact
    <3>2. i \in Active(memories, ns)
      BY <1>2 DEF Active
    <3>3. Topic[memories[i].fact] # Topic[memories[l].fact]
      BY <2>2, <3>2, <1>2 DEF OneActivePerFact
    <3> QED BY <3>1, <3>3, <1>2
  <2>3. CASE j = i
    <3>1. n = ns /\ k # i
      BY <2>1, <2>3, <1>2 DEF Active
    <3>2. memories'[j].fact = f /\ memories'[k] = memories[k]
      BY <2>1, <2>3, <3>1, <1>8, <1>10 DEF Active
    <3> QED BY <2>1, <2>2, <3>1, <3>2
  <2>4. CASE k = i
    <3>1. n = ns /\ j # i
      BY <2>1, <2>4, <1>2 DEF Active
    <3>2. memories'[k].fact = f /\ memories'[j] = memories[j]
      BY <2>1, <2>4, <3>1, <1>8, <1>10 DEF Active
    <3> QED BY <2>1, <2>2, <3>1, <3>2
  <2>5. CASE j # i /\ k # i
    <3>1. memories'[j] = memories[j] /\ memories'[k] = memories[k]
      BY <2>1, <2>5, <1>10 DEF Active
    <3> QED BY <2>1, <3>1 DEF OneActivePerFact
  <2> QED BY <2>3, <2>4, <2>5
<1>13. NothingForgotten'
  <2> SUFFICES ASSUME NEW p \in told'
               PROVE  \E j \in DOMAIN memories' :
                        /\ memories'[j].ns = p[1]
                        /\ p[2] \in {memories'[j].fact} \cup memories'[j].mergedFrom
    BY DEF NothingForgotten
  <2>1. CASE p = <<ns, f>>
    BY <2>1, <1>2, <1>8, <1>9, <1>10
  <2>2. CASE p \in told
    <3>1. PICK j \in DOMAIN memories :
            /\ memories[j].ns = p[1]
            /\ p[2] \in {memories[j].fact} \cup memories[j].mergedFrom
      BY <2>2 DEF NothingForgotten
    <3> QED BY <3>1, <1>2, <1>8, <1>9, <1>10
  <2> QED BY <2>1, <2>2 DEF Merge
<1>14. \A j \in DOMAIN memories :
         memories'[j] # memories[j] => memories[j].status = "active" /\ memories[j].ns = ns
  BY <1>2, <1>10
<1> QED BY <1>9, <1>11, <1>12, <1>13, <1>14

\* A new record is of a fact, and on a topic, that no active one of its
\* namespace has.
LEMMA CreateStep ==
  ASSUME TypeOK, OneActivePerFact, NothingForgotten,
         NEW ns \in Namespaces, NEW f \in Facts, NEW imp \in 0..MaxImportance,
         Create(ns, f, imp)
  PROVE  /\ TypeOK' /\ OneActivePerFact' /\ NothingForgotten'
         /\ DOMAIN memories \subseteq DOMAIN memories'
         /\ \A j \in DOMAIN memories : memories'[j] = memories[j]
<1> DEFINE new == NewRecord(ns, f, imp)
           last == Len(memories) + 1
<1>1. now \in Nat /\ {MaxImportance, Ttl} \subseteq Nat /\ memories \in Seq(Record)
  BY StoreAssumption DEF TypeOK
<1>2. DefaultExpiry(f) \in Nat \cup {Never}
  BY <1>1 DEF DefaultExpiry
<1>3. /\ new \in Record
      /\ new.ns = ns /\ new.fact = f
  BY <1>1, <1>2 DEF NewRecord, Record
<1>4. memories' = Append(memories, new)
  BY DEF Create
<1> HIDE DEF new
<1>5. /\ memories' \in Seq(Record)
      /\ DOMAIN memories' = DOMAIN memories \cup {last}
      /\ last \notin DOMAIN memories
      /\ memories'[last] = new
      /\ \A j \in DOMAIN memories : memories'[j] = memories[j]
  BY <1>1, <1>3, <1>4
<1> HIDE DEF last
<1>6. TypeOK'
  BY <1>5, StoreAssumption DEF TypeOK, Create, NothingShown
<1>7. OneActivePerFact'
  <2> SUFFICES ASSUME NEW n \in Namespaces,
                      NEW j \in Active(memories', n), NEW k \in Active(memories', n), j # k
               PROVE  /\ memories'[j].fact # memories'[k].fact
                      /\ \/ Topic[memories'[j].fact] = NoTopic
                         \/ Topic[memories'[j].fact] # Topic[memories'[k].fact]
    BY DEF OneActivePerFact
  <2>1. ASSUME NEW l \in Active(memories, ns)
        PROVE  memories[l].fact # f /\ (Topic[f] = NoTopic \/ Topic[memories[l].fact] # Topic[f])
    BY DEF Create, Exact, OnTopic
  <2>2. CASE j = last
    <3>1. n = ns /\ k \in Active(memories, ns) /\ memories'[k] = memories[k]
      BY <2>2, <1>3, <1>5 DEF Active
    <3>2. memories'[j].fact = f
      BY <2>2, <1>3, <1>5
    <3> QED BY <2>1, <3>1, <3>2
  <2>3. CASE k = last
    <3>1. n = ns /\ j \in Active(memories, ns) /\ memories'[j] = memories[j]
      BY <2>3, <1>3, <1>5 DEF Active
    <3>2. memories'[k].fact = f
      BY <2>3, <1>3, <1>5
    <3> QED BY <2>1, <3>1, <3>2
  <2>4. CASE j # last /\ k # last
    <3>1. /\ j \in Active(memories, n) /\ k \in Active(memories, n)
          /\ memories'[j] = memories[j] /\ memories'[k] = memories[k]
      BY <2>4, <1>5 DEF Active
    <3> QED BY <3>1 DEF OneActivePerFact
  <2> QED BY <2>2, <2>3, <2>4
<1>8. NothingForgotten'
  <2> SUFFICES ASSUME NEW p \in told'
               PROVE  \E j \in DOMAIN memories' :
                        /\ memories'[j].ns = p[1]
                        /\ p[2] \in {memories'[j].fact} \cup memories'[j].mergedFrom
    BY DEF NothingForgotten
  <2>1. CASE p = <<ns, f>>
    BY <2>1, <1>3, <1>5
  <2>2. CASE p \in told
    BY <2>2, <1>5 DEF NothingForgotten
  <2> QED BY <2>1, <2>2 DEF Create
<1> QED BY <1>5, <1>6, <1>7, <1>8

\* Whatever the step: either it only fades, or it is a merge or a creation.
LEMMA StepKeeps ==
  ASSUME Inv, [Next]_vars
  PROVE  /\ Inv'
         /\ DOMAIN memories \subseteq DOMAIN memories'
         /\ \A i \in DOMAIN memories : memories[i].status = "archived" =>
              /\ memories'[i].status = "archived"
              /\ memories'[i].fact = memories[i].fact
              /\ memories'[i].mergedFrom = memories[i].mergedFrom
<1> DEFINE Kept == /\ DOMAIN memories \subseteq DOMAIN memories'
                   /\ \A i \in DOMAIN memories : memories[i].status = "archived" =>
                        /\ memories'[i].status = "archived"
                        /\ memories'[i].fact = memories[i].fact
                        /\ memories'[i].mergedFrom = memories[i].mergedFrom
<1> USE DEF Inv
<1>1. ASSUME TypeOK', Fades(memories, memories'), told' = told PROVE
        OneActivePerFact' /\ NothingForgotten' /\ Kept
  <2>1. OneActivePerFact' /\ NothingForgotten'
    BY <1>1, FadingKeeps
  <2>2. Kept
    BY <1>1 DEF Fades
  <2> QED BY <2>1, <2>2
<1>2. ASSUME shown' = NothingShown PROVE ShownIsLive'
  BY <1>2 DEF ShownIsLive, NothingShown
<1>3. ASSUME NEW ns \in Namespaces, NEW f \in Facts, NEW imp \in 0..MaxImportance,
             Restate(ns, f, imp)
      PROVE  Inv' /\ Kept
  <2>1. TypeOK' /\ Fades(memories, memories')
    BY <1>3, RestateStep
  <2>2. <<ns, f>> \in told' /\ told' = told \cup {<<ns, f>>} /\ shown' = NothingShown
    BY <1>3 DEF Restate
  <2>3. OneActivePerFact' /\ Kept
    BY <2>1, FadingKeepsFacts DEF Fades
  <2>4. NothingForgotten'
    <3>1. \E i \in DOMAIN memories : memories[i].ns = ns /\ memories[i].fact = f
      BY <1>3 DEF Restate, FirstOf, Exact, Active
    <3> QED BY <2>1, <2>2, <3>1 DEF NothingForgotten, Fades
  <2> QED BY <1>2, <2>1, <2>2, <2>3, <2>4
<1>4. ASSUME NEW ns \in Namespaces, NEW f \in Facts, NEW imp \in 0..MaxImportance,
             Merge(ns, f, imp)
      PROVE  Inv' /\ Kept
  <2>1. /\ TypeOK' /\ OneActivePerFact' /\ NothingForgotten'
        /\ DOMAIN memories' = DOMAIN memories
        /\ \A j \in DOMAIN memories :
             memories'[j] # memories[j] => memories[j].status = "active"
    BY <1>4, MergeStep
  <2> QED BY <1>2, <1>4, <2>1 DEF Merge
<1>5. ASSUME NEW ns \in Namespaces, NEW f \in Facts, NEW imp \in 0..MaxImportance,
             Create(ns, f, imp)
      PROVE  Inv' /\ Kept
  <2>1. /\ TypeOK' /\ OneActivePerFact' /\ NothingForgotten'
        /\ DOMAIN memories \subseteq DOMAIN memories'
        /\ \A j \in DOMAIN memories : memories'[j] = memories[j]
    BY <1>5, CreateStep
  <2> QED BY <1>2, <1>5, <2>1 DEF Create
<1>6. ASSUME NEW ns \in Namespaces, NEW touch \in BOOLEAN, Snapshot(ns, touch)
      PROVE  Inv' /\ Kept
  <2>1. TypeOK' /\ Fades(memories, memories') /\ ShownIsLive'
    BY <1>6, SnapshotStep
  <2>2. told' = told
    BY <1>6 DEF Snapshot
  <2> QED BY <1>1, <2>1, <2>2
<1>7. ASSUME NEW ns \in Namespaces, NEW i \in DOMAIN memories,
             ArchiveReviewed(ns, i) \/ Resolve(ns, i)
      PROVE  Inv' /\ Kept
  <2>1. TypeOK' /\ Fades(memories, memories')
    BY <1>7, ReviewSteps
  <2>2. told' = told /\ shown' = NothingShown
    BY <1>7 DEF ArchiveReviewed, Resolve
  <2> QED BY <1>1, <1>2, <2>1, <2>2
<1>8. ASSUME NEW ns \in Namespaces, NEW i \in DOMAIN memories,
             NEW v \in -1..(MaxImportance + 1), SetImportance(ns, i, v)
      PROVE  Inv' /\ Kept
  <2>1. TypeOK' /\ Fades(memories, memories')
    BY <1>8, SetImportanceStep
  <2>2. told' = told /\ shown' = NothingShown
    BY <1>8 DEF SetImportance
  <2> QED BY <1>1, <1>2, <2>1, <2>2
<1>9. ASSUME NEW max \in 0..MaxMemories, Prune(max) PROVE Inv' /\ Kept
  <2>1. TypeOK' /\ Fades(memories, memories')
    BY <1>9, PruneStep
  <2>2. told' = told /\ shown' = NothingShown
    BY <1>9 DEF Prune
  <2> QED BY <1>1, <1>2, <2>1, <2>2
<1>10. CASE Tick
  <2>1. memories' = memories /\ told' = told /\ shown' = NothingShown /\ now' = now + 1
    BY <1>10 DEF Tick
  <2>2. TypeOK'
    BY <2>1, StoreAssumption DEF TypeOK, NothingShown
  <2>3. OneActivePerFact' /\ NothingForgotten' /\ Kept
    BY <2>1 DEF OneActivePerFact, NothingForgotten
  <2> QED BY <1>2, <2>1, <2>2, <2>3
<1>11. CASE UNCHANGED vars
  BY <1>11 DEF vars, TypeOK, OneActivePerFact, NothingForgotten, ShownIsLive, IsExpired
<1>12. ASSUME NEW ns \in Namespaces, ForNamespace(ns) PROVE Inv' /\ Kept
  BY <1>3, <1>4, <1>5, <1>6, <1>7, <1>8, <1>12 DEF ForNamespace
<1> QED BY <1>9, <1>10, <1>11, <1>12 DEF Next

---------------------------------------------------------------------------
(* What pruning keeps                                                        *)

\* Naturals have a least one.
LEMMA LeastNatural ==
  ASSUME NEW naturals \in SUBSET Nat, naturals # {}
  PROVE  \E n \in naturals : \A m \in naturals : n <= m
<1>1. PICK n \in naturals : \A m \in naturals : ~ (<<m, n>> \in OpToRel(<, Nat))
  BY NatLessThanWellFounded, WFMin, Zenon
<1>2. \A m \in naturals : ~ (m < n)
  BY <1>1, Zenon DEF OpToRel
<1> QED BY <1>2

\* Those of a finite set that have fewer than max ahead of them, in a strict
\* order: max of them, or all if there are no more, and ahead of all others.
LEMMA FirstOnes ==
  ASSUME NEW S, IsFiniteSet(S), NEW Ahead \in [S -> SUBSET S],
         \A i \in S : i \notin Ahead[i],
         \A i \in S, j \in S : j \in Ahead[i] => Ahead[j] \subseteq Ahead[i],
         \A i \in S, j \in S : i # j => i \in Ahead[j] \/ j \in Ahead[i],
         NEW max \in Nat, NEW first, first = {i \in S : Cardinality(Ahead[i]) < max}
  PROVE  /\ Cardinality(first) <= max
         /\ \A i \in S \ first : /\ Cardinality(first) = max
                                 /\ \A k \in first : k \in Ahead[i]
<1>1. \A i \in S : IsFiniteSet(Ahead[i]) /\ Cardinality(Ahead[i]) \in Nat
  BY FS_Subset, FS_CardinalityType
<1>2. ASSUME NEW i \in S, NEW j \in Ahead[i]
      PROVE  j \in S /\ Cardinality(Ahead[j]) < Cardinality(Ahead[i])
  <2>1. j \in S
    OBVIOUS
  <2>2. Ahead[j] \in SUBSET (Ahead[i] \ {j})
    BY <2>1
  <2>3. /\ IsFiniteSet(Ahead[i] \ {j})
        /\ Cardinality(Ahead[i] \ {j}) = Cardinality(Ahead[i]) - 1
    BY <1>1, FS_RemoveElement
  <2>4. Cardinality(Ahead[j]) <= Cardinality(Ahead[i] \ {j})
    BY <2>2, <2>3, FS_Subset
  <2> QED BY <1>1, <2>1, <2>3, <2>4
<1>3. IsFiniteSet(first) /\ Cardinality(first) \in Nat
  <2>1. first \in SUBSET S
    OBVIOUS
  <2> QED BY <2>1, FS_Subset, FS_CardinalityType
<1>4. Cardinality(first) <= max
  <2>1. CASE first = {}
    BY <2>1, FS_EmptySet
  <2>2. CASE first # {}
    <3> DEFINE left == {max - Cardinality(Ahead[i]) : i \in first}
    <3>1. left \in SUBSET Nat /\ left # {}
      BY <1>1, <2>2
    <3>2. PICK n \in left : \A l \in left : n <= l
      BY <3>1, LeastNatural
    <3>3. PICK m \in first : n = max - Cardinality(Ahead[m])
      OBVIOUS
    <3>4. \A k \in first : Cardinality(Ahead[k]) <= Cardinality(Ahead[m])
      BY <1>1, <3>2, <3>3
    <3>5. first \subseteq Ahead[m] \cup {m}
      <4> SUFFICES ASSUME NEW k \in first, k # m PROVE k \in Ahead[m]
        OBVIOUS
      <4>1. ~(m \in Ahead[k])
        BY <1>1, <1>2, <3>4
      <4> QED BY <4>1
    <3>6. /\ IsFiniteSet(Ahead[m] \cup {m})
          /\ Cardinality(Ahead[m] \cup {m}) = Cardinality(Ahead[m]) + 1
      BY <1>1, FS_AddElement
    <3>7. Cardinality(first) <= Cardinality(Ahead[m] \cup {m})
      BY <3>5, <3>6, FS_Subset
    <3> QED BY <1>1, <1>3, <3>6, <3>7
  <2> QED BY <2>1, <2>2
<1>5. ASSUME S \ first # {} PROVE max <= Cardinality(first)
  <2> DEFINE sizes == {Cardinality(Ahead[i]) : i \in S \ first}
  <2>1. sizes \in SUBSET Nat /\ sizes # {}
    BY <1>1, <1>5
  <2>2. PICK n \in sizes : \A l \in sizes : n <= l
    BY <2>1, LeastNatural
  <2>3. PICK c \in S \ first : n = Cardinality(Ahead[c])
    OBVIOUS
  <2>4. Ahead[c] \subseteq first
    <3> SUFFICES ASSUME NEW j \in Ahead[c], j \notin first PROVE FALSE
      OBVIOUS
    <3>1. j \in S \ first /\ Cardinality(Ahead[j]) < Cardinality(Ahead[c])
      BY <1>2
    <3>2. Cardinality(Ahead[c]) <= Cardinality(Ahead[j])
      BY <2>2, <2>3, <3>1
    <3> QED BY <1>1, <3>1, <3>2
  <2>5. Cardinality(Ahead[c]) <= Cardinality(first)
    BY <1>3, <2>4, FS_Subset
  <2>6. max <= Cardinality(Ahead[c])
    BY <1>1, <2>3
  <2> QED BY <1>1, <1>3, <2>3, <2>5, <2>6
<1>6. ASSUME NEW i \in S \ first, NEW k \in first PROVE k \in Ahead[i]
  <2>1. ~(i \in Ahead[k])
    BY <1>1, <1>2
  <2> QED BY <2>1
<1>7. ASSUME NEW i \in S \ first PROVE Cardinality(first) = max
  <2>1. max <= Cardinality(first)
    BY <1>5
  <2> QED BY <1>3, <1>4, <2>1
<1> QED BY <1>4, <1>6, <1>7, Zenon

\* retention_sort_key and the place in the list order records strictly.
LEMMA SortOrder ==
  ASSUME NEW ms \in Seq(Record), NEW i \in DOMAIN ms, NEW j \in DOMAIN ms, NEW k \in DOMAIN ms
  PROVE  /\ ~SortsBefore(ms, i, i)
         /\ SortsBefore(ms, k, j) /\ SortsBefore(ms, j, i) => SortsBefore(ms, k, i)
         /\ i # j => SortsBefore(ms, i, j) \/ SortsBefore(ms, j, i)
         /\ SortsBefore(ms, i, j) => ~RanksBelow(ms[i], ms[j])
<1>1. \A n \in DOMAIN ms : /\ n \in Nat
                           /\ ms[n].importance \in Int /\ ms[n].accessCount \in Int
                           /\ ms[n].updatedAt \in Int
  <2>1. \A n \in DOMAIN ms : n \in Nat /\ ms[n] \in Record
    OBVIOUS
  <2>2. 0..MaxImportance \subseteq Int
    BY StoreAssumption
  <2>3. ASSUME NEW r \in Record
        PROVE  r.importance \in Int /\ r.accessCount \in Int /\ r.updatedAt \in Int
    BY <2>2 DEF Record
  <2> QED BY <2>1, <2>3
<1> QED BY <1>1 DEF SortsBefore, RanksBelow

\* What prune_long_term_memories keeps are the first ones of that order.
LEMMA PruneKeeps ==
  ASSUME TypeOK, NEW max \in 0..MaxMemories, Prune(max)
  PROVE  LET kept == Active(memories', Default) IN
           /\ Cardinality(kept) <= max
           /\ \A i \in Active(memories, Default) \ kept :
                \/ IsExpired(memories[i])
                \/ /\ Cardinality(kept) = max
                   /\ \A k \in kept : ~RanksBelow(memories[k], memories[i])
<1> DEFINE live  == ArchiveExpired(memories)
           stays == Active(live, Default)
           cut   == {i \in stays : Cardinality({j \in stays : SortsBefore(live, j, i)}) >= max}
           Ahead == [i \in stays |-> {j \in stays : SortsBefore(live, j, i)}]
           first == {i \in stays : Cardinality(Ahead[i]) < max}
           kept  == Active(memories', Default)
<1>1. memories' = ArchiveAll(live, cut)
  BY DEF Prune
<1>2. live \in Seq(Record) /\ Fades(memories, live) /\ DOMAIN live = DOMAIN memories
  BY ArchiveAllFades DEF ArchiveExpired, TypeOK, Fades
<1>3. \A i \in stays : live[i] = memories[i]
  BY ArchiveExpiredLive DEF Active
<1>4. ASSUME NEW i \in Active(memories, Default), i \notin stays PROVE IsExpired(memories[i])
  BY <1>4 DEF Active, ArchiveExpired, ArchiveAll
<1> HIDE DEF live
<1>5. max \in Nat
  BY StoreAssumption
<1>6. stays \subseteq DOMAIN live /\ IsFiniteSet(stays)
  <2>1. stays \in SUBSET (1..Len(live)) /\ DOMAIN live = 1..Len(live)
    BY <1>2 DEF Active
  <2>2. IsFiniteSet(1..Len(live))
    BY <1>2, FS_Interval
  <2> QED BY <2>1, <2>2, FS_Subset
<1>7. \A i \in stays : IsFiniteSet(Ahead[i]) /\ Cardinality(Ahead[i]) \in Nat
  BY <1>6, FS_Subset, FS_CardinalityType
<1>8. \A i \in stays : i \in first <=> i \notin cut
  BY <1>5, <1>7
<1>9. kept = first
  <2>1. \A i \in DOMAIN live : ArchiveAll(live, cut)[i]
                                 = IF i \in cut THEN Archived(live[i]) ELSE live[i]
    BY DEF ArchiveAll
  <2>2. \A i \in DOMAIN live : Archived(live[i]).status = "archived"
    <3> TAKE i \in DOMAIN live
    <3>1. live[i] \in Record
      BY <1>2
    <3> QED BY <3>1, RecordSteps
  <2>3. DOMAIN memories' = DOMAIN live
    BY <1>1 DEF ArchiveAll
  <2>4. ASSUME NEW i \in DOMAIN live
        PROVE  i \in kept <=> i \in stays /\ i \notin cut
    BY <1>1, <2>1, <2>2, <2>3 DEF Active
  <2>5. kept \subseteq DOMAIN live
    BY <2>3 DEF Active
  <2> HIDE DEF cut, kept
  <2> QED BY <1>6, <1>8, <2>4, <2>5
<1>10. /\ \A i \in stays : i \notin Ahead[i]
       /\ \A i \in stays, j \in stays : j \in Ahead[i] => Ahead[j] \subseteq Ahead[i]
       /\ \A i \in stays, j \in stays : i # j => i \in Ahead[j] \/ j \in Ahead[i]
       /\ \A i \in stays, k \in stays : k \in Ahead[i] => ~RanksBelow(live[k], live[i])
  BY <1>2, <1>6, SortOrder
<1>11. Ahead \in [stays -> SUBSET stays]
  OBVIOUS
<1> HIDE DEF Ahead, stays
<1>12. /\ Cardinality(first) <= max
       /\ \A i \in stays \ first : /\ Cardinality(first) = max
                                   /\ \A k \in first : k \in Ahead[i]
  BY <1>5, <1>6, <1>10, <1>11, FirstOnes
<1>13. ASSUME NEW i \in Active(memories, Default) \ first, ~IsExpired(memories[i])
       PROVE  /\ Cardinality(first) = max
              /\ \A k \in first : ~RanksBelow(memories[k], memories[i])
  BY <1>3, <1>4, <1>10, <1>12, <1>13
<1> HIDE DEF first, kept
<1> QED BY <1>9, <1>12, <1>13 DEF kept

---------------------------------------------------------------------------
\* The inductive invariant: types, one active memory per fact and topic,
\* everything told still there, and a live listing.
THEOREM Invariance == Spec => []Inv
<1>1. Init => Inv
  BY StoreAssumption DEF Init, Inv, TypeOK, OneActivePerFact, NothingForgotten,
     ShownIsLive, NothingShown, Active, Record
<1>2. Inv /\ [Next]_vars => Inv'
  BY StepKeeps
<1> QED BY <1>1, <1>2, PTL DEF Spec

\* Every record is well formed, its importance clamped.
THEOREM Types == Spec => []TypeOK
<1>1. Inv => TypeOK
  BY DEF Inv
<1> QED BY <1>1, Invariance, PTL

\* A user has one active memory per fact and per topic, whatever was merged,
\* archived, expired or told again before.
THEOREM Uniqueness == Spec => []OneActivePerFact
<1>1. Inv => OneActivePerFact
  BY DEF Inv
<1> QED BY <1>1, Invariance, PTL

\* Everything a user told is still in a record of that user.
THEOREM Remembrance == Spec => []NothingForgotten
<1>1. Inv => NothingForgotten
  BY DEF Inv
<1> QED BY <1>1, Invariance, PTL

\* No listing holds an archived, expired or foreign memory.
THEOREM LiveListing == Spec => []ShownIsLive
<1>1. Inv => ShownIsLive
  BY DEF Inv
<1> QED BY <1>1, Invariance, PTL

\* Archived memories stay archived and keep what they say.
THEOREM ArchiveIsFinal == Spec => ArchivedIsFinal
<1> DEFINE Final == \A i \in DOMAIN memories : memories[i].status = "archived" =>
                      /\ i \in DOMAIN memories'
                      /\ memories'[i].status = "archived"
                      /\ memories'[i].fact = memories[i].fact
                      /\ memories'[i].mergedFrom = memories[i].mergedFrom
<1>1. Inv /\ [Next]_vars => [Final]_vars
  BY StepKeeps
<1> QED BY <1>1, Invariance, PTL DEF Spec, ArchivedIsFinal

\* No operation of one namespace touches a live memory of another.
THEOREM Isolation == Spec => NamespacesAreIsolated
<1> DEFINE Apart ==
      \A ns \in Namespaces : ForNamespace(ns) =>
        \A i \in DOMAIN memories : memories[i].ns # ns =>
          memories'[i] = memories[i] \/ IsExpired(memories[i])
<1>1. ASSUME Inv PROVE Apart
  <2> SUFFICES ASSUME NEW ns \in Namespaces, ForNamespace(ns),
                      NEW i \in DOMAIN memories, memories[i].ns # ns,
                      ~IsExpired(memories[i])
               PROVE  memories'[i] = memories[i]
    OBVIOUS
  <2>1. TypeOK /\ OneActivePerFact /\ NothingForgotten
    BY <1>1 DEF Inv
  <2>2. ASSUME NEW f \in Facts, NEW imp \in 0..MaxImportance, Restate(ns, f, imp)
        PROVE  memories'[i] = memories[i]
    <3>1. PICK j \in DOMAIN memories :
            /\ memories[j].ns = ns
            /\ memories' = [memories EXCEPT ![j].updatedAt = now,
                                            ![j].importance = Larger(@, imp)]
      BY <2>2 DEF Restate, FirstOf, Exact, Active
    <3> QED BY <3>1
  <2>3. ASSUME NEW f \in Facts, NEW imp \in 0..MaxImportance, Merge(ns, f, imp)
        PROVE  memories'[i] = memories[i]
    BY <2>1, <2>3, MergeStep
  <2>4. ASSUME NEW f \in Facts, NEW imp \in 0..MaxImportance, Create(ns, f, imp)
        PROVE  memories'[i] = memories[i]
    BY <2>1, <2>4, CreateStep
  <2>5. ASSUME NEW touch \in BOOLEAN, Snapshot(ns, touch)
        PROVE  memories'[i] = memories[i]
    <3> DEFINE live == ArchiveExpired(memories)
    <3>1. PICK ids \in SUBSET Active(live, ns) :
            memories' = [k \in DOMAIN live |->
                           IF touch /\ k \in ids THEN Touched(live[k]) ELSE live[k]]
      BY <2>5 DEF Snapshot
    <3>2. DOMAIN live = DOMAIN memories /\ live[i] = memories[i]
      BY DEF ArchiveExpired, ArchiveAll
    <3>3. i \notin ids
      BY <3>2 DEF Active
    <3> HIDE DEF live
    <3> QED BY <3>1, <3>2, <3>3
  <2>6. ASSUME NEW j \in DOMAIN memories, ArchiveReviewed(ns, j) \/ Resolve(ns, j)
        PROVE  memories'[i] = memories[i]
    <3>1. PICK ids : memories' = ArchiveAll(memories, ids) /\ i \notin ids
      BY <2>6 DEF ArchiveReviewed, Resolve, Rivals, Active
    <3> QED BY <3>1 DEF ArchiveAll
  <2>7. ASSUME NEW j \in DOMAIN memories, NEW v \in -1..(MaxImportance + 1),
               SetImportance(ns, j, v)
        PROVE  memories'[i] = memories[i]
    BY <2>7 DEF SetImportance
  <2> QED BY <2>2, <2>3, <2>4, <2>5, <2>6, <2>7 DEF ForNamespace
<1>2. Inv => [Apart]_vars
  BY <1>1
<1> QED BY <1>2, Invariance, PTL DEF Spec, NamespacesAreIsolated

\* prune_long_term_memories keeps the memories of the highest retention, as many
\* as it may, and archives others for nothing else than having expired.
THEOREM Retention == Spec => PruneKeepsBest
<1> DEFINE Best ==
      \A max \in 0..MaxMemories : Prune(max) =>
        LET kept == Active(memories', Default) IN
          /\ Cardinality(kept) <= max
          /\ \A i \in Active(memories, Default) \ kept :
               \/ IsExpired(memories[i])
               \/ /\ Cardinality(kept) = max
                  /\ \A k \in kept : ~RanksBelow(memories[k], memories[i])
<1>1. ASSUME Inv PROVE Best
  BY <1>1, PruneKeeps DEF Inv
<1>2. Inv => [Best]_vars
  BY <1>1
<1> QED BY <1>2, Invariance, PTL DEF Spec, PruneKeepsBest
===============================================================================
