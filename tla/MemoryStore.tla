------------------------------ MODULE MemoryStore ------------------------------
(***************************************************************************)
(* Long-term memory: MemoryStore (agentic_core/memory/store.py) under the  *)
(* rules of MemoryLifecyclePolicy (memory/lifecycle.py), with the review   *)
(* operations of memory/admin.py.                                          *)
(*                                                                         *)
(* A fact is a memory type with a normalised text, a namespace a user of a *)
(* tenant.  Topic is `semantic_key`, by which the store replaces an older  *)
(* statement by a newer one; Slot is `conflict_key`, by which a reviewer   *)
(* is shown memories that compete; Expiring are the facts of task memory.  *)
(* One store is used by one caller at a time here.                         *)
(***************************************************************************)
EXTENDS Integers, Sequences, FiniteSets

CONSTANTS
  Namespaces,     \* the (user_id, tenant_id) pairs
  Default,        \* the store's own namespace
  Facts,          \* (memory_type, normalize_text(text)) pairs
  Topic,          \* semantic_key of each fact, or NoTopic
  Slot,           \* conflict_key of each fact
  Expiring,       \* facts of type task_state or task_context
  NoTopic,
  Ttl,            \* task_memory_ttl_days, in ticks of the clock
  MaxImportance,  \* 100 in the code
  MaxMemories,    \* bound on the records of the store
  MaxTime,        \* bound on the clock
  MaxAccess       \* bound on the times one record is touched

\* `conflict_key` starts from `semantic_key`, and no task memory has one.
ASSUME StoreAssumption ==
  /\ Default \in Namespaces
  /\ Expiring \subseteq Facts
  /\ \A f \in Facts : Topic[f] # NoTopic => f \notin Expiring /\ Slot[f] = Topic[f]
  /\ {Ttl, MaxImportance, MaxMemories, MaxTime, MaxAccess} \subseteq Nat

VARIABLES
  memories,   \* long_term_memories, in order of creation; the index is the id
  now,        \* the clock
  shown,      \* what the last call listed: for whom, which records
  told        \* history: every fact ever added, with its namespace

vars == <<memories, now, shown, told>>

Never == -1   \* expires_at is None

Record ==
  [ns : Namespaces, fact : Facts, status : {"active", "archived"},
   importance : 0..MaxImportance, accessCount : Nat, updatedAt : Nat,
   expiresAt : Nat \cup {Never}, mergedFrom : SUBSET Facts]

TypeOK ==
  /\ memories \in Seq(Record)
  /\ now \in Nat
  /\ shown \in [ns : Namespaces, ids : SUBSET (DOMAIN memories)]
  /\ told \subseteq Namespaces \X Facts

NothingShown == [ns |-> Default, ids |-> {}]

Init ==
  /\ memories = <<>>
  /\ now = 0
  /\ shown = NothingShown
  /\ told = {}
---------------------------------------------------------------------------
Active(ms, ns) == {i \in DOMAIN ms : ms[i].status = "active" /\ ms[i].ns = ns}

\* `find_long_term_memory` and `find_semantic_long_term_memory`.
Exact(ns, f) == {i \in Active(memories, ns) : memories[i].fact = f}

\* Mutants of OnTopic: one forgets the status, the other the namespace.
OnTopicArchivedToo(ns, f) ==
  {i \in DOMAIN memories : /\ memories[i].ns = ns
                           /\ Topic[f] # NoTopic
                           /\ Topic[memories[i].fact] = Topic[f]}

OnTopicAnywhere(ns, f) ==
  {i \in DOMAIN memories : /\ memories[i].status = "active"
                           /\ Topic[f] # NoTopic
                           /\ Topic[memories[i].fact] = Topic[f]}

OnTopic(ns, f) ==
  {i \in Active(memories, ns) : /\ Topic[f] # NoTopic
                                /\ Topic[memories[i].fact] = Topic[f]}

\* The loops return the first match.
FirstOf(S) == {i \in S : \A j \in S : i <= j}

Larger(a, b) == IF a >= b THEN a ELSE b
ClampInt(v) == IF v < 0 THEN 0 ELSE IF v > MaxImportance THEN MaxImportance ELSE v

DefaultExpiry(f) == IF f \in Expiring THEN now + Ttl ELSE Never
IsExpired(m) == m.expiresAt # Never /\ m.expiresAt <= now

Archived(m) == [m EXCEPT !.status = "archived", !.updatedAt = now]
Touched(m) == [m EXCEPT !.accessCount = @ + 1, !.updatedAt = now]

\* `archive_long_term_memory` of each of ids, and of every expired memory.
ArchiveAll(ms, ids) == [i \in DOMAIN ms |-> IF i \in ids THEN Archived(ms[i]) ELSE ms[i]]
ArchiveExpired(ms) ==
  ArchiveAll(ms, {i \in DOMAIN ms : ms[i].status = "active" /\ IsExpired(ms[i])})
---------------------------------------------------------------------------
\* `add_long_term_memory` of fact f, `memory_importance` being imp.  The same
\* fact again: only importance and updated_at change, expires_at does not.
Restate(ns, f, imp) ==
  /\ \E i \in FirstOf(Exact(ns, f)) :
       memories' = [memories EXCEPT ![i].updatedAt = now,
                                    ![i].importance = Larger(@, imp)]
  /\ told' = told \cup {<<ns, f>>}
  /\ shown' = NothingShown
  /\ UNCHANGED now

\* Mutant: the text that is replaced is not kept in merged_from.
MergeForgetting(ns, f, imp) ==
  /\ Exact(ns, f) = {}
  /\ \E i \in FirstOf(OnTopic(ns, f)) :
       memories' = [memories EXCEPT ![i].fact = f,
                                    ![i].importance = Larger(@, imp),
                                    ![i].expiresAt = DefaultExpiry(f),
                                    ![i].updatedAt = now]
  /\ told' = told \cup {<<ns, f>>}
  /\ shown' = NothingShown
  /\ UNCHANGED now

\* Another fact on a known topic takes the place of the one before.
Merge(ns, f, imp) ==
  /\ Exact(ns, f) = {}
  /\ \E i \in FirstOf(OnTopic(ns, f)) :
       memories' = [memories EXCEPT ![i].mergedFrom = @ \cup {memories[i].fact},
                                    ![i].fact = f,
                                    ![i].importance = Larger(@, imp),
                                    ![i].expiresAt = DefaultExpiry(f),
                                    ![i].updatedAt = now]
  /\ told' = told \cup {<<ns, f>>}
  /\ shown' = NothingShown
  /\ UNCHANGED now

NewRecord(ns, f, imp) ==
  [ns |-> ns, fact |-> f, status |-> "active", importance |-> imp,
   accessCount |-> 0, updatedAt |-> now, expiresAt |-> DefaultExpiry(f),
   mergedFrom |-> {}]

\* Mutant: only exact duplicates are looked for.
CreateUnmerged(ns, f, imp) ==
  /\ Exact(ns, f) = {}
  /\ Len(memories) < MaxMemories
  /\ memories' = Append(memories, NewRecord(ns, f, imp))
  /\ told' = told \cup {<<ns, f>>}
  /\ shown' = NothingShown
  /\ UNCHANGED now

Create(ns, f, imp) ==
  /\ Exact(ns, f) = {}
  /\ OnTopic(ns, f) = {}
  /\ Len(memories) < MaxMemories
  /\ memories' = Append(memories, NewRecord(ns, f, imp))
  /\ told' = told \cup {<<ns, f>>}
  /\ shown' = NothingShown
  /\ UNCHANGED now

\* Mutant: expired memories are not archived before the list is made.
SnapshotStale(ns, touch) ==
  /\ \E ids \in SUBSET Active(memories, ns) :
       /\ touch => \A i \in ids : memories[i].accessCount < MaxAccess
       /\ memories' = [i \in DOMAIN memories |->
                         IF touch /\ i \in ids THEN Touched(memories[i]) ELSE memories[i]]
       /\ shown' = [ns |-> ns, ids |-> ids]
  /\ UNCHANGED <<now, told>>

\* `snapshot`: without a query every live memory, with one those that the
\* embedding index ranks above its limit and its minimum score.
Snapshot(ns, touch) ==
  /\ LET live == ArchiveExpired(memories) IN
       \E ids \in SUBSET Active(live, ns) :
         /\ touch => \A i \in ids : live[i].accessCount < MaxAccess
         /\ memories' = [i \in DOMAIN live |->
                           IF touch /\ i \in ids THEN Touched(live[i]) ELSE live[i]]
         /\ shown' = [ns |-> ns, ids |-> ids]
  /\ UNCHANGED <<now, told>>

\* admin `archive_memory`, of an archived memory too.
ArchiveReviewed(ns, i) ==
  /\ memories[i].ns = ns
  /\ memories' = ArchiveAll(memories, {i})
  /\ shown' = NothingShown
  /\ UNCHANGED <<now, told>>

\* Mutant: the reviewer's number is stored as it comes.
SetImportanceRaw(ns, i, v) ==
  /\ memories[i].ns = ns
  /\ memories' = [memories EXCEPT ![i].importance = v, ![i].updatedAt = now]
  /\ shown' = NothingShown
  /\ UNCHANGED <<now, told>>

\* admin `set_memory_importance`, of an archived memory too.
SetImportance(ns, i, v) ==
  /\ memories[i].ns = ns
  /\ memories' = [memories EXCEPT ![i].importance = ClampInt(v), ![i].updatedAt = now]
  /\ shown' = NothingShown
  /\ UNCHANGED <<now, told>>

\* `find_memory_conflicts`: the active memories that compete with i.  Expired
\* ones that no listing has archived yet are among them.
Rivals(ns, i) ==
  {j \in Active(memories, ns) \ {i} : Slot[memories[j].fact] = Slot[memories[i].fact]}

\* admin `resolve_memory_conflict`, keeping i.
Resolve(ns, i) ==
  /\ i \in Active(memories, ns)
  /\ Rivals(ns, i) # {}
  /\ memories' = ArchiveAll(memories, Rivals(ns, i))
  /\ shown' = NothingShown
  /\ UNCHANGED <<now, told>>

\* `retention_sort_key`: importance, then access count, then recency.
RanksBelow(m, k) ==
  \/ m.importance < k.importance
  \/ /\ m.importance = k.importance
     /\ \/ m.accessCount < k.accessCount
        \/ m.accessCount = k.accessCount /\ m.updatedAt < k.updatedAt

\* The sort is stable, so of equals the older record comes first.
SortsBefore(ms, j, i) ==
  RanksBelow(ms[i], ms[j]) \/ (~RanksBelow(ms[j], ms[i]) /\ j < i)

\* Mutant: the sort is ascending, so the best go.
PruneBest(max) ==
  /\ LET live  == ArchiveExpired(memories)
         stays == Active(live, Default)
         cut   == {i \in stays : Cardinality({j \in stays : SortsBefore(live, i, j)}) >= max}
     IN memories' = ArchiveAll(live, cut)
  /\ shown' = NothingShown
  /\ UNCHANGED <<now, told>>

\* `prune_long_term_memories(max)`; it lists no namespace but the default one.
Prune(max) ==
  /\ LET live  == ArchiveExpired(memories)
         stays == Active(live, Default)
         cut   == {i \in stays : Cardinality({j \in stays : SortsBefore(live, j, i)}) >= max}
     IN memories' = ArchiveAll(live, cut)
  /\ shown' = NothingShown
  /\ UNCHANGED <<now, told>>

Tick ==
  /\ now < MaxTime
  /\ now' = now + 1
  /\ shown' = NothingShown
  /\ UNCHANGED <<memories, told>>

\* Everything that names the user and tenant it acts for.
ForNamespace(ns) ==
  \/ \E f \in Facts, imp \in 0..MaxImportance :
       Restate(ns, f, imp) \/ Merge(ns, f, imp) \/ Create(ns, f, imp)
  \/ \E touch \in BOOLEAN : Snapshot(ns, touch)
  \/ \E i \in DOMAIN memories : ArchiveReviewed(ns, i) \/ Resolve(ns, i)
  \/ \E i \in DOMAIN memories, v \in -1..(MaxImportance + 1) : SetImportance(ns, i, v)

Next ==
  \/ \E ns \in Namespaces : ForNamespace(ns)
  \/ \E max \in 0..MaxMemories : Prune(max)
  \/ Tick

Spec == Init /\ [][Next]_vars
---------------------------------------------------------------------------
\* No user has two active memories of one fact, or on one topic, however adds,
\* merges, reviews and expiry interleave.
OneActivePerFact ==
  \A ns \in Namespaces : \A i, j \in Active(memories, ns) :
    i # j => /\ memories[i].fact # memories[j].fact
             /\ \/ Topic[memories[i].fact] = NoTopic
                \/ Topic[memories[i].fact] # Topic[memories[j].fact]

\* Merging and archiving are no deletion: what a user ever told is still in a
\* record of that user, as its text or in merged_from.
NothingForgotten ==
  \A p \in told : \E i \in DOMAIN memories :
    /\ memories[i].ns = p[1]
    /\ p[2] \in {memories[i].fact} \cup memories[i].mergedFrom

\* A snapshot holds only active memories of its own namespace that have not
\* expired, whatever was or was not archived before it was taken.
ShownIsLive ==
  \A i \in shown.ids :
    /\ memories[i].ns = shown.ns
    /\ memories[i].status = "active"
    /\ ~IsExpired(memories[i])

\* An archived memory never comes back and keeps what it said: a fact told
\* again makes a record of its own.
ArchivedIsFinal ==
  [][\A i \in DOMAIN memories : memories[i].status = "archived" =>
       /\ i \in DOMAIN memories'
       /\ memories'[i].status = "archived"
       /\ memories'[i].fact = memories[i].fact
       /\ memories'[i].mergedFrom = memories[i].mergedFrom]_vars

\* What is done for one user and tenant leaves every memory of the others as
\* it was, except that expired ones are archived.
NamespacesAreIsolated ==
  [][\A ns \in Namespaces : ForNamespace(ns) =>
       \A i \in DOMAIN memories : memories[i].ns # ns =>
         memories'[i] = memories[i] \/ IsExpired(memories[i])]_vars

\* What pruning keeps of the default namespace fits the limit; it drops a
\* memory before its time only when the limit is reached by others that do not
\* rank below it.
PruneKeepsBest ==
  [][\A max \in 0..MaxMemories : Prune(max) =>
       LET kept == Active(memories', Default) IN
         /\ Cardinality(kept) <= max
         /\ \A i \in Active(memories, Default) \ kept :
              \/ IsExpired(memories[i])
              \/ /\ Cardinality(kept) = max
                 /\ \A k \in kept : ~RanksBelow(memories[k], memories[i])]_vars

\* prune_long_term_memories keeps at most max active memories, says its
\* docstring (store.py:287); of the namespaces it cannot name it keeps all.
PruneBoundsActive ==
  [][\A max \in 0..MaxMemories : Prune(max) =>
       Cardinality({i \in DOMAIN memories' : memories'[i].status = "active"}) <= max]_vars
=============================================================================
