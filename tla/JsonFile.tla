------------------------------ MODULE JsonFile ------------------------------
(* The JSON documents of the project that are rewritten whole: the tool      *)
(* results of JsonFileIdempotencyStore (tools/middleware.py) and the memory  *)
(* of JsonMemoryStore (memory/store.py), which an agent's process keeps in   *)
(* one object for its whole life and the memory review server                *)
(* (memory/server.py) loads for every request.                               *)
(*                                                                           *)
(* Savers are threads.  Those of an agent's process are its runs and the     *)
(* workers that _execute_with_timeout has given up waiting for: they go on   *)
(* with memory.add, note.add or todo.add beside the run, on the same object. *)
(*                                                                           *)
(* Both write one temporary file next to the document and rename it.  The    *)
(* results are read and written under a lock, the memory under none.  A      *)
(* document is the set of updates it holds.  A file has no inode here: a     *)
(* saver writes to whatever the file it opened is called meanwhile.          *)
EXTENDS Naturals, FiniteSets

CONSTANTS
  Savers,      \* threads that write the document
  Process,     \* the process each of them runs in
  Agents,      \* the processes that keep one JsonMemoryStore object
  Kinds,       \* documents to check, of "results" and "memory"
  Routes,      \* requests to the review server, of "list", "conflicts", "write"
  None,        \* no token, no lock holder, no object, no saver
  Token,       \* the review server's token, or None
  MaxUpdates   \* bound on the updates of one saver

Processes == {Process[s] : s \in Savers}

ASSUME FileAssumption ==
  /\ Process \in [Savers -> Processes] /\ Agents \subseteq Processes
  /\ Kinds \subseteq {"results", "memory"}
  /\ Routes \subseteq {"list", "conflicts", "write"}
  /\ None \notin Savers
  /\ MaxUpdates \in Nat

VARIABLES
  kind,      \* the document checked (never changes)
  sharers,   \* the savers that use it (never changes)
  lock,      \* who holds the lock file
  json, tmp, \* the document and the temporary file
  pc,        \* where each saver is
  opened,    \* what the file each saver has open is called
  kept,      \* the updates in each process's object, or None
  text,      \* the updates each saver is about to write
  count,     \* updates each saver has made
  acked,     \* updates whose caller was told of success
  lone,      \* history: the saver in an update that no other has overlapped, or None
  order      \* history: see Orders

settings == <<kind, sharers>>
history == <<lone, order>>
vars == <<settings, lock, json, tmp, pc, opened, kept, text, count, acked, history>>
---------------------------------------------------------------------------
Updates == Savers \X (1..MaxUpdates)

\* No object is not an object, not even an empty one.
ASSUME NoneAssumption == \A updates \in SUBSET Updates : updates # None

\* A file: not there, just truncated, no JSON, or a whole document.
Absent == [state |-> "absent", has |-> {}]
Empty == [state |-> "empty", has |-> {}]
Torn == [state |-> "torn", has |-> {}]
Whole(updates) == [state |-> "whole", has |-> updates]

Files == {Absent, Empty, Torn} \cup {Whole(updates) : updates \in SUBSET Updates}

Objects == (SUBSET Updates) \cup {None}

\* Savers in the middle of an update.
Busy == {"locked", "changed", "dumped", "opened", "flushed", "replaced"}

\* "lone": all updates so far came one after another, or the document has been
\* rewritten since by one that did.  "overlapped": some did not, and it has not.
\* "lost": after that, the process with the object has died.
Orders == {"lone", "overlapped", "lost"}

TypeOK ==
  /\ kind \in Kinds
  /\ sharers \in (SUBSET Savers) \ {{}}
  /\ lock \in sharers \cup {None}
  /\ json \in Files /\ tmp \in Files
  /\ pc \in [Savers -> Busy \cup {"idle"}]
  /\ opened \in [Savers -> {"nothing", "json", "tmp", "unlinked"}]
  /\ kept \in [Processes -> Objects]
  /\ text \in [Savers -> SUBSET Updates]
  /\ count \in [Savers -> 0..MaxUpdates]
  /\ acked \subseteq Updates
  /\ lone \in Savers \cup {None}
  /\ order \in Orders
  /\ \A s \in Savers : pc[s] \in Busy => s \in sharers /\ (kind = "results" => lock = s)
  /\ lock # None => pc[lock] \in Busy
  /\ \A s \in Savers : pc[s] # "opened" => opened[s] = "nothing"

Init ==
  /\ kind \in Kinds
  /\ sharers \in (SUBSET Savers) \ {{}}
  /\ lock = None
  /\ json = Absent
  /\ tmp = Absent
  /\ pc = [s \in Savers |-> "idle"]
  /\ opened = [s \in Savers |-> "nothing"]
  /\ kept = [p \in Processes |-> None]
  /\ text = [s \in Savers |-> {}]
  /\ count = [s \in Savers |-> 0]
  /\ acked = {}
  /\ lone = None
  /\ order = "lone"

Goto(s, step) == pc' = [pc EXCEPT ![s] = step]

\* The saver's current update.
Update(s) == <<s, count[s]>>

\* Mutant: tool results are kept in an object, too.
KeepsAll(s) == Process[s] \in Agents

\* The threads of an agent's process go on with the object it loaded when it
\* started, everyone else loads anew.
Keeps(s) == kind = "memory" /\ Process[s] \in Agents

Object(s) == kept[Process[s]]

\* JsonMemoryStore.load raises on a file that is no JSON; `_load` of the results
\* takes it for one that holds none.
Loadable == kind = "results" \/ json.state \in {"absent", "whole"}

\* An agent's process starts, or starts again.
StartAgent(s) ==
  /\ s \in sharers
  /\ Keeps(s) /\ Object(s) = None
  /\ Loadable
  /\ kept' = [kept EXCEPT ![Process[s]] = json.has]
  /\ UNCHANGED <<settings, lock, json, tmp, pc, opened, text, count, acked, history>>
---------------------------------------------------------------------------
\* `_authorize` and `_require_write_auth` of the review server: reading is free
\* for all when there is no token, writing is off.
Authorized(route, token) ==
  /\ Token # None => token = Token
  /\ route = "write" => Token # None

\* A review request that gets to writing the memory: an authorized one that
\* changes it, or lists it and archives what has expired.
Requested ==
  \E route \in Routes \ {"conflicts"}, token \in {Token, None} : Authorized(route, token)

\* An update begins: under the lock, or at once, whatever other threads do.
Begin(s) ==
  /\ pc[s] = "idle" /\ s \in sharers
  /\ count[s] < MaxUpdates
  /\ Keeps(s) => Object(s) # None
  /\ kind = "memory" /\ ~Keeps(s) => Requested
  /\ kind = "results" => lock = None
  /\ lock' = IF kind = "results" THEN s ELSE lock
  /\ count' = [count EXCEPT ![s] = @ + 1]
  /\ Goto(s, "locked")
  /\ IF \A t \in Savers : pc[t] \notin Busy
     THEN lone' = s /\ UNCHANGED order
     ELSE lone' = None /\ order' = (IF order = "lone" THEN "overlapped" ELSE order)
  /\ UNCHANGED <<settings, json, tmp, opened, kept, text, acked>>

\* The document is read, and what is to be written is that and the update.
Load(s) ==
  /\ pc[s] = "locked"
  /\ ~Keeps(s) /\ Loadable
  /\ text' = [text EXCEPT ![s] = json.has \cup {Update(s)}]
  /\ Goto(s, "dumped")
  /\ UNCHANGED <<settings, lock, json, tmp, opened, kept, count, acked, history>>

\* The process's object is changed, by any of its threads.
Change(s) ==
  /\ pc[s] = "locked"
  /\ Keeps(s)
  /\ kept' = [kept EXCEPT ![Process[s]] = @ \cup {Update(s)}]
  /\ Goto(s, "changed")
  /\ UNCHANGED <<settings, lock, json, tmp, opened, text, count, acked, history>>

\* ... and made a text of, with all that its threads have changed by now.
Dump(s) ==
  /\ pc[s] = "changed"
  /\ text' = [text EXCEPT ![s] = Object(s)]
  /\ Goto(s, "dumped")
  /\ UNCHANGED <<settings, lock, json, tmp, opened, kept, count, acked, history>>

\* write_text opens the temporary file, which creates or truncates it.
OpenTmp(s) ==
  /\ pc[s] = "dumped"
  /\ tmp' = Empty
  /\ opened' = [opened EXCEPT ![s] = "tmp"]
  /\ Goto(s, "opened")
  /\ UNCHANGED <<settings, lock, json, kept, text, count, acked, history>>

\* A document written from offset 0 leaves the end of a longer one.
WrittenOver(old, updates) ==
  IF old.state = "empty" THEN {Whole(updates)} ELSE {Whole(updates), Torn}

\* ... writes and closes it, whatever it is called by now.
Flush(s) ==
  /\ pc[s] = "opened"
  /\ IF opened[s] = "tmp" THEN tmp' \in WrittenOver(tmp, text[s]) ELSE UNCHANGED tmp
  /\ IF opened[s] = "json" THEN json' \in WrittenOver(json, text[s]) ELSE UNCHANGED json
  /\ opened' = [opened EXCEPT ![s] = "nothing"]
  /\ Goto(s, "flushed")
  /\ UNCHANGED <<settings, lock, kept, text, count, acked, history>>

\* What an open file is called once the temporary file is renamed.
Renamed == [nothing |-> "nothing", tmp |-> "json", json |-> "unlinked",
            unlinked |-> "unlinked"]

\* temp_path.replace: files others have open go with their names.
Replace(s) ==
  /\ pc[s] = "flushed"
  /\ tmp # Absent
  /\ json' = tmp
  /\ tmp' = Absent
  /\ opened' = [t \in Savers |-> Renamed[opened[t]]]
  /\ Goto(s, "replaced")
  /\ order' = IF order = "overlapped" /\ lone = s /\ Keeps(s) THEN "lone" ELSE order
  /\ UNCHANGED <<settings, lock, kept, text, count, acked, lone>>

\* Savers let go of the lock and of what they have open.
Released(savers) ==
  /\ lock' = IF lock \in savers THEN None ELSE lock
  /\ opened' = [s \in Savers |-> IF s \in savers THEN "nothing" ELSE opened[s]]
  /\ text' = [s \in Savers |-> IF s \in savers THEN {} ELSE text[s]]
  /\ pc' = [s \in Savers |-> IF s \in savers THEN "idle" ELSE pc[s]]
  /\ lone' = IF lone \in savers THEN None ELSE lone

Finish(s) ==
  /\ pc[s] = "replaced"
  /\ acked' = acked \cup {Update(s)}
  /\ Released({s})
  /\ UNCHANGED <<settings, json, tmp, kept, count, order>>

\* What writes that are cut off may leave in the file they go to.
CutOff(savers, name, old) ==
  IF \E s \in savers : opened[s] = name THEN {old, Torn} ELSE {old}

\* Mutant: a failure leaves the lock file locked.
FailsLocked(s) ==
  /\ pc[s] \in Busy \ {"replaced"}
  /\ tmp' \in CutOff({s}, "tmp", tmp)
  /\ json' \in CutOff({s}, "json", json)
  /\ opened' = [opened EXCEPT ![s] = "nothing"]
  /\ text' = [text EXCEPT ![s] = {}]
  /\ lone' = IF lone = s THEN None ELSE lone
  /\ Goto(s, "idle")
  /\ UNCHANGED <<settings, lock, kept, count, acked, order>>

\* Loading, writing or renaming raises; an agent's object has the update even
\* so.  The caller is told of the failure.
Fails(s) ==
  /\ pc[s] \in Busy \ {"replaced"}
  /\ tmp' \in CutOff({s}, "tmp", tmp)
  /\ json' \in CutOff({s}, "json", json)
  /\ Released({s})
  /\ UNCHANGED <<settings, kept, count, acked, order>>

\* The savers of one process.
Threads(p) == {s \in Savers : Process[s] = p}

\* A process dies with all its threads, and is started again.
Crash(s) ==
  /\ s \in sharers
  /\ tmp' \in CutOff(Threads(Process[s]), "tmp", tmp)
  /\ json' \in CutOff(Threads(Process[s]), "json", json)
  /\ kept' = [kept EXCEPT ![Process[s]] = None]
  /\ Released(Threads(Process[s]))
  /\ order' = IF order = "overlapped" THEN "lost" ELSE order
  /\ UNCHANGED <<settings, count, acked>>

Save(s) ==
  \/ StartAgent(s)
  \/ Begin(s)
  \/ Load(s)
  \/ Change(s)
  \/ Dump(s)
  \/ OpenTmp(s)
  \/ Flush(s)
  \/ Replace(s)
  \/ Finish(s)
  \/ Fails(s)
  \/ Crash(s)

Next == \E s \in Savers : Save(s)

Spec == Init /\ [][Next]_vars
---------------------------------------------------------------------------
OneProcess == \A s, t \in sharers : Process[s] = Process[t]

\* A document that is locked; or that one process has for itself, while its
\* threads update it one after another, or once one has done so again.
Exclusive == kind = "results" \/ (OneProcess /\ order = "lone")

\* Such a document is whole at any moment, whoever dies where, and holds every
\* update whose caller was told of success: none is lost to another saver, to
\* a failed write or to a restart.  What abandoned threads of an agent spoil,
\* its next update without them puts right, if the process lives to see it.
ExclusiveFileIsSafe ==
  Exclusive => /\ json.state \in {"absent", "whole"}
               /\ acked \subseteq json.has

\* "A temporary file and replace keep an interrupted write from leaving half a
\* JSON" (store.py:477): for a document of one process, whatever its threads
\* do.
OneProcessFileIsWhole == OneProcess => json.state \in {"absent", "whole"}
=============================================================================
