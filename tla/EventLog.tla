------------------------------ MODULE EventLog ------------------------------
(***************************************************************************)
(* The JSONL event log (agentic_core/observability): JsonlEventWriter      *)
(* appends one line per event to a file that several processes share.      *)
(* When the line would make the file too long, the writer first renames    *)
(* the file to backup 1, backup 1 to backup 2 and so on, all under the     *)
(* flock of "<file>.lock"; a failed write is a warning of the              *)
(* CompositeEventWriter, and the event is not retried.  read_jsonl_events  *)
(* takes no lock: it lists the backups, then reads them oldest first.      *)
(*                                                                         *)
(* Events are numbered in the order of their appends.  A file is the       *)
(* sequence of what was appended to it, its pieces; a piece that was cut   *)
(* short has no newline, so the next piece continues its line.             *)
(***************************************************************************)
EXTENDS Integers, Sequences, FiniteSets

CONSTANTS
  Writers,           \* processes that write events
  Depth,             \* highest backup number in use
  BackupCounts,      \* the backup_count settings explored
  LineBytes,         \* bytes of each event's line, its newline included
  MaxBytes,          \* max_bytes
  Splitting,         \* events whose text has U+2028, U+2029 or U+0085 in it
  Tears,             \* how an append that is cut short can end
  MaxEvents,         \* bound: events written
  MaxInterruptions,  \* bound: crashes and failed writes
  Absent,            \* a path at which there is no file
  Nobody             \* the lock is free

\* "noeol": only the newline is missing.  "partial": the JSON is cut between
\* two characters.  "cut": it is cut inside a character of several bytes.
ASSUME LogAssumption ==
  /\ Depth \in Nat
  /\ BackupCounts \subseteq 0..Depth
  /\ LineBytes \in [1..MaxEvents -> Nat]
  /\ \A e \in 1..MaxEvents : LineBytes[e] > 2
  /\ MaxBytes \in Nat \ {0}
  /\ Tears \subseteq {"noeol", "partial", "cut"}
  /\ Nobody \notin Writers
  /\ MaxEvents \in Nat
  /\ MaxInterruptions \in Nat

VARIABLES
  backups,        \* backup_count
  files,          \* the current file (0) and its backups
  lock,           \* the writer that holds the flock
  pc,             \* where each writer is in write()
  cursor,         \* the index each writer's rotation loop is at
  written,        \* events appended so far, whole or not
  logged,         \* events that were appended whole
  interruptions,  \* crashes and failed writes so far
  rpc,            \* where the reader is: idle, listed, reading, done, or raised
  todo,           \* paths the reader has listed and not read
  got             \* what the reader has read, file by file

logVars == <<backups, files, lock, pc, cursor, written, logged, interruptions>>
readerVars == <<rpc, todo, got>>
vars == <<logVars, readerVars>>

\* `end` is the size of the file up to and including the piece.
Pieces == [event : Nat \ {0}, part : {"whole"} \cup Tears, end : Nat]
Indices == 0..Depth
Holding == {"check", "truncate", "unlink", "shift", "move", "append", "unlock"}
Failures == {"vanished", "undecodable"}

\* No file is not a file, not even an empty one.
ASSUME AbsentAssumption == Absent \notin Seq(Pieces)

TypeOK ==
  /\ backups \in BackupCounts
  /\ files \in [Indices -> Seq(Pieces) \cup {Absent}]
  /\ lock \in Writers \cup {Nobody}
  /\ pc \in [Writers -> {"idle"} \cup Holding]
  /\ cursor \in [Writers -> Indices]
  /\ written \in Nat
  /\ logged \subseteq 1..written
  /\ interruptions \in Nat
  /\ rpc \in {"idle", "listed", "reading", "done"} \cup Failures
  /\ todo \subseteq Indices
  /\ got \in Seq(Seq(Pieces))
---------------------------------------------------------------------------
Exists(k) == files[k] # Absent

\* path.stat().st_size
Size(file) == IF file = <<>> THEN 0 ELSE file[Len(file)].end

\* splitlines() and json.loads() of the pieces of one file: piece i is read as
\* its event when it has a line of its own, and read_text() can decode the
\* file.
Decodes(file) == \A i \in DOMAIN file : file[i].part # "cut"
StartsLine(file, i) == i = 1 \/ file[i - 1].part = "whole"
ReadsBack(file, i) ==
  /\ Decodes(file)
  /\ StartsLine(file, i)
  /\ file[i].event \notin Splitting
  /\ file[i].part = "whole" \/ (file[i].part = "noeol" /\ i = Len(file))

EventsOf(file) == {file[i].event : i \in DOMAIN file}
HeldEvents == UNION {EventsOf(files[k]) : k \in {j \in Indices : Exists(j)}}
ReadableEvents ==
  UNION {{files[k][i].event : i \in {j \in DOMAIN files[k] : ReadsBack(files[k], j)}}
         : k \in {j \in Indices : Exists(j)}}
---------------------------------------------------------------------------
Init ==
  /\ backups \in BackupCounts
  /\ files = [k \in Indices |-> Absent]
  /\ lock = Nobody
  /\ pc = [w \in Writers |-> "idle"]
  /\ cursor = [w \in Writers |-> 0]
  /\ written = 0
  /\ logged = {}
  /\ interruptions = 0
  /\ rpc = "idle"
  /\ todo = {}
  /\ got = <<>>

Goto(w, step) == pc' = [pc EXCEPT ![w] = step]

\* Mutant: use_lock is off for a file that several processes write.
AcquireUnlocked(w) ==
  /\ pc[w] = "idle"
  /\ written < MaxEvents
  /\ Goto(w, "check")
  /\ UNCHANGED <<backups, files, lock, cursor, written, logged, interruptions, readerVars>>

Acquire(w) ==
  /\ pc[w] = "idle"
  /\ written < MaxEvents
  /\ lock = Nobody
  /\ lock' = w
  /\ Goto(w, "check")
  /\ UNCHANGED <<backups, files, cursor, written, logged, interruptions, readerVars>>

\* Mutant: the size test looks at the file only, not at the incoming line.
TooLongLate == Exists(0) /\ Size(files[0]) > MaxBytes

\* A line that is too long for any file makes way for itself like any other.
TooLong == Exists(0) /\ Size(files[0]) + LineBytes[written + 1] > MaxBytes

Check(w) ==
  /\ pc[w] = "check"
  /\ Goto(w, CASE ~TooLong -> "append"
               [] TooLong /\ backups = 0 -> "truncate"
               [] TooLong /\ backups # 0 -> "unlink")
  /\ UNCHANGED <<backups, files, lock, cursor, written, logged, interruptions, readerVars>>

\* write_text(""): with no backups to keep, the events are dropped.
Truncate(w) ==
  /\ pc[w] = "truncate"
  /\ files' = [files EXCEPT ![0] = <<>>]
  /\ Goto(w, "append")
  /\ UNCHANGED <<backups, lock, cursor, written, logged, interruptions, readerVars>>

\* Mutant: the loop over the backups includes the current file, index 0.
NextShiftToZero(w, k) ==
  /\ cursor' = [cursor EXCEPT ![w] = k]
  /\ Goto(w, IF k < 0 THEN "move" ELSE "shift")

\* Where the loop over the backups goes on after index k, from backups - 1
\* down to 1.
NextShift(w, k) ==
  /\ cursor' = [cursor EXCEPT ![w] = k]
  /\ Goto(w, IF k = 0 THEN "move" ELSE "shift")

\* The oldest backup, if there is one, is removed.
Unlink(w) ==
  /\ pc[w] = "unlink"
  /\ files' = [files EXCEPT ![backups] = Absent]
  /\ NextShift(w, backups - 1)
  /\ UNCHANGED <<backups, lock, written, logged, interruptions, readerVars>>

\* Mutant: the loop runs upwards and carries backup 1 into every place.
ShiftUp(w) ==
  /\ pc[w] = "shift"
  /\ LET k == backups - cursor[w]
     IN files' = IF Exists(k)
                 THEN [files EXCEPT ![k + 1] = files[k], ![k] = Absent]
                 ELSE files
  /\ NextShift(w, cursor[w] - 1)
  /\ UNCHANGED <<backups, lock, written, logged, interruptions, readerVars>>

Shift(w) ==
  /\ pc[w] = "shift"
  /\ LET k == cursor[w]
     IN files' = IF Exists(k)
                 THEN [files EXCEPT ![k + 1] = files[k], ![k] = Absent]
                 ELSE files
  /\ NextShift(w, cursor[w] - 1)
  /\ UNCHANGED <<backups, lock, written, logged, interruptions, readerVars>>

Move(w) ==
  /\ pc[w] = "move"
  /\ files' = [files EXCEPT ![1] = files[0], ![0] = Absent]
  /\ Goto(w, "append")
  /\ UNCHANGED <<backups, lock, cursor, written, logged, interruptions, readerVars>>

Current == IF Exists(0) THEN files[0] ELSE <<>>

Appended(part, bytes) ==
  [files EXCEPT ![0] =
     Append(Current, [event |-> written + 1, part |-> part, end |-> Size(Current) + bytes])]

\* The length of what is written of a line.
TornBytes(part) ==
  IF part = "noeol" THEN {LineBytes[written + 1] - 1} ELSE 1..(LineBytes[written + 1] - 2)

WriteLine(w) ==
  /\ pc[w] = "append"
  /\ files' = Appended("whole", LineBytes[written + 1])
  /\ written' = written + 1
  /\ logged' = logged \cup {written + 1}
  /\ Goto(w, "unlock")
  /\ UNCHANGED <<backups, lock, cursor, interruptions, readerVars>>

Unlock(w) ==
  /\ pc[w] = "unlock"
  /\ lock' = Nobody
  /\ Goto(w, "idle")
  /\ UNCHANGED <<backups, files, cursor, written, logged, interruptions, readerVars>>

\* write() ends early, whatever the reason: the process dies, which frees its
\* flock, or a call raises, _locked() frees it, and the exception becomes a
\* warning.  The rotation stays where it is.
Released(w) ==
  /\ interruptions < MaxInterruptions
  /\ interruptions' = interruptions + 1
  /\ lock' = Nobody
  /\ Goto(w, "idle")

Interrupt(w) ==
  /\ pc[w] \in Holding
  /\ Released(w)
  /\ UNCHANGED <<backups, files, cursor, written, logged, readerVars>>

\* The same in the middle of the append itself: part of the line is written.
TornAppend(w) ==
  /\ pc[w] = "append"
  /\ \E part \in Tears : \E bytes \in TornBytes(part) : files' = Appended(part, bytes)
  /\ written' = written + 1
  /\ Released(w)
  /\ UNCHANGED <<backups, cursor, logged, readerVars>>
---------------------------------------------------------------------------
(* The reader                                                              *)

\* glob("<file>.*")
ListBackups ==
  /\ rpc = "idle"
  /\ todo' = {k \in Indices : k # 0 /\ Exists(k)}
  /\ rpc' = "listed"
  /\ UNCHANGED <<got, logVars>>

\* path.exists() of the current file, a call of its own.
ListCurrent ==
  /\ rpc = "listed"
  /\ todo' = IF Exists(0) THEN todo \cup {0} ELSE todo
  /\ rpc' = "reading"
  /\ UNCHANGED <<got, logVars>>

\* Mutant: the paths are sorted newest first.
IsNextUp(k) == k \in todo /\ \A j \in todo : k <= j

\* paths.sort(reverse=True), the current file last.
IsNext(k) == k \in todo /\ \A j \in todo : j <= k

Read ==
  /\ rpc = "reading"
  /\ \E k \in todo :
       /\ IsNext(k)
       /\ Exists(k)
       /\ Decodes(files[k])
       /\ got' = Append(got, files[k])
       /\ todo' = todo \ {k}
  /\ UNCHANGED <<rpc, logVars>>

\* read_text() raises, and nothing that was read is returned.
ReadRaises ==
  /\ rpc = "reading"
  /\ \E k \in todo :
       /\ IsNext(k)
       /\ \/ ~Exists(k) /\ rpc' = "vanished"
          \/ Exists(k) /\ ~Decodes(files[k]) /\ rpc' = "undecodable"
  /\ UNCHANGED <<todo, got, logVars>>

Return ==
  /\ rpc = "reading"
  /\ todo = {}
  /\ rpc' = "done"
  /\ UNCHANGED <<todo, got, logVars>>

WriterStep(w) ==
  \/ Acquire(w) \/ Check(w) \/ Truncate(w) \/ Unlink(w) \/ Shift(w) \/ Move(w)
  \/ WriteLine(w) \/ Unlock(w) \/ Interrupt(w) \/ TornAppend(w)

ReaderStep == ListBackups \/ ListCurrent \/ Read \/ ReadRaises \/ Return

Next == (\E w \in Writers : WriterStep(w)) \/ ReaderStep

Spec == Init /\ [][Next]_vars
---------------------------------------------------------------------------
Ascending(file) ==
  \A i, j \in DOMAIN file : i < j => file[i].event < file[j].event

Before(file1, file2) ==
  \A i \in DOMAIN file1, j \in DOMAIN file2 : file1[i].event < file2[j].event

(* What a reader returns is in the order of the appends, and no event is in  *)
(* it twice, although files are renamed under it: a rename only ever takes   *)
(* a file to a place the reader has passed or has yet to come to in order.   *)
ReaderInOrder ==
  \A p \in DOMAIN got :
    /\ Ascending(got[p])
    /\ \A q \in DOMAIN got : p < q => Before(got[p], got[q])

(* Rotation drops nothing but the oldest events: of those newer than the     *)
(* oldest that is kept, each crash or failed write costs one at most, the    *)
(* one whose line continues a torn one, wherever in the rotation or the      *)
(* append it came.                                                           *)
OnlyTheOldestAreDropped ==
  Cardinality({e \in logged \ ReadableEvents : \E old \in HeldEvents : old < e})
    <= interruptions

(* No file grows beyond max_bytes, but for one that a single line fills: no  *)
(* writer appends on a size that another has made stale, and no torn line    *)
(* or rotation cut short lets a file grow on.                                *)
FilesAreBounded ==
  \A k \in Indices : Exists(k) => Size(files[k]) <= MaxBytes \/ Len(files[k]) = 1

(* A gap in the chain of backups is what an interrupted rotation leaves, one *)
(* each at most: the next rotations move it up until it falls off the end,   *)
(* and never make two of one.                                                *)
Gaps == {k \in 1..Depth : ~Exists(k) /\ \E j \in 1..Depth : k < j /\ Exists(j)}
GapsAreInterruptions == lock = Nobody => Cardinality(Gaps) <= interruptions

(* "One line, one JSON" (event_writer.py:68): while nothing was interrupted, *)
(* every line a reader gets is read back as its event.                       *)
OneLineOneEvent ==
  interruptions = 0 =>
    \A p \in DOMAIN got : \A i \in DOMAIN got[p] : ReadsBack(got[p], i)

(* A bad line is degraded to an invalid_jsonl_line event, "not a crash"      *)
(* (event_log.py:4): no content of a file makes the reader raise.            *)
BadLinesDoNotRaise == rpc # "undecodable"
=============================================================================
