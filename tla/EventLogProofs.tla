--------------------------- MODULE EventLogProofs ---------------------------
(* Proofs about the event log: its type, the length of its files, the order  *)
(* of what a reader gets while the files are renamed under it, the gaps that *)
(* interrupted rotations leave, and the events that are lost.                *)
EXTENDS EventLog, FiniteSetTheorems, TLAPS

---------------------------------------------------------------------------
(* The inductive invariant                                                   *)

\* Only the writer that holds the flock is inside write().
Exclusion == \A w \in Writers : pc[w] \in Holding => lock = w

\* A rotation has backups to rotate into, and its loop stays among them.
Rotation ==
  \A w \in Writers :
    /\ pc[w] \in {"unlink", "shift", "move"} => backups >= 1
    /\ pc[w] = "shift" => cursor[w] \in 1..(backups - 1)

\* A writer that is about to append has room for its line, or a file of its own.
Room == \A w \in Writers : pc[w] = "append" => ~TooLong \/ files[0] = <<>>

\* A writer in write() has a line to write.
LineAhead == \A w \in Writers : pc[w] \in Holding \ {"unlock"} => written < MaxEvents

\* All events are numbered up to `written`, they ascend in each file, and a
\* backup is older than every file of a lower number.
Dated(file) == Ascending(file) /\ \A i \in DOMAIN file : file[i].event <= written
FilesInOrder ==
  /\ \A k \in Indices : Exists(k) => Dated(files[k])
  /\ \A j, k \in Indices : j < k /\ Exists(j) /\ Exists(k) => Before(files[k], files[j])

\* Whatever is now, or comes to be, at a place the reader has not passed is
\* newer than all it has read.
ReaderIsAhead ==
  /\ rpc \in {"idle", "listed"} => got = <<>>
  /\ \A p \in DOMAIN got : Dated(got[p])
  /\ \A p \in DOMAIN got, k \in todo, j \in Indices :
       j <= k /\ Exists(j) => Before(got[p], files[j])

IInv ==
  TypeOK /\ Exclusion /\ Rotation /\ Room /\ LineAhead /\ FilesAreBounded
    /\ FilesInOrder /\ ReaderIsAhead /\ ReaderInOrder

LEMMA InitInvariant == Init => IInv
  BY LogAssumption DEF Init, IInv, TypeOK, Exclusion, Rotation, Room, LineAhead,
     FilesAreBounded, FilesInOrder, ReaderIsAhead, ReaderInOrder, Exists, Indices, Holding
---------------------------------------------------------------------------
(* What the operations do to the files                                       *)

\* A file has a length in bytes.
LEMMA SizeType ==
  ASSUME NEW file \in Seq(Pieces)
  PROVE  Size(file) \in Nat
<1>1. CASE file = <<>>
  BY <1>1 DEF Size
<1>2. CASE file # <<>>
  <2>1. file[Len(file)] \in Pieces
    BY <1>2
  <2>2. QED
    BY <1>2, <2>1 DEF Size, Pieces
<1>3. QED
  BY <1>1, <1>2

\* An append adds one piece at the end of the current file and leaves the
\* backups alone.
LEMMA AppendFacts ==
  ASSUME TypeOK, NEW part \in {"whole"} \cup Tears, NEW bytes \in Nat
  PROVE  /\ Current \in Seq(Pieces)
         /\ Appended(part, bytes) \in [Indices -> Seq(Pieces) \cup {Absent}]
         /\ \A k \in Indices : k # 0 => Appended(part, bytes)[k] = files[k]
         /\ Appended(part, bytes)[0] \in Seq(Pieces)
         /\ Len(Appended(part, bytes)[0]) = Len(Current) + 1
         /\ \A i \in 1..Len(Current) : Appended(part, bytes)[0][i] = Current[i]
         /\ Appended(part, bytes)[0][Len(Current) + 1].event = written + 1
         /\ Appended(part, bytes)[0][Len(Current) + 1].part = part
         /\ Appended(part, bytes)[0][Len(Current) + 1].end = Size(Current) + bytes
<1> DEFINE piece == [event |-> written + 1, part |-> part, end |-> Size(Current) + bytes]
<1>1. 0 \in Indices
  BY LogAssumption DEF Indices
<1>2. Current \in Seq(Pieces)
  BY <1>1 DEF TypeOK, Current, Exists
<1>3. piece \in Pieces
  <2>1. Size(Current) \in Nat
    BY <1>2, SizeType
  <2>2. QED
    BY <2>1 DEF TypeOK, Pieces
<1>4. Appended(part, bytes) = [files EXCEPT ![0] = Append(Current, piece)]
  BY DEF Appended
<1>5. piece.event = written + 1 /\ piece.part = part /\ piece.end = Size(Current) + bytes
  OBVIOUS
<1> HIDE DEF piece
<1>6. Append(Current, piece) \in Seq(Pieces)
  BY <1>2, <1>3
<1>7. Appended(part, bytes)[0] = Append(Current, piece)
  BY <1>1, <1>4 DEF TypeOK
<1>8. QED
  BY <1>1, <1>2, <1>3, <1>4, <1>5, <1>6, <1>7 DEF TypeOK

\* What a write appends is its line or less of it.
LEMMA Appends ==
  ASSUME IInv, NEW w \in Writers
  PROVE  /\ WriteLine(w) => /\ LineBytes[written + 1] \in Nat
                            /\ files' = Appended("whole", LineBytes[written + 1])
         /\ TornAppend(w) => /\ LineBytes[written + 1] \in Nat
                             /\ \E part \in Tears : \E bytes \in Nat :
                                  /\ bytes <= LineBytes[written + 1]
                                  /\ files' = Appended(part, bytes)
<1>2. ASSUME WriteLine(w) \/ TornAppend(w)
      PROVE  LineBytes[written + 1] \in Nat /\ LineBytes[written + 1] > 2
  <2>1. written \in Nat /\ written < MaxEvents /\ MaxEvents \in Nat
    BY <1>2, LogAssumption DEF IInv, TypeOK, LineAhead, WriteLine, TornAppend, Holding
  <2>2. written + 1 \in 1..MaxEvents
    BY <2>1
  <2>3. QED
    BY <2>2, LogAssumption
<1>3. ASSUME WriteLine(w) PROVE files' = Appended("whole", LineBytes[written + 1])
  BY <1>3 DEF WriteLine
<1>4. ASSUME TornAppend(w)
      PROVE  \E part \in Tears : \E bytes \in Nat :
               bytes <= LineBytes[written + 1] /\ files' = Appended(part, bytes)
  <2>0. PICK part \in Tears : \E bytes \in TornBytes(part) : files' = Appended(part, bytes)
    BY <1>4 DEF TornAppend
  <2>1. PICK bytes \in TornBytes(part) : files' = Appended(part, bytes)
    BY <2>0
  <2>2. bytes \in Nat /\ bytes <= LineBytes[written + 1]
    BY <1>2, <1>4, <2>1 DEF TornBytes
  <2>3. QED
    BY <2>1, <2>2
<1>5. QED
  BY <1>2, <1>3, <1>4

\* The files after `files[k]` has been renamed to place k + 1.
Renamed(k) == [files EXCEPT ![k + 1] = files[k], ![k] = Absent]

\* A rename takes one file up by one place; the place it leaves is empty.
LEMMA RenameFacts ==
  ASSUME TypeOK, NEW k \in Indices, k + 1 \in Indices
  PROVE  /\ Renamed(k) \in [Indices -> Seq(Pieces) \cup {Absent}]
         /\ Renamed(k)[k + 1] = files[k]
         /\ Renamed(k)[k] = Absent
         /\ \A j \in Indices : j # k /\ j # k + 1 => Renamed(k)[j] = files[j]
  BY DEF TypeOK, Renamed, Indices

\* Move renames the current file, and Shift the backup its loop is at if there
\* is one.
LEMMA Renames ==
  ASSUME IInv, NEW w \in Writers
  PROVE  /\ Move(w) => /\ 0 \in Indices /\ 1 \in Indices /\ files' = Renamed(0)
         /\ Shift(w) => /\ cursor[w] \in 1..(backups - 1)
                        /\ cursor[w] \in Indices /\ cursor[w] + 1 \in Indices
                        /\ \/ files' = Renamed(cursor[w])
                           \/ files' = files
<1>1. backups \in 0..Depth /\ Depth \in Nat
  BY LogAssumption DEF IInv, TypeOK
<1>2. ASSUME Move(w)
      PROVE  0 \in Indices /\ 1 \in Indices /\ files' = Renamed(0)
  BY <1>1, <1>2 DEF IInv, Rotation, Move, Renamed, Indices
<1>3. ASSUME Shift(w)
      PROVE  /\ cursor[w] \in 1..(backups - 1)
             /\ cursor[w] \in Indices /\ cursor[w] + 1 \in Indices
             /\ files' = Renamed(cursor[w]) \/ files' = files
  <2>1. cursor[w] \in 1..(backups - 1)
    BY <1>3 DEF IInv, Rotation, Shift
  <2>2. files' = Renamed(cursor[w]) \/ files' = files
    BY <1>3 DEF Shift, Renamed
  <2>3. QED
    BY <1>1, <2>1, <2>2 DEF Indices
<1>4. QED
  BY <1>2, <1>3
---------------------------------------------------------------------------
(* Type                                                                      *)

LEMMA TypeStep == IInv /\ [Next]_vars => TypeOK'
<1> SUFFICES ASSUME IInv, [Next]_vars PROVE TypeOK'
  OBVIOUS
<1>0. TypeOK
  BY DEF IInv
<1>0a. backups \in 0..Depth /\ Depth \in Nat
  BY LogAssumption DEF IInv, TypeOK
<1> USE DEF TypeOK, logVars, readerVars, Goto, Holding
<1>1. ASSUME NEW w \in Writers, WriterStep(w) PROVE TypeOK'
  <2>1. CASE Acquire(w)
    BY <1>0, <2>1 DEF Acquire
  <2>2. CASE Check(w)
    BY <1>0, <2>2 DEF Check
  <2>3. CASE Truncate(w)
    <3>1. <<>> \in Seq(Pieces)
      OBVIOUS
    <3>2. files' \in [Indices -> Seq(Pieces) \cup {Absent}]
      BY <1>0, <2>3, <3>1 DEF Truncate
    <3>3. QED
      BY <1>0, <2>3, <3>2 DEF Truncate
  <2>4. CASE Unlink(w)
    <3>1. backups - 1 \in Indices
      BY <1>0a, <2>4 DEF Unlink, IInv, Rotation, Indices
    <3>2. QED
      BY <1>0, <2>4, <3>1 DEF Unlink, NextShift
  <2>5. CASE Shift(w)
    <3>1. cursor[w] - 1 \in Indices
      BY <1>0a, <2>5 DEF Shift, IInv, Rotation, Indices
    <3>2. files' \in [Indices -> Seq(Pieces) \cup {Absent}]
      BY <1>0, <2>5, Renames, RenameFacts
    <3>3. QED
      BY <1>0, <2>5, <3>1, <3>2 DEF Shift, NextShift
  <2>6. CASE Move(w)
    <3>1. files' \in [Indices -> Seq(Pieces) \cup {Absent}]
      BY <1>0, <2>6, Renames, RenameFacts
    <3>2. QED
      BY <1>0, <2>6, <3>1 DEF Move
  <2>7. CASE WriteLine(w)
    <3>1. files' \in [Indices -> Seq(Pieces) \cup {Absent}]
      <4>1. LineBytes[written + 1] \in Nat /\ files' = Appended("whole", LineBytes[written + 1])
        BY <2>7, Appends
      <4>2. QED
        BY <1>0, <4>1, AppendFacts
    <3>2. QED
      BY <1>0, <2>7, <3>1 DEF WriteLine
  <2>8. CASE Unlock(w)
    BY <1>0, <2>8 DEF Unlock
  <2>9. CASE Interrupt(w)
    BY <1>0, <2>9 DEF Interrupt, Released
  <2>10. CASE TornAppend(w)
    <3>1. files' \in [Indices -> Seq(Pieces) \cup {Absent}]
      <4>1. PICK part \in {"whole"} \cup Tears, bytes \in Nat : files' = Appended(part, bytes)
        BY <2>10, Appends
      <4>2. QED
        BY <1>0, <4>1, AppendFacts
    <3>2. QED
      BY <1>0, <2>10, <3>1 DEF TornAppend, Released
  <2>11. QED
    BY <1>1, <2>1, <2>2, <2>3, <2>4, <2>5, <2>6, <2>7, <2>8, <2>9, <2>10 DEF WriterStep
<1>2. ASSUME ReaderStep PROVE TypeOK'
  <2>1. CASE ListBackups
    BY <1>0, <2>1 DEF ListBackups
  <2>2. CASE ListCurrent
    BY <1>0, <1>0a, <2>2 DEF ListCurrent, Indices
  <2>3. CASE Read
    <3>1. PICK k \in todo : /\ Exists(k)
                           /\ got' = Append(got, files[k])
                           /\ todo' = todo \ {k}
      BY <2>3 DEF Read
    <3>2. files[k] \in Seq(Pieces)
      BY <1>0, <3>1 DEF Exists
    <3>3. got' \in Seq(Seq(Pieces))
      BY <1>0, <3>1, <3>2
    <3>4. QED
      BY <1>0, <2>3, <3>1, <3>3 DEF Read
  <2>4. CASE ReadRaises
    BY <1>0, <2>4 DEF ReadRaises, Failures
  <2>5. CASE Return
    BY <1>0, <2>5 DEF Return
  <2>6. QED
    BY <1>2, <2>1, <2>2, <2>3, <2>4, <2>5 DEF ReaderStep
<1>3. CASE UNCHANGED vars
  BY <1>0, <1>3 DEF vars
<1>4. QED
  BY <1>1, <1>2, <1>3 DEF Next
---------------------------------------------------------------------------
(* The lock, the rotation and the length of the files                        *)

\* The lock keeps every other writer out of write(), so nobody changes the
\* files, or the answer to the size test, under a writer that is in it.
LEMMA ControlStep ==
  IInv /\ [Next]_vars => Exclusion' /\ Rotation' /\ Room' /\ LineAhead' /\ FilesAreBounded'
<1> SUFFICES ASSUME IInv, [Next]_vars
             PROVE  Exclusion' /\ Rotation' /\ Room' /\ LineAhead' /\ FilesAreBounded'
  OBVIOUS
<1>0. TypeOK /\ Exclusion /\ Rotation /\ Room /\ LineAhead /\ FilesAreBounded
  BY DEF IInv
<1>0a. /\ backups \in 0..Depth /\ Depth \in Nat /\ 0 \in Indices
       /\ MaxBytes \in Nat \ {0} /\ Nobody \notin Writers
  BY <1>0, LogAssumption DEF TypeOK, Indices
<1>0b. pc \in [Writers -> {"idle"} \cup Holding] /\ cursor \in [Writers -> Indices]
  BY <1>0 DEF TypeOK
<1>0c. files \in [Indices -> Seq(Pieces) \cup {Absent}]
  BY <1>0 DEF TypeOK
<1>1. ASSUME NEW w \in Writers, WriterStep(w)
      PROVE  Exclusion' /\ Rotation' /\ Room' /\ LineAhead' /\ FilesAreBounded'
  <2>1. CASE Acquire(w)
    BY <1>0, <1>0a, <1>0b, <2>1
       DEF Acquire, Goto, Exclusion, Rotation, Room, LineAhead, FilesAreBounded, TooLong,
           Exists, Holding
  <2>2. CASE Check(w)
    <3>1. Exclusion' /\ LineAhead' /\ FilesAreBounded'
      BY <1>0, <1>0b, <2>2 DEF Check, Goto, Exclusion, LineAhead, FilesAreBounded, Exists, Holding
    <3>2. pc'[w] \in {"append", "truncate", "unlink"} /\ (pc'[w] = "append" => ~TooLong)
          /\ (pc'[w] = "unlink" => backups >= 1)
      BY <1>0a, <1>0b, <2>2 DEF Check, Goto
    <3>3. \A v \in Writers \ {w} : pc'[v] = pc[v]
      BY <1>0b, <2>2 DEF Check, Goto
    <3>4. Rotation'
      BY <1>0, <1>0a, <2>2, <3>2, <3>3 DEF Check, Rotation
    <3>5. Room'
      BY <1>0, <2>2, <3>2, <3>3 DEF Check, Room, TooLong, Exists
    <3>6. QED
      BY <3>1, <3>4, <3>5
  <2>3. CASE ~Acquire(w) /\ ~Check(w)
    <3>0. pc[w] \in Holding /\ (\A v \in Writers \ {w} : pc[v] \notin Holding)
      BY <1>0, <1>1, <2>3
         DEF WriterStep, Exclusion, Truncate, Unlink, Shift, Move, WriteLine, Unlock,
             Interrupt, TornAppend, Holding
    <3>1. /\ UNCHANGED backups
          /\ \A v \in Writers \ {w} : pc'[v] = pc[v]
          /\ lock' = lock \/ pc'[w] = "idle"
      BY <1>0b, <1>1, <2>3
         DEF WriterStep, Truncate, Unlink, Shift, Move, WriteLine, Unlock,
             Interrupt, TornAppend, Released, Goto, NextShift
    <3>2. Exclusion'
      BY <1>0, <1>0b, <3>0, <3>1 DEF Exclusion, Holding
    <3>3. ASSUME pc'[w] \in {"unlink", "shift", "move"}
          PROVE  backups' >= 1 /\ (pc'[w] = "shift" => cursor'[w] \in 1..(backups' - 1))
      <4>1. CASE Unlink(w)
        BY <1>0, <1>0a, <1>0b, <4>1 DEF Unlink, NextShift, Goto, Rotation
      <4>2. CASE Shift(w)
        BY <1>0, <1>0a, <1>0b, <4>2 DEF Shift, NextShift, Goto, Rotation
      <4>3. QED
        BY <1>0b, <1>1, <2>3, <3>3, <4>1, <4>2
           DEF WriterStep, Truncate, Move, WriteLine, Unlock,
               Interrupt, TornAppend, Released, Goto
    <3>4. Rotation'
      BY <3>0, <3>1, <3>3 DEF Rotation, Holding
    <3>5. ASSUME pc'[w] = "append"
          PROVE  ~TooLong' \/ files'[0] = <<>>
      <4>1. CASE Truncate(w)
        BY <1>0a, <1>0c, <4>1 DEF Truncate
      <4>2. CASE Move(w)
        <5>1. files'[0] = Absent
          BY <1>0, <4>2, Renames, RenameFacts DEF IInv
        <5>2. QED
          BY <5>1 DEF TooLong, Exists
      <4>3. QED
        BY <1>0b, <1>1, <2>3, <3>5, <4>1, <4>2
           DEF WriterStep, Unlink, Shift, WriteLine, Unlock, NextShift,
               Interrupt, TornAppend, Released, Goto
    <3>6. Room'
      BY <3>0, <3>1, <3>5 DEF Room, Holding
    <3>6a. LineAhead'
      <4>1. CASE WriteLine(w) \/ TornAppend(w)
        BY <1>0b, <3>0, <3>1, <4>1 DEF WriteLine, TornAppend, Released, Goto, LineAhead, Holding
      <4>2. ASSUME UNCHANGED written, pc'[w] \in Holding \ {"unlock"}
            PROVE  pc[w] # "unlock"
        BY <1>0b, <1>1, <2>3, <4>2
           DEF WriterStep, Truncate, Unlink, Shift, Move, WriteLine, Unlock, Interrupt,
               TornAppend, Released, Goto, NextShift, Holding
      <4>3. CASE UNCHANGED written
        BY <1>0, <3>0, <3>1, <4>2, <4>3 DEF LineAhead, Holding
      <4>4. QED
        BY <1>1, <2>3, <4>1, <4>3
           DEF WriterStep, Truncate, Unlink, Shift, Move, Unlock, Interrupt
    <3>7. FilesAreBounded'
      <4>1. CASE Truncate(w)
        <5>1. files'[0] = <<>> /\ \A k \in Indices \ {0} : files'[k] = files[k]
          BY <1>0a, <1>0c, <4>1 DEF Truncate
        <5>2. QED
          BY <1>0, <1>0a, <5>1 DEF FilesAreBounded, Exists, Size
      <4>2. CASE Unlink(w)
        BY <1>0, <1>0c, <4>2 DEF Unlink, FilesAreBounded, Exists
      <4>3. CASE Shift(w)
        BY <1>0, <4>3, Renames, RenameFacts DEF FilesAreBounded, Exists, IInv
      <4>4. CASE Move(w)
        BY <1>0, <4>4, Renames, RenameFacts DEF FilesAreBounded, Exists, IInv
      <4>5. ASSUME pc[w] = "append", LineBytes[written + 1] \in Nat,
                   NEW part \in {"whole"} \cup Tears, NEW bytes \in Nat,
                   bytes <= LineBytes[written + 1], files' = Appended(part, bytes)
            PROVE  FilesAreBounded'
        <5>1. /\ Current \in Seq(Pieces) /\ Size(Current) \in Nat
              /\ files'[0] \in Seq(Pieces) /\ Len(files'[0]) = Len(Current) + 1
              /\ files'[0][Len(Current) + 1].end = Size(Current) + bytes
              /\ \A k \in Indices \ {0} : files'[k] = files[k]
          <6>1. /\ Current \in Seq(Pieces)
                /\ Appended(part, bytes)[0] \in Seq(Pieces)
                /\ Len(Appended(part, bytes)[0]) = Len(Current) + 1
                /\ Appended(part, bytes)[0][Len(Current) + 1].end = Size(Current) + bytes
                /\ \A k \in Indices : k # 0 => Appended(part, bytes)[k] = files[k]
            BY <1>0, AppendFacts
          <6>2. QED
            BY <4>5, <6>1, SizeType
        <5>2. Size(files'[0]) = Size(Current) + bytes
          BY <5>1 DEF Size
        <5>3. Current = <<>> \/ Size(Current) + LineBytes[written + 1] <= MaxBytes
          BY <1>0, <1>0a, <4>5, <5>1 DEF Room, TooLong, Current
        <5>4. Size(files'[0]) <= MaxBytes \/ Len(files'[0]) = 1
          BY <1>0a, <4>5, <5>1, <5>2, <5>3
        <5>5. QED
          BY <1>0, <5>1, <5>4 DEF FilesAreBounded, Exists, Size
      <4>6. CASE WriteLine(w)
        BY <4>5, <4>6, Appends DEF WriteLine
      <4>7. CASE TornAppend(w)
        BY <4>5, <4>7, Appends DEF TornAppend
      <4>8. CASE UNCHANGED files
        BY <1>0, <4>8 DEF FilesAreBounded, Exists
      <4>9. QED
        BY <1>1, <2>3, <4>1, <4>2, <4>3, <4>4, <4>6, <4>7, <4>8
           DEF WriterStep, Unlock, Interrupt
    <3>8. QED
      BY <3>2, <3>4, <3>6, <3>6a, <3>7
  <2>4. QED
    BY <2>1, <2>2, <2>3
<1>2. ASSUME UNCHANGED logVars
      PROVE  Exclusion' /\ Rotation' /\ Room' /\ LineAhead' /\ FilesAreBounded'
  BY <1>0, <1>2 DEF logVars, Exclusion, Rotation, Room, LineAhead, FilesAreBounded, TooLong, Exists
<1>3. QED
  BY <1>1, <1>2
     DEF Next, vars, ReaderStep, ListBackups, ListCurrent, Read, ReadRaises, Return
---------------------------------------------------------------------------
(* The order of events                                                       *)

\* The ways a writer's step can change the files: some are emptied or removed,
\* or none; one is renamed upwards; one piece is appended.
Dropped ==
  /\ files' \in [Indices -> Seq(Pieces) \cup {Absent}]
  /\ \A k \in Indices : files'[k] \in {files[k], <<>>, Absent}
  /\ written' = written
Carried ==
  /\ \E k \in Indices : k + 1 \in Indices /\ files' = Renamed(k)
  /\ written' = written
Extended ==
  /\ \E part \in {"whole"} \cup Tears, bytes \in Nat : files' = Appended(part, bytes)
  /\ written' = written + 1

LEMMA WriterChanges ==
  ASSUME IInv, NEW w \in Writers, WriterStep(w)
  PROVE  (Dropped \/ Carried \/ Extended) /\ UNCHANGED readerVars
<1>0. files \in [Indices -> Seq(Pieces) \cup {Absent}] /\ TypeOK
  BY DEF IInv, TypeOK
<1>1. UNCHANGED readerVars
  BY DEF WriterStep, Acquire, Check, Truncate, Unlink, Shift, Move, WriteLine, Unlock,
         Interrupt, TornAppend
<1>2. ASSUME UNCHANGED files, UNCHANGED written PROVE Dropped
  BY <1>0, <1>2 DEF Dropped
<1>3. CASE Truncate(w)
  <2>1. <<>> \in Seq(Pieces)
    OBVIOUS
  <2>2. QED
    BY <1>0, <1>1, <1>3, <2>1 DEF Truncate, Dropped
<1>4. CASE Unlink(w)
  BY <1>0, <1>1, <1>4 DEF Unlink, Dropped
<1>5. CASE Shift(w)
  <2>1. written' = written
    BY <1>5 DEF Shift
  <2>2. QED
    BY <1>1, <1>2, <1>5, <2>1, Renames DEF Carried
<1>6. CASE Move(w)
  <2>1. written' = written /\ 0 + 1 = 1
    BY <1>6 DEF Move
  <2>2. QED
    BY <1>1, <1>6, <2>1, Renames DEF Carried
<1>7. CASE WriteLine(w)
  BY <1>1, <1>7, Appends DEF WriteLine, Extended
<1>8. CASE TornAppend(w)
  BY <1>1, <1>8, Appends DEF TornAppend, Extended
<1>9. CASE UNCHANGED files /\ UNCHANGED written
  BY <1>1, <1>2, <1>9
<1>10. QED
  BY <1>3, <1>4, <1>5, <1>6, <1>7, <1>8, <1>9
     DEF WriterStep, Acquire, Check, Unlock, Interrupt

\* Emptying or removing files keeps the order of the others.
LEMMA DropKeepsOrder ==
  ASSUME IInv, Dropped, UNCHANGED readerVars
  PROVE  FilesInOrder' /\ ReaderIsAhead'
<1>1. /\ FilesInOrder /\ ReaderIsAhead /\ todo \subseteq Indices
      /\ got' = got /\ todo' = todo /\ rpc' = rpc /\ written' = written
  BY DEF IInv, Dropped, readerVars, TypeOK
<1>2. \A k \in Indices : Exists(k)' => files'[k] = <<>> \/ (Exists(k) /\ files'[k] = files[k])
  BY DEF Dropped, Exists
<1>3. \A file : Ascending(<<>>) /\ Before(file, <<>>) /\ Before(<<>>, file)
  BY DEF Ascending, Before
<1>4. FilesInOrder'
  <2>1. ASSUME NEW k \in Indices, Exists(k)' PROVE Dated(files[k])'
    BY <1>1, <1>2, <2>1 DEF FilesInOrder, Dated, Ascending
  <2>2. ASSUME NEW j \in Indices, NEW k \in Indices, j < k, Exists(j)', Exists(k)'
        PROVE  Before(files'[k], files'[j])
    BY <1>1, <1>2, <1>3, <2>2 DEF FilesInOrder
  <2>3. QED
    BY <2>1, <2>2 DEF FilesInOrder, Before
<1>5. ReaderIsAhead'
  <2>1. ASSUME NEW p \in DOMAIN got PROVE Dated(got[p])'
    BY <1>1, <2>1 DEF ReaderIsAhead, Dated, Ascending
  <2>2. ASSUME NEW p \in DOMAIN got, NEW k \in todo, NEW j \in Indices, j <= k, Exists(j)'
        PROVE  Before(got[p], files'[j])
    BY <1>1, <1>2, <1>3, <2>2 DEF ReaderIsAhead
  <2>3. QED
    BY <1>1, <2>1, <2>2 DEF ReaderIsAhead, Before
<1>6. QED
  BY <1>4, <1>5

\* A rename keeps the order of the files, and what it brings to a place below
\* the reader came from a place below the reader.
LEMMA RenameKeepsOrder ==
  ASSUME IInv, Carried, UNCHANGED readerVars
  PROVE  FilesInOrder' /\ ReaderIsAhead'
<1>1. /\ FilesInOrder /\ ReaderIsAhead /\ todo \subseteq Indices /\ Indices \subseteq Int
      /\ got' = got /\ todo' = todo /\ rpc' = rpc /\ written' = written /\ TypeOK
  BY DEF IInv, Carried, readerVars, TypeOK, Indices
<1>2. PICK m \in Indices : m + 1 \in Indices /\ files' = Renamed(m)
  BY DEF Carried
<1>3. DEFINE From(k) == IF k = m + 1 THEN m ELSE k
<1>4. \A k \in Indices :
        Exists(k)' => From(k) \in Indices /\ Exists(From(k)) /\ files'[k] = files[From(k)] /\ k # m
  BY <1>1, <1>2, RenameFacts DEF Exists
<1>5. \A j, k \in Indices : j # m /\ k # m /\ j < k => From(j) < From(k)
  BY <1>1, <1>2
<1>6. \A k \in Indices : From(k) <= k
  BY <1>1, <1>2
<1> HIDE DEF From
<1>7. FilesInOrder'
  <2>1. ASSUME NEW k \in Indices, Exists(k)' PROVE Dated(files[k])'
    BY <1>1, <1>4, <2>1 DEF FilesInOrder, Dated, Ascending
  <2>2. ASSUME NEW j \in Indices, NEW k \in Indices, j < k, Exists(j)', Exists(k)'
        PROVE  Before(files'[k], files'[j])
    BY <1>1, <1>4, <1>5, <2>2 DEF FilesInOrder
  <2>3. QED
    BY <2>1, <2>2 DEF FilesInOrder, Before
<1>8. ReaderIsAhead'
  <2>1. ASSUME NEW p \in DOMAIN got PROVE Dated(got[p])'
    BY <1>1, <2>1 DEF ReaderIsAhead, Dated, Ascending
  <2>2. ASSUME NEW p \in DOMAIN got, NEW k \in todo, NEW j \in Indices, j <= k, Exists(j)'
        PROVE  Before(got[p], files'[j])
    <3>1. From(j) \in Indices /\ From(j) <= k /\ Exists(From(j)) /\ files'[j] = files[From(j)]
      <4>1. From(j) \in Indices /\ Exists(From(j)) /\ files'[j] = files[From(j)]
        BY <1>4, <2>2
      <4>2. From(j) <= j /\ j \in Int /\ k \in Int /\ From(j) \in Int
        BY <1>1, <1>6, <4>1
      <4>3. QED
        BY <2>2, <4>1, <4>2
    <3>2. QED
      BY <1>1, <2>2, <3>1 DEF ReaderIsAhead
  <2>3. QED
    BY <1>1, <2>1, <2>2 DEF ReaderIsAhead, Before
<1>9. QED
  BY <1>7, <1>8

\* The appended event is newer than all events in the files, and than all that
\* the reader has read.
LEMMA AppendKeepsOrder ==
  ASSUME IInv, Extended, UNCHANGED readerVars
  PROVE  FilesInOrder' /\ ReaderIsAhead'
<1>1. /\ FilesInOrder /\ ReaderIsAhead /\ todo \subseteq Indices /\ written \in Nat
      /\ got' = got /\ todo' = todo /\ rpc' = rpc /\ written' = written + 1 /\ TypeOK
  BY DEF IInv, Extended, readerVars, TypeOK
<1>2. 0 \in Indices /\ Indices \subseteq Nat
  BY LogAssumption DEF Indices
<1>3. PICK part \in {"whole"} \cup Tears, bytes \in Nat : files' = Appended(part, bytes)
  BY DEF Extended
<1>4. /\ Current \in Seq(Pieces)
      /\ \A k \in Indices : k # 0 => files'[k] = files[k]
      /\ files'[0] \in Seq(Pieces)
      /\ Len(files'[0]) = Len(Current) + 1
      /\ \A i \in 1..Len(Current) : files'[0][i] = Current[i]
      /\ files'[0][Len(Current) + 1].event = written + 1
  <2>1. /\ Current \in Seq(Pieces)
        /\ \A k \in Indices : k # 0 => Appended(part, bytes)[k] = files[k]
        /\ Appended(part, bytes)[0] \in Seq(Pieces)
        /\ Len(Appended(part, bytes)[0]) = Len(Current) + 1
        /\ \A i \in 1..Len(Current) : Appended(part, bytes)[0][i] = Current[i]
        /\ Appended(part, bytes)[0][Len(Current) + 1].event = written + 1
    BY <1>1, AppendFacts
  <2>2. QED
    BY <1>3, <2>1
<1>5. \A file \in Seq(Pieces) : \A i \in DOMAIN file : file[i].event \in Nat
  <2>1. ASSUME NEW file \in Seq(Pieces), NEW i \in DOMAIN file PROVE file[i].event \in Nat
    <3>1. file[i] \in Pieces
      OBVIOUS
    <3>2. QED
      BY <3>1 DEF Pieces
  <2>2. QED
    BY <2>1
<1>6. Dated(Current)
  <2>1. Dated(<<>>)
    BY DEF Dated, Ascending
  <2>2. QED
    BY <1>1, <1>2, <2>1 DEF Current, FilesInOrder
<1>7. \A i \in DOMAIN files'[0] :
        /\ i \in 1..(Len(Current) + 1)
        /\ i \in 1..Len(Current) \/ i = Len(Current) + 1
  BY <1>4
<1>8. \A k \in Indices : Exists(k) => files[k] \in Seq(Pieces)
  BY <1>1 DEF TypeOK, Exists
<1>9. Dated(files[0])'
  <2>1. \A i \in 1..Len(Current) : files'[0][i].event \in Nat /\ files'[0][i].event <= written
    BY <1>4, <1>5, <1>6 DEF Dated
  <2>2. \A i, j \in 1..Len(Current) : i < j => files'[0][i].event < files'[0][j].event
    BY <1>4, <1>6 DEF Dated, Ascending
  <2>3. Ascending(files'[0])
    <3>1. SUFFICES ASSUME NEW i \in DOMAIN files'[0], NEW j \in DOMAIN files'[0], i < j
                   PROVE  files'[0][i].event < files'[0][j].event
      BY DEF Ascending
    <3>2. i \in 1..Len(Current) /\ Len(Current) \in Nat
      BY <1>4, <1>7, <3>1
    <3>3. QED
      BY <1>1, <1>4, <1>7, <2>1, <2>2, <3>1, <3>2
  <2>4. \A i \in DOMAIN files'[0] : files'[0][i].event <= written'
    BY <1>1, <1>4, <1>7, <2>1
  <2>5. QED
    BY <2>3, <2>4 DEF Dated, Ascending
<1>10. ASSUME NEW file \in Seq(Pieces), Dated(file), Exists(0) => Before(file, files[0])
       PROVE  Before(file, files'[0])
  <2>1. Before(file, Current)
    BY <1>10 DEF Current, Before
  <2>2. QED
    BY <1>1, <1>4, <1>5, <1>7, <1>10, <2>1 DEF Dated, Before
<1>11. FilesInOrder'
  <2>1. ASSUME NEW k \in Indices, Exists(k)' PROVE Dated(files[k])'
    <3>1. CASE k = 0
      BY <1>9, <3>1
    <3>2. CASE k # 0
      <4>1. Exists(k) /\ files'[k] = files[k]
        BY <1>4, <2>1, <3>2 DEF Exists
      <4>2. \A i \in DOMAIN files[k] : files[k][i].event \in Nat
        BY <1>5, <1>8, <4>1
      <4>3. QED
        BY <1>1, <4>1, <4>2 DEF FilesInOrder, Dated, Ascending
    <3>3. QED
      BY <3>1, <3>2
  <2>2. ASSUME NEW j \in Indices, NEW k \in Indices, j < k, Exists(j)', Exists(k)'
        PROVE  Before(files'[k], files'[j])
    <3>1. k # 0 /\ Exists(k) /\ files'[k] = files[k]
      BY <1>2, <1>4, <2>2 DEF Exists
    <3>2. CASE j = 0
      BY <1>1, <1>2, <1>8, <1>10, <2>2, <3>1, <3>2 DEF FilesInOrder
    <3>3. CASE j # 0
      BY <1>1, <1>4, <2>2, <3>1, <3>3 DEF FilesInOrder, Exists
    <3>4. QED
      BY <3>2, <3>3
  <2>3. QED
    BY <2>1, <2>2 DEF FilesInOrder, Before
<1>12. ReaderIsAhead'
  <2>0. \A p \in DOMAIN got : got[p] \in Seq(Pieces)
    BY <1>1 DEF TypeOK
  <2>1. ASSUME NEW p \in DOMAIN got PROVE Dated(got[p])'
    <3>1. \A i \in DOMAIN got[p] : got[p][i].event \in Nat
      BY <1>5, <2>0
    <3>2. QED
      BY <1>1, <3>1 DEF ReaderIsAhead, Dated, Ascending
  <2>2. ASSUME NEW p \in DOMAIN got, NEW k \in todo, NEW j \in Indices, j <= k, Exists(j)'
        PROVE  Before(got[p], files'[j])
    <3>1. CASE j = 0
      BY <1>1, <1>2, <1>10, <2>0, <2>2, <3>1 DEF ReaderIsAhead
    <3>2. CASE j # 0
      BY <1>1, <1>4, <2>2, <3>2 DEF ReaderIsAhead, Exists
    <3>3. QED
      BY <3>1, <3>2
  <2>3. QED
    BY <1>1, <2>1, <2>2 DEF ReaderIsAhead, Before
<1>13. QED
  BY <1>11, <1>12

\* The reader passes the place it reads, the highest it has left: what is
\* below is newer than the file it finds there.
LEMMA ReadKeepsOrder ==
  ASSUME IInv, Read
  PROVE  ReaderIsAhead' /\ ReaderInOrder'
<1>1. /\ FilesInOrder /\ ReaderIsAhead /\ ReaderInOrder
      /\ todo \subseteq Indices /\ got \in Seq(Seq(Pieces)) /\ Indices \subseteq Int
      /\ files' = files /\ written' = written /\ rpc' = rpc /\ rpc = "reading"
  BY DEF IInv, TypeOK, Indices, Read, logVars
<1>2. PICK m \in todo : /\ \A j \in todo : j <= m
                        /\ Exists(m)
                        /\ got' = Append(got, files[m])
                        /\ todo' = todo \ {m}
  BY DEF Read, IsNext
<1>3. files[m] \in Seq(Pieces)
  BY <1>1, <1>2 DEF IInv, TypeOK, Exists
<1>4. /\ DOMAIN got' = 1..(Len(got) + 1)
      /\ DOMAIN got = 1..Len(got) /\ Len(got) \in Nat
      /\ \A p \in DOMAIN got : got'[p] = got[p]
      /\ got'[Len(got) + 1] = files[m]
  BY <1>1, <1>2, <1>3
<1>5. Dated(files[m]) /\ \A p \in DOMAIN got : Before(got[p], files[m])
  BY <1>1, <1>2 DEF FilesInOrder, ReaderIsAhead
<1>6. ReaderInOrder'
  <2>1. ASSUME NEW p \in DOMAIN got' PROVE Ascending(got'[p])
    BY <1>1, <1>4, <1>5, <2>1 DEF ReaderInOrder, Dated
  <2>2. ASSUME NEW p \in DOMAIN got', NEW q \in DOMAIN got', p < q
        PROVE  Before(got'[p], got'[q])
    BY <1>1, <1>4, <1>5, <2>2 DEF ReaderInOrder
  <2>3. QED
    BY <2>1, <2>2 DEF ReaderInOrder, Ascending, Before
<1>7. ReaderIsAhead'
  <2>1. ASSUME NEW p \in DOMAIN got' PROVE Dated(got[p])'
    <3>1. Dated(got'[p])
      BY <1>1, <1>4, <1>5, <2>1 DEF ReaderIsAhead
    <3>2. QED
      BY <1>1, <3>1 DEF Dated, Ascending
  <2>2. ASSUME NEW p \in DOMAIN got', NEW k \in todo', NEW j \in Indices, j <= k, Exists(j)
        PROVE  Before(got'[p], files[j])
    <3>1. k \in todo /\ j < m
      BY <1>1, <1>2, <2>2
    <3>2. CASE p \in DOMAIN got
      BY <1>1, <1>4, <2>2, <3>1, <3>2 DEF ReaderIsAhead
    <3>3. CASE p = Len(got) + 1
      BY <1>1, <1>2, <1>4, <2>2, <3>1, <3>3 DEF FilesInOrder
    <3>4. QED
      BY <1>4, <2>2, <3>2, <3>3
  <2>3. QED
    BY <1>1, <2>1, <2>2 DEF ReaderIsAhead, Before, Exists
<1>8. QED
  BY <1>6, <1>7

LEMMA OrderStep ==
  IInv /\ [Next]_vars => FilesInOrder' /\ ReaderIsAhead' /\ ReaderInOrder'
<1> SUFFICES ASSUME IInv, [Next]_vars
             PROVE  FilesInOrder' /\ ReaderIsAhead' /\ ReaderInOrder'
  OBVIOUS
<1>0. FilesInOrder /\ ReaderIsAhead /\ ReaderInOrder
  BY DEF IInv
<1>1. ASSUME NEW w \in Writers, WriterStep(w)
      PROVE  FilesInOrder' /\ ReaderIsAhead' /\ ReaderInOrder'
  <2>1. UNCHANGED readerVars /\ FilesInOrder' /\ ReaderIsAhead'
    BY <1>1, WriterChanges, DropKeepsOrder, RenameKeepsOrder, AppendKeepsOrder
  <2>2. QED
    BY <1>0, <2>1 DEF readerVars, ReaderInOrder, Ascending, Before
<1>2. ASSUME UNCHANGED logVars PROVE FilesInOrder'
  BY <1>0, <1>2 DEF logVars, FilesInOrder, Dated, Ascending, Before, Exists
<1>3. ASSUME UNCHANGED logVars, UNCHANGED got,
             got = <<>> \/ (todo' = todo /\ rpc' \notin {"idle", "listed"})
      PROVE  ReaderIsAhead' /\ ReaderInOrder'
  BY <1>0, <1>3
     DEF logVars, ReaderIsAhead, ReaderInOrder, Dated, Ascending, Before, Exists
<1>4. CASE ListBackups
  BY <1>0, <1>2, <1>3, <1>4 DEF ListBackups, ReaderIsAhead
<1>5. CASE ListCurrent
  BY <1>0, <1>2, <1>3, <1>5 DEF ListCurrent, ReaderIsAhead
<1>6. CASE Read
  BY <1>2, <1>6, ReadKeepsOrder DEF Read
<1>7. CASE ReadRaises \/ Return
  BY <1>0, <1>2, <1>3, <1>7 DEF ReadRaises, Return
<1>8. CASE UNCHANGED vars
  BY <1>0, <1>8
     DEF vars, logVars, readerVars, FilesInOrder, ReaderIsAhead, ReaderInOrder, Dated,
         Ascending, Before, Exists
<1>9. QED
  BY <1>1, <1>4, <1>5, <1>6, <1>7, <1>8 DEF Next, ReaderStep
---------------------------------------------------------------------------
(* What rotations and interruptions leave                                    *)

\* A rotation has a file to carry, and an empty place to carry it to; there is
\* nothing beyond the last backup.
Places ==
  /\ \A k \in Indices : k > backups => ~Exists(k)
  /\ \A w \in Writers :
       /\ pc[w] \in {"unlink", "shift", "move"} => Exists(0)
       /\ pc[w] = "truncate" => backups = 0
       /\ pc[w] = "move" => cursor[w] = 0
       /\ pc[w] \in {"shift", "move"} => ~Exists(cursor[w] + 1)

\* The empty place a rotation works with is no gap yet; an interruption makes
\* it one.
GapCount ==
  /\ (\A w \in Writers : pc[w] \notin {"shift", "move"}) => Cardinality(Gaps) <= interruptions
  /\ \A w \in Writers : pc[w] \in {"shift", "move"} =>
       Cardinality(Gaps \ {cursor[w] + 1}) <= interruptions

\* An event that is gone went with all that are older.
OldestGoFirst == \A e \in 1..written, old \in HeldEvents : old <= e => e \in HeldEvents

\* The events of a file are consecutive, and those of its pieces that are whole
\* are the logged ones; the current file ends with the last event.
Numbered(file) ==
  \A i \in DOMAIN file :
    /\ file[i].part = "whole" <=> file[i].event \in logged
    /\ i # 1 => file[i].event = file[i - 1].event + 1
AllNumbered ==
  /\ \A k \in Indices : Exists(k) => Numbered(files[k])
  /\ Exists(0) /\ files[0] # <<>> => files[0][Len(files[0])].event = written

TornEvents == (1..written) \ logged
TornCount == Cardinality(TornEvents) <= interruptions

KeptInv == Places /\ GapCount /\ OldestGoFirst /\ AllNumbered /\ TornCount

\* The events of the files as they are, and as a step leaves them.
LEMMA HeldEventsAre ==
  /\ \A e : e \in HeldEvents <=>
       \E k \in Indices : files[k] # Absent /\ \E i \in DOMAIN files[k] : e = files[k][i].event
  /\ \A e : e \in HeldEvents' <=>
       \E k \in Indices : files'[k] # Absent /\ \E i \in DOMAIN files'[k] : e = files'[k][i].event
  BY DEF HeldEvents, EventsOf, Exists

\* There are finitely many torn events.
LEMMA TornEventsAreFinite == written \in Nat => IsFiniteSet(TornEvents)
<1> SUFFICES ASSUME written \in Nat PROVE IsFiniteSet(TornEvents)
  OBVIOUS
<1>1. IsFiniteSet(1..written)
  BY FS_Interval
<1>2. TornEvents \in SUBSET (1..written)
  BY DEF TornEvents
<1>3. QED
  BY <1>1, <1>2, FS_Subset

\* There are no more gaps than backups.
LEMMA GapsAreFinite == IsFiniteSet(Gaps)
<1>1. IsFiniteSet(1..Depth)
  BY LogAssumption, FS_Interval
<1>2. Gaps \in SUBSET (1..Depth)
  BY DEF Gaps
<1>3. QED
  BY <1>1, <1>2, FS_Subset

\* The log starts without files.
LEMMA InitKept == Init => KeptInv
<1> SUFFICES ASSUME Init PROVE KeptInv
  OBVIOUS
<1>1. \A k \in Indices : ~Exists(k)
  BY DEF Init, Exists
<1>2. Gaps = {} /\ HeldEvents = {} /\ TornEvents = {}
  <2>1. Gaps = {}
    BY <1>1, LogAssumption DEF Gaps, Indices
  <2>2. HeldEvents = {}
    <3>1. ASSUME NEW e \in HeldEvents PROVE FALSE
      BY <1>1, HeldEventsAre DEF Exists
    <3>2. QED
      BY <3>1
  <2>3. TornEvents = {}
    BY DEF Init, TornEvents
  <2>4. QED
    BY <2>1, <2>2, <2>3
<1>3. QED
  BY <1>1, <1>2, FS_EmptySet, LogAssumption
     DEF Init, KeptInv, Places, GapCount, OldestGoFirst, AllNumbered, TornCount, Indices

\* A writer inside write() is alone in it.
LEMMA Alone ==
  ASSUME IInv, NEW w \in Writers, WriterStep(w), ~Acquire(w)
  PROVE  /\ pc[w] \in Holding
         /\ \A v \in Writers \ {w} : /\ pc[v] = "idle" /\ pc'[v] = "idle"
                                     /\ cursor'[v] = cursor[v]
         /\ pc' \in [Writers -> {"idle"} \cup Holding]
         /\ UNCHANGED backups
<1>0. pc \in [Writers -> {"idle"} \cup Holding] /\ cursor \in [Writers -> Indices]
  BY DEF IInv, TypeOK
<1>1. pc[w] \in Holding
  BY DEF WriterStep, Check, Truncate, Unlink, Shift, Move, WriteLine, Unlock, Interrupt,
         TornAppend, Holding
<1>2. /\ \A v \in Writers \ {w} : pc'[v] = pc[v] /\ cursor'[v] = cursor[v]
      /\ UNCHANGED backups
  BY <1>0 DEF WriterStep, Check, Truncate, Unlink, Shift, Move, WriteLine, Unlock, Interrupt,
              TornAppend, Released, Goto, NextShift
<1>3. \A v \in Writers \ {w} : pc[v] = "idle"
  BY <1>0, <1>1 DEF IInv, Exclusion
<1>4. pc' \in [Writers -> {"idle"} \cup Holding]
  BY TypeStep DEF Next, TypeOK
<1>5. QED
  BY <1>1, <1>2, <1>3, <1>4

\* The step of a writer as it goes through a rotation and an append, one
\* disjunct per way the files change.
LEMMA PlacesStep ==
  ASSUME IInv, Places, NEW w \in Writers, WriterStep(w)
  PROVE  Places'
<1>0. /\ backups \in 0..Depth /\ Depth \in Nat /\ 0 \in Indices /\ Indices \subseteq Nat
      /\ pc \in [Writers -> {"idle"} \cup Holding] /\ cursor \in [Writers -> Indices]
      /\ files \in [Indices -> Seq(Pieces) \cup {Absent}] /\ TypeOK
  BY LogAssumption DEF IInv, TypeOK, Indices
<1>1. CASE Acquire(w)
  BY <1>0, <1>1 DEF Acquire, Places, Exists, Goto
<1>2. CASE Check(w)
  BY <1>0, <1>2 DEF Check, Places, Exists, Goto, TooLong
<1>3. ASSUME ~Acquire(w), ~Check(w),
             \A k \in Indices : k > backups => files'[k] = Absent,
             pc'[w] \in {"unlink", "shift", "move"} => files'[0] # Absent,
             pc'[w] # "truncate",
             pc'[w] = "move" => cursor'[w] = 0,
             pc'[w] \in {"shift", "move"} => files'[cursor'[w] + 1] = Absent
      PROVE  Places'
  <2>1. /\ \A v \in Writers \ {w} : pc'[v] = "idle"
        /\ UNCHANGED backups
    BY <1>3, Alone
  <2>2. QED
    BY <1>3, <2>1 DEF Places, Exists
<1>4. CASE Truncate(w)
  <2>1. /\ files' = [files EXCEPT ![0] = <<>>] /\ pc'[w] = "append" /\ ~Acquire(w) /\ ~Check(w)
    BY <1>0, <1>4 DEF Truncate, Goto, Acquire, Check
  <2>2. QED
    BY <1>0, <1>3, <2>1 DEF Places, Exists
<1>5. CASE Unlink(w)
  <2>1. /\ files' = [files EXCEPT ![backups] = Absent] /\ ~Acquire(w) /\ ~Check(w)
        /\ backups >= 1 /\ backups \in Indices /\ Exists(0)
        /\ cursor'[w] = backups - 1
        /\ pc'[w] = IF backups - 1 = 0 THEN "move" ELSE "shift"
    BY <1>0, <1>5
       DEF Unlink, NextShift, Goto, Acquire, Check, Places, IInv, Rotation, Indices
  <2>2. files'[cursor'[w] + 1] = Absent /\ files'[0] # Absent
    BY <1>0, <2>1 DEF Exists
  <2>3. QED
    BY <1>0, <1>3, <2>1, <2>2 DEF Places, Exists
<1>6. CASE Shift(w)
  <2>1. /\ pc[w] = "shift" /\ ~Acquire(w) /\ ~Check(w)
        /\ cursor[w] \in 1..(backups - 1)
        /\ cursor[w] \in Indices /\ cursor[w] + 1 \in Indices
        /\ files' = IF Exists(cursor[w]) THEN Renamed(cursor[w]) ELSE files
        /\ cursor'[w] = cursor[w] - 1
        /\ pc'[w] = IF cursor[w] - 1 = 0 THEN "move" ELSE "shift"
        /\ Exists(0)
    BY <1>0, <1>6, Renames
       DEF Shift, NextShift, Goto, Acquire, Check, Renamed, Places
  <2>2. files'[cursor[w]] = Absent /\ files'[0] = files[0]
    BY <1>0, <2>1, RenameFacts DEF Exists
  <2>3. \A k \in Indices : k > backups => files'[k] = Absent
    BY <1>0, <2>1, RenameFacts DEF Places, Exists
  <2>4. (cursor[w] - 1) + 1 = cursor[w]
    BY <2>1
  <2>5. QED
    BY <1>0, <1>3, <2>1, <2>2, <2>3, <2>4 DEF Exists
<1>7. CASE Move(w)
  <2>1. /\ files' = Renamed(0) /\ ~Acquire(w) /\ ~Check(w) /\ pc'[w] = "append"
        /\ 0 \in Indices /\ 1 \in Indices /\ backups >= 1
    BY <1>0, <1>7, Renames DEF Move, Goto, Acquire, Check, IInv, Rotation
  <2>2. \A k \in Indices : k > backups => files'[k] = Absent
    BY <1>0, <2>1, RenameFacts DEF Places, Exists
  <2>3. QED
    BY <1>3, <2>1, <2>2
<1>8. CASE WriteLine(w) \/ TornAppend(w)
  <2>1. /\ \E part \in {"whole"} \cup Tears, bytes \in Nat : files' = Appended(part, bytes)
        /\ pc'[w] \in {"unlock", "idle"} /\ ~Acquire(w) /\ ~Check(w)
    BY <1>0, <1>8, Appends DEF WriteLine, TornAppend, Released, Goto, Acquire, Check
  <2>2. \A k \in Indices : k > backups => files'[k] = Absent
    BY <1>0, <2>1, AppendFacts DEF Places, Exists
  <2>3. QED
    BY <1>3, <2>1, <2>2
<1>9. CASE Unlock(w) \/ Interrupt(w)
  <2>1. files' = files /\ pc'[w] = "idle" /\ ~Acquire(w) /\ ~Check(w)
    BY <1>0, <1>9 DEF Unlock, Interrupt, Released, Goto, Acquire, Check, Holding
  <2>2. QED
    BY <1>3, <2>1 DEF Places, Exists
<1>10. QED
  BY <1>1, <1>2, <1>4, <1>5, <1>6, <1>7, <1>8, <1>9 DEF WriterStep
---------------------------------------------------------------------------
(* Gaps                                                                      *)

\* A finite set loses one element at most when one is taken out, and a part of
\* it is not larger.
LEMMA Counting ==
  ASSUME NEW S, IsFiniteSet(S)
  PROVE  /\ Cardinality(S) \in Nat
         /\ \A x : /\ Cardinality(S \ {x}) \in Nat
                   /\ Cardinality(S) <= Cardinality(S \ {x}) + 1
                   /\ x \notin S => S \ {x} = S
         /\ \A T : T \subseteq S => Cardinality(T) \in Nat /\ Cardinality(T) <= Cardinality(S)
<1>1. Cardinality(S) \in Nat
  BY FS_CardinalityType
<1>2. ASSUME NEW x
      PROVE  /\ Cardinality(S \ {x}) \in Nat
             /\ Cardinality(S) <= Cardinality(S \ {x}) + 1
             /\ x \notin S => S \ {x} = S
  <2>1. /\ IsFiniteSet(S \ {x})
        /\ Cardinality(S \ {x}) = IF x \in S THEN Cardinality(S) - 1 ELSE Cardinality(S)
    BY FS_RemoveElement
  <2>2. Cardinality(S \ {x}) \in Nat
    BY <2>1, FS_CardinalityType
  <2>3. QED
    BY <1>1, <2>1, <2>2
<1>3. ASSUME NEW T, T \subseteq S
      PROVE  Cardinality(T) \in Nat /\ Cardinality(T) <= Cardinality(S)
  <2>1. T \in SUBSET S
    BY <1>3
  <2>2. IsFiniteSet(T) /\ Cardinality(T) <= Cardinality(S)
    BY <2>1, FS_Subset
  <2>3. QED
    BY <2>2, FS_CardinalityType
<1>4. QED
  BY <1>1, <1>2, <1>3

\* What is a gap depends on the backups alone.
LEMMA SameGaps ==
  ASSUME \A k \in 1..Depth : files'[k] = files[k]
  PROVE  Gaps' = Gaps
  BY DEF Gaps, Exists

\* A rename fills the place the rotation works with and empties the next one
\* down: no other gap appears.
LEMMA GapsMove ==
  ASSUME TypeOK, NEW k \in Indices, k + 1 \in Indices, Exists(k), ~Exists(k + 1),
         files' = Renamed(k)
  PROVE  Gaps' \ {k} \subseteq Gaps \ {k + 1}
<1>0. Depth \in Nat /\ k \in 0..Depth /\ k + 1 \in 0..Depth
  BY LogAssumption DEF Indices
<1>1. /\ files'[k + 1] = files[k]
      /\ files'[k] = Absent
      /\ \A j \in 1..Depth : j # k /\ j # k + 1 => files'[j] = files[j]
  BY RenameFacts, <1>0 DEF Indices
<1>2. ASSUME NEW g \in Gaps', g # k PROVE g \in Gaps /\ g # k + 1
  <2>1. g \in 1..Depth /\ files'[g] = Absent
    BY <1>2 DEF Gaps, Exists
  <2>2. PICK j \in 1..Depth : g < j /\ files'[j] # Absent
    BY <1>2 DEF Gaps, Exists
  <2>3. g # k + 1 /\ files[g] = Absent
    BY <1>0, <1>1, <1>2, <2>1 DEF Exists
  <2>4. CASE j = k + 1
    <3>1. g < k /\ k \in 1..Depth /\ files[k] # Absent
      BY <1>0, <1>2, <2>1, <2>2, <2>4 DEF Exists
    <3>2. QED
      BY <2>1, <2>3, <3>1 DEF Gaps, Exists
  <2>5. CASE j # k + 1
    <3>1. files[j] # Absent
      BY <1>1, <2>2, <2>5
    <3>2. QED
      BY <2>1, <2>2, <2>3, <3>1 DEF Gaps, Exists
  <2>6. QED
    BY <2>4, <2>5
<1>3. QED
  BY <1>2

\* A step of a writer makes no gap, and an interruption makes one at most.
LEMMA GapCountStep ==
  ASSUME IInv, Places, GapCount, NEW w \in Writers, WriterStep(w)
  PROVE  GapCount'
<1>0. /\ backups \in 0..Depth /\ Depth \in Nat /\ 0 \in Indices /\ Indices \subseteq Nat
      /\ pc \in [Writers -> {"idle"} \cup Holding] /\ cursor \in [Writers -> Indices]
      /\ files \in [Indices -> Seq(Pieces) \cup {Absent}] /\ TypeOK
      /\ 1..Depth \subseteq Indices /\ interruptions \in Nat
  BY LogAssumption DEF IInv, TypeOK, Indices
<1>0a. IsFiniteSet(Gaps)
  BY GapsAreFinite
<1>0b. \A x : IsFiniteSet(Gaps \ {x})
  BY <1>0a, FS_RemoveElement
<1>1. CASE Acquire(w)
  <2>1. Gaps' = Gaps
    BY <1>1, SameGaps DEF Acquire
  <2>2. /\ pc[w] = "idle" /\ pc'[w] = "check" /\ \A v \in Writers \ {w} : pc'[v] = pc[v]
        /\ cursor' = cursor /\ interruptions' = interruptions
    BY <1>0, <1>1 DEF Acquire, Goto
  <2>3. QED
    BY <2>1, <2>2 DEF GapCount
<1>2. ASSUME ~Acquire(w),
             pc'[w] \in {"shift", "move"} =>
               Cardinality(Gaps' \ {cursor'[w] + 1}) <= interruptions',
             pc'[w] \notin {"shift", "move"} => Cardinality(Gaps') <= interruptions'
      PROVE  GapCount'
  <2>1. \A v \in Writers \ {w} : pc'[v] = "idle"
    BY <1>2, Alone
  <2>2. QED
    BY <1>2, <2>1 DEF GapCount
<1>3. ASSUME ~Acquire(w)
      PROVE  /\ pc[w] \notin {"shift", "move"} => Cardinality(Gaps) <= interruptions
             /\ pc[w] \in {"shift", "move"} => Cardinality(Gaps \ {cursor[w] + 1}) <= interruptions
  <2>1. \A v \in Writers \ {w} : pc[v] = "idle"
    BY <1>3, Alone
  <2>2. QED
    BY <2>1 DEF GapCount
<1>4. CASE Check(w) \/ Unlock(w)
  <2>1. Gaps' = Gaps
    BY <1>4, SameGaps DEF Check, Unlock
  <2>2. /\ ~Acquire(w) /\ pc[w] \notin {"shift", "move"} /\ pc'[w] \notin {"shift", "move"}
        /\ interruptions' = interruptions
    BY <1>0, <1>4 DEF Check, Unlock, Goto, Acquire
  <2>3. QED
    BY <1>2, <1>3, <2>1, <2>2
<1>5. CASE Truncate(w) \/ WriteLine(w) \/ TornAppend(w)
  <2>1. \A k \in 1..Depth : files'[k] = files[k]
    <3>1. CASE Truncate(w)
      BY <1>0, <3>1 DEF Truncate
    <3>2. CASE WriteLine(w) \/ TornAppend(w)
      <4>1. PICK part \in {"whole"} \cup Tears, bytes \in Nat : files' = Appended(part, bytes)
        BY <3>2, Appends
      <4>2. QED
        BY <1>0, <4>1, AppendFacts
    <3>3. QED
      BY <1>5, <3>1, <3>2
  <2>2. /\ ~Acquire(w) /\ pc[w] \notin {"shift", "move"} /\ pc'[w] \notin {"shift", "move"}
        /\ interruptions' \in {interruptions, interruptions + 1}
    BY <1>0, <1>5 DEF Truncate, WriteLine, TornAppend, Released, Goto, Acquire
  <2>3. Cardinality(Gaps) \in Nat
    BY <1>0a, Counting
  <2>4. QED
    BY <1>0, <1>2, <1>3, <2>1, <2>2, <2>3, SameGaps
<1>6. CASE Unlink(w)
  <2>1. /\ ~Acquire(w) /\ pc[w] = "unlink" /\ files' = [files EXCEPT ![backups] = Absent]
        /\ backups \in Indices /\ cursor'[w] = backups - 1 /\ interruptions' = interruptions
    BY <1>0, <1>6 DEF Unlink, NextShift, Acquire, Indices
  <2>2. \A k \in 1..Depth : k > backups => files'[k] = Absent
    BY <1>0, <2>1 DEF Places, Exists
  <2>3. /\ files'[backups] = Absent
        /\ \A k \in 1..Depth : k # backups => files'[k] = files[k]
    BY <1>0, <2>1
  <2>4. ASSUME NEW g \in Gaps' PROVE g \in Gaps
    <3>1. g \in 1..Depth /\ files'[g] = Absent
      BY <2>4 DEF Gaps, Exists
    <3>2. PICK j \in 1..Depth : g < j /\ files'[j] # Absent
      BY <2>4 DEF Gaps, Exists
    <3>3. j < backups
      BY <1>0, <2>2, <2>3, <3>2
    <3>4. files[j] # Absent /\ files[g] = Absent
      BY <1>0, <2>3, <3>1, <3>2, <3>3
    <3>5. QED
      BY <3>1, <3>2, <3>4 DEF Gaps, Exists
  <2>5. Gaps' \subseteq Gaps /\ Gaps' \ {cursor'[w] + 1} \subseteq Gaps
    BY <2>4
  <2>6. /\ Cardinality(Gaps) \in Nat /\ Cardinality(Gaps') \in Nat
        /\ Cardinality(Gaps') <= Cardinality(Gaps)
        /\ Cardinality(Gaps' \ {cursor'[w] + 1}) \in Nat
        /\ Cardinality(Gaps' \ {cursor'[w] + 1}) <= Cardinality(Gaps)
    BY <1>0a, <2>5, Counting
  <2>7. QED
    BY <1>0, <1>2, <1>3, <2>1, <2>6
<1>7. CASE Shift(w)
  <2> DEFINE c == cursor[w]
  <2>0. /\ ~Acquire(w) /\ pc[w] = "shift"
        /\ c \in 1..(backups - 1)
        /\ c \in Indices /\ c + 1 \in Indices
        /\ files' = IF Exists(c) THEN Renamed(c) ELSE files
        /\ cursor'[w] = c - 1
        /\ pc'[w] = IF c - 1 = 0 THEN "move" ELSE "shift"
        /\ interruptions' = interruptions
    BY <1>0, <1>7, Renames DEF Shift, NextShift, Goto, Acquire, Renamed
  <2>1. /\ ~Acquire(w) /\ pc[w] = "shift" /\ c \in 1..(backups - 1)
        /\ c \in Indices /\ c + 1 \in Indices
        /\ ~Exists(c + 1) /\ files' = IF Exists(c) THEN Renamed(c) ELSE files
        /\ cursor'[w] + 1 = c /\ pc'[w] \in {"shift", "move"}
        /\ interruptions' = interruptions
    BY <2>0 DEF Places
  <2>2. Cardinality(Gaps \ {c + 1}) \in Nat
    BY <1>0a, Counting
  <2>3. CASE Exists(c)
    <3>1. Gaps' \ {c} \subseteq Gaps \ {c + 1}
      BY <1>0, <2>1, <2>3, GapsMove
    <3>2. /\ Cardinality(Gaps' \ {c}) \in Nat
          /\ Cardinality(Gaps' \ {c}) <= Cardinality(Gaps \ {c + 1})
      BY <1>0b, <3>1, Counting
    <3>3. Cardinality(Gaps \ {c + 1}) <= interruptions
      BY <1>3, <2>1
    <3>4. Cardinality(Gaps' \ {c}) <= interruptions
      BY <1>0, <2>2, <3>2, <3>3
    <3>5. QED
      BY <1>2, <2>1, <3>4
  <2>4. CASE ~Exists(c)
    <3>1. Gaps' = Gaps
      BY <2>1, <2>4, SameGaps
    <3>2. c \in Gaps <=> c + 1 \in Gaps
      <4>1. c \in 1..Depth /\ c + 1 \in 1..Depth
        BY <1>0, <2>1
      <4>2. ASSUME c \in Gaps PROVE c + 1 \in Gaps
        <5>1. PICK j \in 1..Depth : c < j /\ Exists(j)
          BY <4>2 DEF Gaps
        <5>2. c + 1 < j
          BY <2>1, <4>1, <5>1
        <5>3. QED
          BY <2>1, <4>1, <5>1, <5>2 DEF Gaps
      <4>3. ASSUME c + 1 \in Gaps PROVE c \in Gaps
        <5>1. PICK j \in 1..Depth : c + 1 < j /\ Exists(j)
          BY <4>3 DEF Gaps
        <5>2. c < j
          BY <4>1, <5>1
        <5>3. QED
          BY <2>4, <4>1, <5>1, <5>2 DEF Gaps
      <4>4. QED
        BY <4>2, <4>3
    <3>3. Cardinality(Gaps \ {c}) = Cardinality(Gaps \ {c + 1})
      <4>1. /\ Cardinality(Gaps \ {c}) = IF c \in Gaps THEN Cardinality(Gaps) - 1
                                                        ELSE Cardinality(Gaps)
            /\ Cardinality(Gaps \ {c + 1}) = IF c + 1 \in Gaps THEN Cardinality(Gaps) - 1
                                                                ELSE Cardinality(Gaps)
        BY <1>0a, FS_RemoveElement
      <4>2. QED
        BY <3>2, <4>1
    <3>4. QED
      BY <1>2, <1>3, <2>1, <3>1, <3>3
  <2>5. QED
    BY <2>3, <2>4
<1>8. CASE Move(w)
  <2>1. /\ ~Acquire(w) /\ pc[w] = "move" /\ 0 \in Indices /\ 0 + 1 \in Indices /\ cursor[w] = 0
        /\ ~Exists(0 + 1) /\ Exists(0) /\ files' = Renamed(0)
        /\ pc'[w] = "append" /\ interruptions' = interruptions
    BY <1>0, <1>8, Renames DEF Move, Goto, Acquire, Places
  <2>2. Gaps' \ {0} \subseteq Gaps \ {0 + 1}
    BY <1>0, <2>1, GapsMove
  <2>3. 0 \notin Gaps'
    BY <1>0 DEF Gaps
  <2>4. Gaps' \subseteq Gaps \ {cursor[w] + 1}
    BY <2>1, <2>2, <2>3
  <2>5. /\ Cardinality(Gaps') \in Nat /\ Cardinality(Gaps \ {cursor[w] + 1}) \in Nat
        /\ Cardinality(Gaps') <= Cardinality(Gaps \ {cursor[w] + 1})
    <3>1. IsFiniteSet(Gaps \ {cursor[w] + 1})
      BY <1>0b
    <3>2. QED
      BY <2>4, <3>1, Counting
  <2>6. QED
    BY <1>0, <1>2, <1>3, <2>1, <2>5
<1>9. CASE Interrupt(w)
  <2>1. /\ ~Acquire(w) /\ pc'[w] = "idle" /\ interruptions' = interruptions + 1
        /\ Gaps' = Gaps
    BY <1>0, <1>9, SameGaps DEF Interrupt, Released, Goto, Acquire, Holding
  <2>2. /\ Cardinality(Gaps) \in Nat /\ Cardinality(Gaps \ {cursor[w] + 1}) \in Nat
        /\ Cardinality(Gaps) <= Cardinality(Gaps \ {cursor[w] + 1}) + 1
    BY <1>0a, Counting
  <2>3. QED
    BY <1>0, <1>2, <1>3, <2>1, <2>2
<1>10. QED
  BY <1>1, <1>4, <1>5, <1>6, <1>7, <1>8, <1>9 DEF WriterStep
---------------------------------------------------------------------------
(* What is kept                                                              *)

\* A step of a writer, as far as files, written and logged go: one disjunct for
\* each way to change them.
LEMMA FileSteps ==
  ASSUME IInv, Places, NEW w \in Writers, WriterStep(w)
  PROVE  \/ files' = files /\ written' = written /\ logged' = logged
         \/ /\ files' = [files EXCEPT ![0] = <<>>]
            /\ backups = 0 /\ written' = written /\ logged' = logged
         \/ /\ files' = [files EXCEPT ![backups] = Absent]
            /\ backups \in Indices \ {0} /\ written' = written /\ logged' = logged
         \/ /\ \E k \in Indices : k + 1 \in Indices /\ ~Exists(k + 1) /\ files' = Renamed(k)
            /\ written' = written /\ logged' = logged
         \/ \E part \in {"whole"} \cup Tears, bytes \in Nat :
              /\ files' = Appended(part, bytes)
              /\ written' = written + 1
              /\ logged' = IF part = "whole" THEN logged \cup {written + 1} ELSE logged
<1>0. /\ backups \in 0..Depth /\ Depth \in Nat /\ Indices = 0..Depth
      /\ Tears \subseteq {"noeol", "partial", "cut"}
  BY LogAssumption DEF IInv, TypeOK, Indices
<1>1. CASE Acquire(w) \/ Check(w) \/ Unlock(w) \/ Interrupt(w)
  BY <1>1 DEF Acquire, Check, Unlock, Interrupt
<1>2. CASE Truncate(w)
  BY <1>2 DEF Truncate, Places
<1>3. CASE Unlink(w)
  BY <1>0, <1>3 DEF Unlink, IInv, Rotation
<1>4. CASE Shift(w)
  <2>1. ~Exists(cursor[w] + 1) /\ written' = written /\ logged' = logged
    BY <1>4 DEF Shift, Places
  <2>2. QED
    BY <1>4, <2>1, Renames
<1>5. CASE Move(w)
  <2>1. ~Exists(0 + 1) /\ 0 + 1 = 1 /\ written' = written /\ logged' = logged
    BY <1>5 DEF Move, Places
  <2>2. QED
    BY <1>5, <2>1, Renames
<1>6. CASE WriteLine(w)
  BY <1>6, Appends DEF WriteLine
<1>7. CASE TornAppend(w)
  <2>1. PICK part \in Tears, bytes \in Nat : files' = Appended(part, bytes)
    BY <1>7, Appends
  <2>2. part # "whole" /\ written' = written + 1 /\ logged' = logged
    BY <1>0, <1>7 DEF TornAppend
  <2>3. QED
    BY <2>1, <2>2
<1>8. QED
  BY <1>1, <1>2, <1>3, <1>4, <1>5, <1>6, <1>7 DEF WriterStep

\* What a truncation or an unlink removes is older than all that stays.
LEMMA OldestGoFirstStep ==
  ASSUME IInv, Places, OldestGoFirst, NEW w \in Writers, WriterStep(w)
  PROVE  OldestGoFirst'
<1>0. /\ backups \in 0..Depth /\ Depth \in Nat /\ 0 \in Indices /\ Indices \subseteq Nat
      /\ files \in [Indices -> Seq(Pieces) \cup {Absent}] /\ TypeOK /\ written \in Nat
  BY LogAssumption DEF IInv, TypeOK, Indices
<1>1. ASSUME written' = written, \A e : e \in HeldEvents' <=> e \in HeldEvents
      PROVE  OldestGoFirst'
  BY <1>1 DEF OldestGoFirst
<1>2. CASE files' = files /\ written' = written
  BY <1>1, <1>2 DEF HeldEvents, EventsOf, Exists
<1>3. CASE files' = [files EXCEPT ![0] = <<>>] /\ backups = 0
  <2>1. \A k \in Indices : files'[k] \in {<<>>, Absent}
    BY <1>0, <1>3 DEF Places, Exists
  <2>2. HeldEvents' = {}
    BY <2>1, HeldEventsAre
  <2>3. QED
    BY <2>2 DEF OldestGoFirst
<1>4. CASE /\ files' = [files EXCEPT ![backups] = Absent]
           /\ backups \in Indices \ {0} /\ written' = written
  <2>1. /\ files'[backups] = Absent
        /\ \A k \in Indices : k # backups => files'[k] = files[k]
    BY <1>0, <1>4
  <2>2. SUFFICES ASSUME NEW e \in 1..written, NEW old \in HeldEvents', old <= e
                 PROVE  e \in HeldEvents'
    BY <1>4 DEF OldestGoFirst
  <2>3. PICK j \in Indices : files'[j] # Absent /\ \E i \in DOMAIN files'[j] : old = files'[j][i].event
    BY HeldEventsAre
  <2>4. j # backups /\ files'[j] = files[j] /\ files[j] # Absent
    BY <2>1, <2>3
  <2>5. j < backups
    BY <1>0, <1>4, <2>4 DEF Places, Exists
  <2>6. old \in HeldEvents
    BY <2>3, <2>4, HeldEventsAre
  <2>7. e \in HeldEvents
    BY <2>2, <2>6 DEF OldestGoFirst
  <2>8. PICK k \in Indices : files[k] # Absent /\ \E i \in DOMAIN files[k] : e = files[k][i].event
    BY <2>7, HeldEventsAre
  <2>9. CASE k # backups
    BY <2>1, <2>8, <2>9, HeldEventsAre
  <2>10. CASE k = backups
    <3>1. Before(files[k], files[j])
      BY <2>4, <2>5, <2>8, <2>10 DEF IInv, FilesInOrder, Exists
    <3>2. e < old
      BY <2>3, <2>4, <2>8, <3>1 DEF Before
    <3>3. old \in Int
      <4>1. PICK i \in DOMAIN files[j] : old = files[j][i].event
        BY <2>3, <2>4
      <4>2. files[j][i] \in Pieces
        BY <1>0, <2>4, <4>1
      <4>3. QED
        BY <4>1, <4>2 DEF Pieces
    <3>4. QED
      BY <2>2, <3>2, <3>3
  <2>11. QED
    BY <2>9, <2>10
<1>5. ASSUME NEW k \in Indices, k + 1 \in Indices, ~Exists(k + 1), files' = Renamed(k),
             written' = written
      PROVE  OldestGoFirst'
  <2>1. /\ files'[k + 1] = files[k]
        /\ files'[k] = Absent
        /\ \A j \in Indices : j # k /\ j # k + 1 => files'[j] = files[j]
        /\ files[k + 1] = Absent
    BY <1>0, <1>5, RenameFacts DEF Exists
  <2>2. ASSUME NEW e, e \in HeldEvents' PROVE e \in HeldEvents
    BY <1>5, <2>1, <2>2, HeldEventsAre
  <2>3. ASSUME NEW e, e \in HeldEvents PROVE e \in HeldEvents'
    BY <1>5, <2>1, <2>3, HeldEventsAre
  <2>4. QED
    BY <1>1, <1>5, <2>2, <2>3
<1>6. ASSUME NEW part \in {"whole"} \cup Tears, NEW bytes \in Nat,
             files' = Appended(part, bytes), written' = written + 1
      PROVE  OldestGoFirst'
  <2>1. /\ Current \in Seq(Pieces)
        /\ \A k \in Indices : k # 0 => files'[k] = files[k]
        /\ files'[0] \in Seq(Pieces)
        /\ Len(files'[0]) = Len(Current) + 1
        /\ \A i \in 1..Len(Current) : files'[0][i] = Current[i]
        /\ files'[0][Len(Current) + 1].event = written + 1
        /\ files'[0] # Absent
    BY <1>0, <1>6, AppendFacts, AbsentAssumption
  <2>2. DOMAIN files'[0] = 1..(Len(Current) + 1) /\ Len(Current) \in Nat
        /\ DOMAIN Current = 1..Len(Current)
    BY <2>1
  <2>3. ASSUME NEW e, e \in HeldEvents PROVE e \in HeldEvents'
    <3>1. PICK k \in Indices : files[k] # Absent /\ \E i \in DOMAIN files[k] : e = files[k][i].event
      BY <2>3, HeldEventsAre
    <3>2. CASE k = 0
      <4>1. Current = files[0]
        BY <3>1, <3>2 DEF Current, Exists
      <4>2. PICK i \in 1..Len(Current) : e = files'[0][i].event
        BY <2>1, <2>2, <3>1, <3>2, <4>1
      <4>3. QED
        BY <1>0, <2>1, <2>2, <4>2, HeldEventsAre
    <3>3. CASE k # 0
      BY <2>1, <3>1, <3>3, HeldEventsAre
    <3>4. QED
      BY <3>2, <3>3
  <2>4. written + 1 \in HeldEvents'
    BY <1>0, <2>1, <2>2, HeldEventsAre
  <2>5. ASSUME NEW e, e \in HeldEvents' PROVE e \in HeldEvents \/ e = written + 1
    <3>1. PICK k \in Indices : files'[k] # Absent /\ \E i \in DOMAIN files'[k] : e = files'[k][i].event
      BY <2>5, HeldEventsAre
    <3>2. CASE k = 0
      <4>1. PICK i \in 1..(Len(Current) + 1) : e = files'[0][i].event
        BY <2>2, <3>1, <3>2
      <4>2. CASE i = Len(Current) + 1
        BY <2>1, <4>1, <4>2
      <4>3. CASE i # Len(Current) + 1
        <5>1. i \in 1..Len(Current) /\ e = Current[i].event
          BY <2>1, <2>2, <4>1, <4>3
        <5>2. Current = files[0] /\ files[0] # Absent
          BY <2>2, <5>1 DEF Current, Exists
        <5>3. QED
          BY <1>0, <2>2, <5>1, <5>2, HeldEventsAre
      <4>4. QED
        BY <4>2, <4>3
    <3>3. CASE k # 0
      BY <2>1, <3>1, <3>3, HeldEventsAre
    <3>4. QED
      BY <3>2, <3>3
  <2>6. SUFFICES ASSUME NEW e \in 1..(written + 1), NEW old \in HeldEvents', old <= e
                 PROVE  e \in HeldEvents'
    BY <1>6 DEF OldestGoFirst
  <2>7. CASE e = written + 1
    BY <2>4, <2>7
  <2>8. CASE e # written + 1
    <3>1. e \in 1..written /\ old # written + 1
      BY <1>0, <2>6, <2>8
    <3>2. QED
      BY <2>3, <2>5, <2>6, <3>1 DEF OldestGoFirst
  <2>9. QED
    BY <2>7, <2>8
<1>7. QED
  BY <1>2, <1>3, <1>4, <1>5, <1>6, FileSteps

\* Events are appended in the order of their numbers, and files are removed or
\* carried as a whole.
LEMMA AllNumberedStep ==
  ASSUME IInv, Places, AllNumbered, NEW w \in Writers, WriterStep(w)
  PROVE  AllNumbered'
<1>0. /\ backups \in 0..Depth /\ Depth \in Nat /\ 0 \in Indices /\ Indices \subseteq Nat
      /\ files \in [Indices -> Seq(Pieces) \cup {Absent}] /\ TypeOK
      /\ written \in Nat /\ logged \subseteq 1..written /\ FilesInOrder
      /\ Tears \subseteq {"noeol", "partial", "cut"}
  BY LogAssumption DEF IInv, TypeOK, Indices
<1>1. ASSUME written' = written, logged' = logged,
             \A k \in Indices : files'[k] = Absent \/ files'[k] = <<>>
                                  \/ \E j \in Indices : files'[k] = files[j] /\ (k = 0 => j = 0)
      PROVE  AllNumbered'
  <2>1. ASSUME NEW k \in Indices, files'[k] # Absent PROVE Numbered(files[k])'
    <3>1. CASE files'[k] = <<>>
      BY <3>1 DEF Numbered
    <3>2. CASE \E j \in Indices : files'[k] = files[j]
      <4>1. PICK j \in Indices : files'[k] = files[j]
        BY <3>2
      <4>2. Numbered(files[j])
        BY <2>1, <4>1 DEF AllNumbered, Exists
      <4>3. QED
        BY <1>1, <4>1, <4>2 DEF Numbered
    <3>3. QED
      BY <1>1, <2>1, <3>1, <3>2
  <2>2. ASSUME files'[0] # Absent, files'[0] # <<>>
        PROVE  files'[0][Len(files'[0])].event = written'
    BY <1>0, <1>1, <2>2 DEF AllNumbered, Exists
  <2>3. QED
    BY <2>1, <2>2 DEF AllNumbered, Exists
<1>2. CASE files' = files /\ written' = written /\ logged' = logged
  BY <1>1, <1>2
<1>3. CASE files' = [files EXCEPT ![0] = <<>>] /\ written' = written /\ logged' = logged
  BY <1>0, <1>1, <1>3
<1>4. CASE /\ files' = [files EXCEPT ![backups] = Absent]
           /\ backups \in Indices \ {0} /\ written' = written /\ logged' = logged
  BY <1>0, <1>1, <1>4
<1>5. ASSUME NEW k \in Indices, k + 1 \in Indices, files' = Renamed(k),
             written' = written, logged' = logged
      PROVE  AllNumbered'
  <2>1. /\ files'[k + 1] = files[k]
        /\ files'[k] = Absent
        /\ \A j \in Indices : j # k /\ j # k + 1 => files'[j] = files[j]
        /\ k + 1 # 0
    BY <1>0, <1>5, RenameFacts
  <2>2. QED
    BY <1>1, <1>5, <2>1
<1>6. ASSUME NEW part \in {"whole"} \cup Tears, NEW bytes \in Nat,
             files' = Appended(part, bytes), written' = written + 1,
             logged' = IF part = "whole" THEN logged \cup {written + 1} ELSE logged
      PROVE  AllNumbered'
  <2>1. /\ Current \in Seq(Pieces)
        /\ \A k \in Indices : k # 0 => files'[k] = files[k]
        /\ files'[0] \in Seq(Pieces)
        /\ Len(files'[0]) = Len(Current) + 1
        /\ \A i \in 1..Len(Current) : files'[0][i] = Current[i]
        /\ files'[0][Len(Current) + 1].event = written + 1
        /\ files'[0][Len(Current) + 1].part = part
    BY <1>0, <1>6, AppendFacts
  <2>2. /\ DOMAIN files'[0] = 1..(Len(Current) + 1) /\ Len(Current) \in Nat
        /\ DOMAIN Current = 1..Len(Current)
    BY <2>1
  <2>3. ASSUME NEW file \in Seq(Pieces), Dated(file), NEW i \in DOMAIN file
        PROVE  /\ file[i].event \in Nat
               /\ file[i].event \in logged' <=> file[i].event \in logged
    <3>1. file[i] \in Pieces
      BY <2>3
    <3>2. file[i].event \in Nat /\ file[i].event <= written
      BY <2>3, <3>1 DEF Dated, Pieces
    <3>3. QED
      BY <1>0, <1>6, <3>2
  <2>4. Numbered(Current) /\ Dated(Current)
    <3>1. CASE Exists(0)
      BY <1>0, <3>1 DEF Current, AllNumbered, FilesInOrder
    <3>2. CASE ~Exists(0)
      BY <3>2 DEF Current, Numbered, Dated, Ascending
    <3>3. QED
      BY <3>1, <3>2
  <2>5. Len(Current) # 0 => Current[Len(Current)].event = written
    BY DEF Current, AllNumbered
  <2>6. ASSUME NEW i \in DOMAIN files'[0]
        PROVE  /\ files'[0][i].part = "whole" <=> files'[0][i].event \in logged'
               /\ i # 1 => files'[0][i].event = files'[0][i - 1].event + 1
    <3>1. CASE i \in DOMAIN Current
      <4>1. files'[0][i] = Current[i] /\ (i # 1 => files'[0][i - 1] = Current[i - 1])
        BY <2>1, <2>2, <3>1
      <4>2. /\ Current[i].part = "whole" <=> Current[i].event \in logged
            /\ i # 1 => Current[i].event = Current[i - 1].event + 1
        BY <2>4, <3>1 DEF Numbered
      <4>3. Current[i].event \in logged' <=> Current[i].event \in logged
        BY <2>1, <2>3, <2>4, <3>1
      <4>4. QED
        BY <4>1, <4>2, <4>3
    <3>2. CASE i = Len(Current) + 1
      <4>1. part = "whole" <=> written + 1 \in logged'
        BY <1>0, <1>6
      <4>2. ASSUME i # 1 PROVE files'[0][i].event = files'[0][i - 1].event + 1
        <5>1. Len(Current) # 0 /\ i - 1 = Len(Current) /\ i - 1 \in 1..Len(Current)
          BY <2>2, <3>2, <4>2
        <5>2. files'[0][i - 1].event = written
          BY <2>1, <2>5, <5>1
        <5>3. QED
          BY <2>1, <3>2, <5>2
      <4>3. QED
        BY <2>1, <3>2, <4>1, <4>2
    <3>3. QED
      BY <2>2, <2>6, <3>1, <3>2
  <2>7. ASSUME NEW k \in Indices, files'[k] # Absent PROVE Numbered(files[k])'
    <3>1. CASE k = 0
      BY <2>6, <3>1 DEF Numbered
    <3>2. CASE k # 0
      <4>1. files'[k] = files[k] /\ files[k] \in Seq(Pieces) /\ Exists(k)
        BY <1>0, <2>1, <2>7, <3>2 DEF Exists
      <4>2. Numbered(files[k]) /\ Dated(files[k])
        BY <1>0, <4>1 DEF AllNumbered, FilesInOrder
      <4>3. \A i \in DOMAIN files[k] :
              files[k][i].event \in logged' <=> files[k][i].event \in logged
        BY <2>3, <4>1, <4>2
      <4>4. QED
        BY <4>1, <4>2, <4>3 DEF Numbered
    <3>3. QED
      BY <3>1, <3>2
  <2>8. files'[0][Len(files'[0])].event = written'
    BY <1>6, <2>1
  <2>9. QED
    BY <2>7, <2>8 DEF AllNumbered, Exists
<1>7. QED
  BY <1>2, <1>3, <1>4, <1>5, <1>6, FileSteps

\* An append is torn by an interruption, and by nothing else.
LEMMA TornCountStep ==
  ASSUME IInv, TornCount, NEW w \in Writers, WriterStep(w)
  PROVE  TornCount'
<1>0. written \in Nat /\ logged \subseteq 1..written /\ interruptions \in Nat
  BY DEF IInv, TypeOK
<1>1. IsFiniteSet(TornEvents) /\ Cardinality(TornEvents) \in Nat
  BY <1>0, TornEventsAreFinite, FS_CardinalityType
<1>2. CASE TornAppend(w)
  <2>1. written' = written + 1 /\ logged' = logged /\ interruptions' = interruptions + 1
    BY <1>2 DEF TornAppend, Released
  <2>2. TornEvents' = TornEvents \cup {written + 1} /\ written + 1 \notin TornEvents
    BY <1>0, <2>1 DEF TornEvents
  <2>3. Cardinality(TornEvents') = Cardinality(TornEvents) + 1
    BY <1>1, <2>2, FS_AddElement
  <2>4. QED
    BY <1>0, <1>1, <2>1, <2>3 DEF TornCount
<1>3. CASE WriteLine(w)
  <2>1. written' = written + 1 /\ logged' = logged \cup {written + 1}
        /\ interruptions' = interruptions
    BY <1>3 DEF WriteLine
  <2>2. TornEvents' = TornEvents
    BY <1>0, <2>1 DEF TornEvents
  <2>3. QED
    BY <2>1, <2>2 DEF TornCount
<1>4. CASE ~TornAppend(w) /\ ~WriteLine(w)
  <2>1. /\ UNCHANGED <<written, logged>>
        /\ interruptions' \in {interruptions, interruptions + 1}
    BY <1>4 DEF WriterStep, Acquire, Check, Truncate, Unlink, Shift, Move, Unlock, Interrupt,
                Released
  <2>2. TornEvents' = TornEvents
    BY <2>1 DEF TornEvents
  <2>3. QED
    BY <1>0, <1>1, <2>1, <2>2 DEF TornCount
<1>5. QED
  BY <1>2, <1>3, <1>4

\* Readers change nothing of it.
LEMMA KeptStep == IInv /\ KeptInv /\ [Next]_vars => KeptInv'
<1> SUFFICES ASSUME IInv, KeptInv, [Next]_vars PROVE KeptInv'
  OBVIOUS
<1>1. ASSUME NEW w \in Writers, WriterStep(w) PROVE KeptInv'
  BY <1>1, PlacesStep, GapCountStep, OldestGoFirstStep, AllNumberedStep, TornCountStep
     DEF KeptInv
<1>2. CASE UNCHANGED logVars
  BY <1>2
     DEF logVars, KeptInv, Places, GapCount, OldestGoFirst, AllNumbered, TornCount, Gaps,
         HeldEvents, EventsOf, Numbered, TornEvents, Exists
<1>3. QED
  BY <1>1, <1>2
     DEF Next, vars, ReaderStep, ListBackups, ListCurrent, Read, ReadRaises, Return
---------------------------------------------------------------------------
(* Nothing but the oldest                                                    *)

\* Events that the log should give back and does not: they are logged, and
\* newer than one that is kept.
Lost == {e \in logged \ ReadableEvents : \E old \in HeldEvents : old < e}

\* A lost event is in a file, and its line continues the one before it, which
\* was torn; with U+2028 in a text, or a character cut in two, more is lost.
LEMMA LostFollowTorn ==
  ASSUME IInv, KeptInv, Splitting = {}, "cut" \notin Tears, NEW e \in Lost
  PROVE  e - 1 \in TornEvents
<1>0. /\ 0 \in Indices /\ files \in [Indices -> Seq(Pieces) \cup {Absent}]
      /\ written \in Nat /\ logged \subseteq 1..written
      /\ OldestGoFirst /\ AllNumbered
  BY LogAssumption DEF IInv, KeptInv, TypeOK, Indices
<1>1. e \in logged /\ e \notin ReadableEvents /\ e \in 1..written
  BY <1>0 DEF Lost
<1>2. PICK old \in HeldEvents : old < e
  BY DEF Lost
<1>3. old \in Nat \ {0}
  <2>1. PICK k \in Indices : files[k] # Absent /\ \E i \in DOMAIN files[k] : old = files[k][i].event
    BY HeldEventsAre
  <2>2. PICK i \in DOMAIN files[k] : old = files[k][i].event
    BY <2>1
  <2>3. files[k][i] \in Pieces
    BY <1>0, <2>1, <2>2
  <2>4. QED
    BY <2>2, <2>3 DEF Pieces
<1>4. e \in HeldEvents
  BY <1>0, <1>1, <1>2, <1>3 DEF OldestGoFirst
<1>5. PICK k \in Indices : files[k] # Absent /\ \E i \in DOMAIN files[k] : e = files[k][i].event
  BY <1>4, HeldEventsAre
<1>6. PICK i \in DOMAIN files[k] : e = files[k][i].event
  BY <1>5
<1>7. files[k] \in Seq(Pieces) /\ Numbered(files[k])
  BY <1>0, <1>5 DEF AllNumbered, Exists
<1>8. files[k][i].part = "whole"
  BY <1>1, <1>6, <1>7 DEF Numbered
<1>9. Decodes(files[k])
  <2>1. ASSUME NEW j \in DOMAIN files[k] PROVE files[k][j].part # "cut"
    <3>1. files[k][j] \in Pieces
      BY <1>7, <2>1
    <3>2. QED
      BY <3>1 DEF Pieces
  <2>2. QED
    BY <2>1 DEF Decodes
<1>10. ~ReadsBack(files[k], i)
  BY <1>1, <1>5, <1>6 DEF ReadableEvents, Exists
<1>11. ~StartsLine(files[k], i)
  BY <1>8, <1>9, <1>10 DEF ReadsBack
<1>12. i # 1 /\ files[k][i - 1].part # "whole" /\ i - 1 \in DOMAIN files[k]
  BY <1>6, <1>7, <1>11 DEF StartsLine
<1>13. files[k][i - 1].event \notin logged /\ e = files[k][i - 1].event + 1
  BY <1>6, <1>7, <1>12 DEF Numbered
<1>14. files[k][i - 1].event \in Nat \ {0}
  <2>1. files[k][i - 1] \in Pieces
    BY <1>7, <1>12
  <2>2. QED
    BY <2>1 DEF Pieces
<1>15. QED
  BY <1>0, <1>1, <1>13, <1>14 DEF TornEvents

\* So there are no more lost events than torn ones.
LEMMA KeptEnough ==
  ASSUME IInv, KeptInv, Splitting = {}, "cut" \notin Tears
  PROVE  OnlyTheOldestAreDropped
<1>0. written \in Nat /\ logged \subseteq 1..written /\ interruptions \in Nat
  BY DEF IInv, TypeOK
<1> DEFINE before == [e \in Lost |-> e - 1]
<1>1. before \in [Lost -> TornEvents]
  BY LostFollowTorn
<1>2. before \in Injection(Lost, TornEvents)
  <2>1. ASSUME NEW d \in Lost, NEW e \in Lost, before[d] = before[e] PROVE d = e
    <3>1. d \in Int /\ e \in Int
      BY <1>0 DEF Lost
    <3>2. QED
      BY <2>1, <3>1
  <2>2. QED
    BY <1>1, <2>1 DEF Injection, IsInjective
<1>3. IsFiniteSet(TornEvents)
  BY <1>0, TornEventsAreFinite
<1>4. Cardinality(Lost) <= Cardinality(TornEvents) /\ IsFiniteSet(Lost)
  BY <1>2, <1>3, FS_Injection
<1>5. Cardinality(Lost) \in Nat /\ Cardinality(TornEvents) \in Nat
  BY <1>3, <1>4, FS_CardinalityType
<1>6. Cardinality(TornEvents) <= interruptions
  BY DEF KeptInv, TornCount
<1>7. Cardinality(Lost) <= interruptions
  BY <1>0, <1>4, <1>5, <1>6
<1>8. QED
  BY <1>7 DEF OnlyTheOldestAreDropped, Lost
---------------------------------------------------------------------------
\* The inductive invariant holds in every behaviour.
THEOREM Invariance == Spec => []IInv
<1>1. IInv /\ [Next]_vars => IInv'
  BY TypeStep, ControlStep, OrderStep DEF IInv
<1>2. QED
  BY InitInvariant, <1>1, PTL DEF Spec

(* Every behaviour of JsonlEventWriter and its readers has the types of      *)
(* TypeOK, for any number of writers, backups, crashes and failed writes.    *)
THEOREM Types == Spec => []TypeOK
<1>1. IInv => TypeOK
  BY DEF IInv
<1>2. QED
  BY <1>1, Invariance, PTL

(* No file of JsonlEventWriter outgrows max_bytes: the size that             *)
(* _rotate_if_needed tests is still the size when the line is appended.      *)
THEOREM Bounded == Spec => []FilesAreBounded
<1>1. IInv => FilesAreBounded
  BY DEF IInv
<1>2. QED
  BY <1>1, Invariance, PTL

(* read_jsonl_events, which takes no lock, returns events in the order of    *)
(* their appends and none twice, whatever rotations run, or are left half    *)
(* done, while it reads.                                                     *)
THEOREM Order == Spec => []ReaderInOrder
<1>1. IInv => ReaderInOrder
  BY DEF IInv
<1>2. QED
  BY <1>1, Invariance, PTL

(* What is kept is kept in every behaviour, too.                             *)
THEOREM KeptInvariance == Spec => []KeptInv
<1>1. QED
  BY InitKept, KeptStep, Invariance, PTL DEF Spec

(* Interrupted rotations of JsonlEventWriter leave one gap each at most in   *)
(* the chain of backups, however many there are and wherever they stop.      *)
THEOREM GapsBounded == Spec => []GapsAreInterruptions
<1>1. IInv /\ KeptInv => GapsAreInterruptions
  <2> SUFFICES ASSUME IInv, KeptInv, lock = Nobody PROVE Cardinality(Gaps) <= interruptions
    BY DEF GapsAreInterruptions
  <2>1. \A w \in Writers : pc[w] \notin {"shift", "move"}
    BY LogAssumption DEF IInv, Exclusion, Holding
  <2>2. QED
    BY <2>1 DEF KeptInv, GapCount
<1>2. QED
  BY <1>1, Invariance, KeptInvariance, PTL

(* Of the events newer than the oldest in the files, a crash or a failed     *)
(* write costs one at most, provided that no text holds a line separator     *)
(* splitlines() knows and no write is cut inside a character; either of      *)
(* those makes read_jsonl_events lose more.                                  *)
THEOREM OnlyOldest ==
  Splitting = {} /\ "cut" \notin Tears => (Spec => []OnlyTheOldestAreDropped)
<1> SUFFICES ASSUME Splitting = {}, "cut" \notin Tears
             PROVE  Spec => []OnlyTheOldestAreDropped
  OBVIOUS
<1>1. IInv /\ KeptInv => OnlyTheOldestAreDropped
  BY KeptEnough
<1>2. QED
  BY <1>1, Invariance, KeptInvariance, PTL
=============================================================================
