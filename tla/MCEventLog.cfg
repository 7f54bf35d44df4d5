SPECIFICATION Spec
CONSTANTS
  Writers = {w1, w2}
  Depth = 3
  BackupCounts = {0, 3}
  LineBytes <- MCLineBytes
  MaxBytes = 6
  Splitting = {}
  Tears = {"noeol", "partial"}
  MaxEvents = 10
  MaxInterruptions = 2
  Absent = Absent
  Nobody = Nobody
INVARIANTS ReaderInOrder OnlyTheOldestAreDropped FilesAreBounded GapsAreInterruptions
CHECK_DEADLOCK FALSE
