SPECIFICATION Spec
CONSTANTS
  Writers = {w1, w2}
  Depth = 2
  BackupCounts = {2}
  LineBytes <- MCLineBytes
  MaxBytes = 6
  Splitting = {}
  Tears = {"cut"}
  MaxEvents = 9
  MaxInterruptions = 2
  Absent = Absent
  Nobody = Nobody
INVARIANTS BadLinesDoNotRaise
CHECK_DEADLOCK FALSE
