SPECIFICATION RightsSpec
CONSTANTS
  Demands = {1, 2, 3}
  MaxRecent = 2
  BackupClasses = {b1, b2, b3}
  MaxMarks = 2
CHECK_DEADLOCK FALSE
INVARIANTS CancelledIsKept
