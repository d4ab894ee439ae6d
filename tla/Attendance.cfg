SPECIFICATION LiveSpec
CONSTANTS
  User = {ann}
  Request = {r1, r2}
  Job = {j1}
  MaxSessionHours = 1
  MaxSessions = 2
  MaxTime = 4
  MaxFailures = 1
CHECK_DEADLOCK FALSE
INVARIANTS OneOpen RowsMarked
PROPERTIES SessionsEnd
