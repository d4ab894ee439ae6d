SPECIFICATION Spec
CONSTANTS
  Addr = {adm, m1, m2}
  Admins = {adm}
  Members = {m1}
  NoAddr = NoAddr
  CanonicalTypes = {1}
  TypeIds = {1, 5}
  Prices = {1}
  Amounts = {1}
  Times = {0, 2, 3}
  Hour = 2
  Returns = {1}
  Escrows = {1}
  MaxInits = 2
  MaxWorkspaces = 1
  MaxBookings = 3
  MaxBatch = 20
  MaxTime = 1
CHECK_DEADLOCK FALSE
INVARIANTS DoubleOnlyRevived RegistersComplete
