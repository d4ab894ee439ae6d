SPECIFICATION Spec
CONSTANTS
  Id = {1, 2, 3}
  Reader = {r1}
  PageLimit = 1
  Fine = 2
  MaxPageClock = 3
  Address = {a1}
  Submission = {s1, s2}
  User = {u1, u2}
  Socket = {x1, x2}
  Keyword = {k1}
  Capacity = 1
  Process = {1, 2}
  DayLength = 2
  FarthestOffset = 1
  OpenHours = 10
  Amount = {5}
  MaxTime = 3
  MaxBooking = 2
  Session = {s1, s2}
  FarthestZone = 1
  ShortHours = 1
  LongHours = 2
  MaxHour = 4
  Workspace = {w1}
CHECK_DEADLOCK FALSE
CONSTRAINT OneTable
INVARIANTS
  WalkExact
  PricesRight
  TotalsAddUp
