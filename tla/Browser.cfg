SPECIFICATION FairBrowserSpec
CONSTANTS
  Call = {c1, c2}
  Crowd = {c2}
  Bye = bye
  NoCall = none
  HeldRoles = {"member"}
  Life = 3
  WarnBefore = 2
  Debounce = 1
  MaxToken = 2
  MaxSecond = 3
  Plain = {stats, feed}
  Shared = {feed}
  Chart = {chart}
CHECK_DEADLOCK FALSE
INVARIANTS
  WarnedInTime
PROPERTIES
  CallsEnd
  KeepsAsking
