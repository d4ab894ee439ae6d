SPECIFICATION Spec
CONSTANTS
  a = a
  b = b
  c = c
  NoUser = NoUser
  Users <- Three
  Actions <- AllActions
  Configs <- Changing
  Assigned = {2}
  Lock = 1
  MaxInits = 2
  MaxProposals = 1
  MaxTime = 1
CHECK_DEADLOCK FALSE
INVARIANTS ExecutedOnce
PROPERTIES ExecutedOnlyApproved SeatSafe
