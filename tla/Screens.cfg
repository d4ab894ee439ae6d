SPECIFICATION ScreensSpec
CONSTANTS
  Booking = {i1, i2}
  Mutation = {a1, a2}
  List = list
  Workspace = {w1, w2}
  Time = {1, 2}
  MaxPost = 2
  West = 10
  East = 19
  Change = 62
  WeekDays = 1
  Weeks = 2
  Clicked = {10, 38}
  OtherHour = {10}
  Typed = {21}
  Capacity = 1
  MaxBooked = 1
  Tab = {a1, a2}
  Notification = {i1, i2}
  MaxAge = 1
  MaxClock = 4
  Kind = {office}
  Character = {"a"}
  MaxVisit = 2
  FarWest = 8
  FarEast = 2
  ClockIn = {482145, 499583, 499641, 499656, 499726, 499729}
  MaxRecord = 2
  Large = 1
  Window = 1
  Topic = {i1, i2}
  MaxElse = 1
  Nothing = nothing
SYMMETRY Alike
CHECK_DEADLOCK FALSE
INVARIANTS
  NothingInvented
  GroupsAreWeeks
  
PROPERTIES
  ChangesKept
