SPECIFICATION Spec
CONSTANTS
  Requests = {r1, r2}
  NoRequest = NoRequest
  Users = {ann}
  Slots <- LongAndShort
  SeriesShapes <- Weekly
  Maintenance <- None
  Capacity = 1
  Policy <- HalfBefore
  DefaultPolicy <- FullOrNothing
  Samples <- SmallCalendars
  MaxBookings = 2
  MaxTime = 1
SYMMETRY Interchangeable
CHECK_DEADLOCK FALSE
INVARIANTS CapacityRespected
