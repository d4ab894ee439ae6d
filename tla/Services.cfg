SPECIFICATION LiveSpec
CONSTANTS
  Event = {1, 2}
  Worker = {w1, w2}
  Delivery = {d1, d2}
  Undecryptable = {d2}
  Poster = {p1, p2}
  EventAttempts = 2
  DeliveryAttempts = 4
  BatchLimit = 2
  MaxCrashes = 1
  MaxBreaks = 2
  ArrivingRequest = {r1}
  Argument = {a1, a2}
  StrictLimit = 1
  DefaultLimit = 2
  KeyedRequest = {r1, r2, r3}
  Key = {k1}
  Mail = {m1, m2, m3}
  AskedKind = {"verificationOtp", "verificationLink"}
  MaxAttempts = 3
  FailureThreshold = 2
  CounterLife = 1
  ResetTimeout = 2
  MaxMailClock = 2
  Email = {e1}
  NewsletterRequest = {r1, r2}
  MaxRow = 2
  Workspace = {w1}
  Amenity = {a1, a2}
  Name = {n1, n2}
  Slug = {s1}
  TableRequest = {r1}
  None = None
  PictureRequest = {r1, r2, r3}
  MaxAsset = 3
  StatsRequest = {r1, r2}
  Life = 2
  MaxCompute = 1
  MaxStatsClock = 5
  ShortLimit = 1
  LongLimit = 2
  ProbeLimit = 2
  MaxProbeClock = 4
CHECK_DEADLOCK FALSE
INVARIANTS
  QueuesTruthful
  RunsOnce
  
  StaleBounded
  ServicesAgree
PROPERTIES
  QueuesEnd
