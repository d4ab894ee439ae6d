SPECIFICATION Spec
CONSTANTS
  User = {u1}
  Request = {r1, r2}
  Password = {1}
  Undefined = Undefined
  OtpMaxAttempts = 2
  OtpResendLimit = 1
  Hotp <- ShortCode
  Step = {0, 1, 2, 3}
  PasskeyLogin = {l1, l2}
  Nobody = Nobody
  Client = {c1, c2}
  Milli = 2
  AccessLife = 2
  RefreshLife = 4
  MaxClock = 3
  MaxSecrets = 3
  MaxCounter = 3
  MaxToken = 2
  MaxMillis = 5
SYMMETRY Alike
CONSTRAINT NotCrossed
CHECK_DEADLOCK FALSE
INVARIANTS
  MailedCodeStored
  LoggedOutRefused
  NoOrphanStreams
  AccountsWellFormed
PROPERTIES
  VerifiedKept
