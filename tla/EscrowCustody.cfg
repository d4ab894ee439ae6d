SPECIFICATION Spec
CONSTANTS
  adm = adm
  dep = dep
  ben = ben
  arb1 = arb1
  arb2 = arb2
  arb3 = arb3
  Addr = {adm, dep, ben, arb1}
  Admins = {adm}
  Depositors = {dep}
  Beneficiaries = {ben}
  NoAddr = NoAddr
  Contract = Contract
  Token = {xlm, usdc}
  BookingType = {desk}
  Unset = Unset
  Evidence = {proof}
  ZeroHash = ZeroHash
  ArbitratorLists <- OneArbitrator
  Windows = {1}
  ReleaseTimes = {2}
  Amounts = {0, 1, 2}
  Supply = 3
  DisputeTimeout = 2
  U64Max = 100
  MaxEscrows = 2
  MaxTime = 5
CHECK_DEADLOCK FALSE
INVARIANTS MoneySafe PaidOnce
PROPERTIES ResolvedStays CustodyKept
