SPECIFICATION KeptSpec
CONSTANTS
  adm = adm
  dep = dep
  ben = ben
  arb1 = arb1
  arb2 = arb2
  arb3 = arb3
  Addr = {adm, dep, ben, arb1, arb2, arb3}
  Admins = {adm}
  Depositors = {dep}
  Beneficiaries = {ben}
  NoAddr = NoAddr
  Contract = Contract
  Token = {xlm}
  BookingType = {desk}
  Unset = Unset
  Evidence = {proof}
  ZeroHash = ZeroHash
  ArbitratorLists <- FixedLists
  Windows = {1}
  ReleaseTimes = {2}
  Amounts = {0, 1}
  Supply = 2
  DisputeTimeout = 2
  U64Max = 100
  MaxEscrows = 1
  MaxTime = 6
CHECK_DEADLOCK FALSE
INVARIANTS PanelDecides
PROPERTIES DisputesEnd
