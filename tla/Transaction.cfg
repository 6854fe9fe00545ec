SPECIFICATION TxSpec
CONSTANTS
  a = a
  b = b
  d = d
  e = e
  p = p
  s = s
  c = c
  NoAddress = NoAddress
  SystemAddress = SystemAddress
  Address = {s, c, b, e, p}
  Key = {1}
  Value = {0, 1}
  Instructions = {"SSTORE", "EXIT", "SELFDESTRUCT"}
  Origin = s
  Entry = s
  Precompiles = {p}
  CreateTarget = {e, b, c}
  Start <- MCTxStart
  InitGas = {}
  InitReservoir = {}
  Amount = {0, 1}
  RequestGas = {100}
  Output <- MCOutput
  InitCode <- MCInit
  ComputeCost = {1}
  MemoryCost = {0}
  WordModulus = 1048576
  WarmAccess = 1
  ColdAccount = 2
  ColdSlot = 2
  SlotWrite = 1
  SlotState = 3
  ClearRefund = 4
  ResetRefund = 1
  Sentry = 1
  LogBase = 1
  CallValue = 2
  Stipend = 1
  NewAccount = 4
  CreateBase = 1
  DestructBase = 1
  DestructCold = 1
  DestructTopup = 1
  CodeWord = 1
  CodeByte = 2
  CodeLimit = 4
  CapDivisor = 8
  MaxDepth = 2
  NonceLimit = 100
  Coinbase = c
  Recipient = {b, e, p, s}
  TxGas = {8, 14, 20, 30}
  IntrinsicCost <- MCCosts
  AccessLists <- MCAccess
  AuthLists <- MCAuthLists
  GasPrice = 2
  Priority = 1
  GrantLimit = 12
  Window = 24
  Indicator = 2
  AuthWrite = 1
  RefundQuotient = 5
INVARIANT EtherSettled
INVARIANT ChargeBounded
INVARIANT GasAccounted
INVARIANT StatePaid
INVARIANT FailureLeavesOnlyFees
