SPECIFICATION Spec
CONSTANTS
  a = a
  b = b
  d = d
  e = e
  p = p
  NoAddress = NoAddress
  SystemAddress = SystemAddress
  Address = {a, e}
  Key = {1}
  Value = {0,1,2}
  Instructions = {"CREATE", "SELFDESTRUCT", "SSTORE", "EXIT", "COMPUTE"}
  Origin = a
  Entry = a
  Precompiles = {}
  CreateTarget = {a, e}
  Start <- MCStart
  InitGas = {12}
  InitReservoir = {0, 5}
  Amount = {0, 1}
  RequestGas = {100}
  Output <- MCOutput
  InitCode <- MCInit
  ComputeCost = {1}
  MemoryCost = {0}
  WordModulus = 1048576
  WarmAccess = 1
  ColdAccount = 2
  ColdSlot = 2
  SlotWrite = 1
  SlotState = 3
  ClearRefund = 2
  ResetRefund = 1
  Sentry = 1
  LogBase = 1
  CallValue = 2
  Stipend = 1
  NewAccount = 4
  CreateBase = 1
  DestructBase = 1
  DestructCold = 1
  DestructTopup = 1
  CodeWord = 1
  CodeByte = 2
  CodeLimit = 4
  CapDivisor = 8
  MaxDepth = 2
  NonceLimit = 3
INVARIANT StateGasMatchesState
INVARIANT ExistingContractsSurvive
PROPERTY ImplementsLedger
