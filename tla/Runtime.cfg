SPECIFICATION RunSpec
CONSTANTS
  a = a
  b = b
  d = d
  e = e
  p = p
  NoAddress = {a, b, e}
  SystemAddress = {a, b, e}
  Address = {a, b, e}
  Key = {1}
  Value = {0, 1}
  Instructions = {"CALL", "SSTORE", "SELFDESTRUCT"}
  Origin = a
  Entry = b
  Precompiles = {}
  CreateTarget = {}
  Start <- MCRunStart
  InitGas = {0, 9}
  InitReservoir = {0, 10}
  Amount = {0, 1}
  RequestGas = {1,100}
  Output <- MCNoOutput
  InitCode <- MCNoInit
  ComputeCost = {1}
  MemoryCost = {0}
  WordModulus = 1048576
  WarmAccess = 2
  ColdAccount = 2
  ColdSlot = 1
  SlotWrite = 0
  SlotState = 3
  ClearRefund = 2
  ResetRefund = 1
  Sentry = 1
  LogBase = 1
  CallValue = 2
  Stipend = 1
  NewAccount = 4
  CreateBase = 2
  DestructBase = 1
  DestructCold = 1
  DestructTopup = 1
  CodeWord = 1
  CodeByte = 2
  CodeLimit = 4
  CapDivisor = 8
  MaxDepth = 2
  NonceLimit = 100
  FuelFactor = 4
  FuelSlack = 4
  Escrows = {TRUE, FALSE}
  Window = 10
  Margin = 3
  Drift = 7
  NoResult = NoResult
INVARIANT FuelSuffices
INVARIANT WindowKept
INVARIANT ResultIsFinal
