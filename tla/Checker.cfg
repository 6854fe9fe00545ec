SPECIFICATION Spec
CONSTANTS
  Books <- MCBooks
  Fuel = 150
  Hashes = {"0x1", "0x2"}
INVARIANTS AcceptedRuns TokensOnce LoadedInOrder PublishedReads
CHECK_DEADLOCK FALSE
