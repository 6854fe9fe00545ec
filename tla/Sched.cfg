SPECIFICATION LiveSpec
CONSTANTS
  Task <- MCTask
  Roots = {1, 11, 16, 17}
  Kids <- MCKids
  Then <- MCThen
  Cont <- MCCont
  NoFork = {2, 5, 16}
  None = none
  none = none
  PoolSize = 3
  CUBE_T = 4
  CUBE_G = 4
  CUBE = 3
  LINE = 4
  RING_LEN = 2
INVARIANTS RunsOnce NothingLost
PROPERTIES Completes
CHECK_DEADLOCK FALSE
