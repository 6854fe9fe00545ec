SPECIFICATION LiveSpec
CONSTANTS
  Programs <- MCPrograms
  Fibers = {1, 2, 3}
  Rows = {1, 2}
  Generations = {1, 2}
  Rooms = {0, 2}
  Delays = {1}
  Horizon = 2
  IO_HELP = 2
  PipeRoom = 2
  Every = 2
INVARIANTS Accounted RowsKept
PROPERTIES ImplementsChannel Finishes
CHECK_DEADLOCK FALSE
