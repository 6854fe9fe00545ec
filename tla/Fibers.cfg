SPECIFICATION LiveSpec
CONSTANTS
  Fibers = {1, 2, 3}
  Chans = {1}
  Fds = {1}
  Effects = {"new", "send", "recv", "close", "spawn", "sleep",
             "listen", "bind", "file", "connect", "read", "write", "immediate", "halt"}
  Rooms = {0, 2}
  Delays = {1}
  Asks = 3
  Bytes = 2
  Horizon = 1
INVARIANTS EachInOnePlace WaitersMustWait DescriptorsOwned
PROPERTIES ImplementsChannel Ends
CHECK_DEADLOCK FALSE
