SPECIFICATION DaemonSpec
CONSTANTS
  Mtu = 18
  CtSize = 2
  Margin = 7
  ChunkSize = 4
  TestSize = 3
  MaxFragments = 4
  MaxOut = 4
INVARIANT DaemonInv
PROPERTIES ImplementsInOrderFragments DaemonProgress
CHECK_DEADLOCK FALSE
