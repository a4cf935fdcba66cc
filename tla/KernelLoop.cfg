SPECIFICATION LoopSpec
CONSTANTS
  Depth = 2
  IdxMod = 4
  MaxFrames = 7
  Patient = TRUE
  Orders = {TRUE, FALSE}
  SocketDepth = 2
  Long = {3}
  MaxHeard = 3
INVARIANT LoopInv
PROPERTIES ImplementsInOrderWire LoopGoesOn
CHECK_DEADLOCK FALSE
