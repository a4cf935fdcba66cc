SPECIFICATION Spec
CONSTANTS
  FrameLen = 2
  SendBuf = 3
  MaxFrames = 3
  Sockets = {"stream", "datagram"}
INVARIANT Inv
PROPERTIES SilentAfterEnd ImplementsFrameWire Progress
CHECK_DEADLOCK FALSE
