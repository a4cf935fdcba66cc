SPECIFICATION Spec
CONSTANTS
  Peers = 2
  MaxSignals = 2
  ChannelSize = 1
INVARIANT Inv
PROPERTIES ImplementsInOrderAttempts MutedAfterTheBurst SignalerProgress
CHECK_DEADLOCK FALSE
