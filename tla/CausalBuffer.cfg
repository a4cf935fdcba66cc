SPECIFICATION Spec
CONSTANTS
  Horizon = 6
  MaxBuffer = 3
  MaxTick = 10
INVARIANTS Inv
PROPERTIES ForgetsOldest ImplementsInOrderDelivery EventuallyDelivered
CHECK_DEADLOCK FALSE
