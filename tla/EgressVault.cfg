SPECIFICATION Spec
CONSTANTS
  Burst = 2
  MaxTime = 4
  MaxPackets = 3
INVARIANT Inv
PROPERTIES OnlyEndsBursts MetronomeProgress
