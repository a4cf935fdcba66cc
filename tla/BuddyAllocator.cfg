SPECIFICATION HeapSpec
CONSTANTS
  MIN_BLOCK = 2
  MaxOrder = 3
  PoolBase = 24
  Sizes = {1, 3, 17}
  Aligns = {1, 8}
INVARIANT HeapInv
PROPERTY ImplementsHeap
CHECK_DEADLOCK FALSE
