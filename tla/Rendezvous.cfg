SPECIFICATION RendezvousSpec
CONSTANTS
  Shards = {0, 1, 2, 3, 9}
  MaxRows = 2
  Ttl = 3
  EpochDuration = 2
  Grace = 0
  MaxSign = 1
  MaxTime = 5
  MaxSweep = 1
  Timeout = 2
  MaxAgain = 1
  MaxForeign = 2
INVARIANTS Inv RendezvousInv
PROPERTIES RowsKeepTheirCells DeliveriesKept SweepsIndexed
