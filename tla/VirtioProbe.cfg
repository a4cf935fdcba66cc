SPECIFICATION ProbeSpec
CONSTANTS
  MmioSlots = 3
  Preferred = 2
  QUEUE_DEPTH = 8
  Kinds = {"empty", "modern", "old", "picky", "legacy", "norx", "notx", "small",
           "legacy_small", "legacy_notx"}
INVARIANT ProbeInv
PROPERTY BootEnds
CHECK_DEADLOCK FALSE
