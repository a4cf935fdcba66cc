SPECIFICATION DashboardSpec
CONSTANTS
  Readers = {ui}
  Pump = ui
  NumFields = 2
  MaxSamples = 1
  Starters = {s1, s2}
  Streams = {t1, t2}
INVARIANTS Inv DashboardInv
PROPERTIES ImplementsRegister DashboardProgress
CHECK_DEADLOCK FALSE
