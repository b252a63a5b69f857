CONSTANTS
  Devices = {d1, d2}
  Importing = {d1}
  Overlap = TRUE
  MaxOrders = 2
  FewerOrders = 1
  MaxSettings = 1
  MaxRestores = 1
  MaxCrashes = 1
  MaxFaults = 1
SPECIFICATION MCSpec
INVARIANTS FolderSafe
PROPERTIES OrderMonotone TurnsConverge
CHECK_DEADLOCK FALSE
