SPECIFICATION Spec
CONSTANTS
  Devices = {d1, d2}
  Ids = {1}
  Names = {n1}
  Refs = {r1}
  Nobody = nobody
  Legacy = {}
  Deleting = TRUE
  Ties = FALSE
  MaxEdits = 2
  MaxCuts = 0
  MaxRestores = 0
PROPERTY DeletionTravels
CHECK_DEADLOCK FALSE
