SPECIFICATION Spec
CONSTANTS
  Last = 1
  Calls = 2
  Requests = 7
  Moves = 3
  Faults = 1
  Repeat = "off"
INVARIANTS PlaybackSafe
PROPERTIES NewestDrives TriedOnce OnlySoundEndsRecovery
CHECK_DEADLOCK FALSE
