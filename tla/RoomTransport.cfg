CONSTANTS
  Rooms = {a, b}
  NoRoom = NoRoom
  MaxJoins = 2
  MaxStops = 1
  MaxFaults = 2
SPECIFICATION TransportFairSpec
INVARIANTS ConnectionSafe OpenedFirst
PROPERTIES NotRetried RoomComesBack
CHECK_DEADLOCK FALSE
