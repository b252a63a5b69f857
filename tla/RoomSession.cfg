SPECIFICATION FairSpec
CONSTANTS
  Songs <- MCSongs
  Linked <- MCLinked
  Opening <- MCOpening
  MaxRounds = 2
  MaxSnaps = 1
  MaxDown = 1
  MaxEvents = 1
INVARIANTS TypeOK
PROPERTIES RoundStartsReleased RoundsEnd LandsOnRoom
CHECK_DEADLOCK FALSE
