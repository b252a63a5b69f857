SPECIFICATION Spec
CONSTANTS
  a = a
  b = b
  album = album
  NoSong = NoSong
  NoList = NoList
  Songs <- MCSongs
  Lists <- MCLists
  Seeds <- MCSeeds
  MaxQueue = 3
  Budgets <- MCBudgets
INVARIANTS WindowSafe Converged SkipsAsOffered
PROPERTIES HighlightKept
CHECK_DEADLOCK FALSE
