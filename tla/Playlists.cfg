CONSTANTS
  Devices = {d1, d2}
  Ids = {1}
  Names = {n1}
  Refs = {r1, r2}
  Nobody = nobody
  Legacy = {}
  Deleting = TRUE
  Ties = TRUE
  MaxEdits = 3
  MaxCuts = 1
  MaxRestores = 1
  FewRefs = {r1}
  OlderIds = {1}
  FewerEdits = 2
SPECIFICATION MCSpec
INVARIANTS ListsSafe AuthorHolds
PROPERTIES SectionKept ConvergesSyncing
CHECK_DEADLOCK FALSE
