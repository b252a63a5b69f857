CONSTANTS
  Devices = {d1, d2, d3}
  Ids = {1}
  Fold <- FoldExact
  Nobody = nobody
  MaxClock = 3
  MaxRestores = 1
  MaxLosses = 1
SPECIFICATION FairSpec
INVARIANTS FollowsSafe
PROPERTIES DocumentGrows FollowsAgree
CHECK_DEADLOCK FALSE
