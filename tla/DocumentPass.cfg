SPECIFICATION FairSpec
CONSTANTS
  Docs = {"a"}
  Edits <- MCEdits
  Foreign <- MCForeign
  Calls <- MCCalls
  MaxFaults = 1
  MaxActs = 2
INVARIANTS DocumentSafe
PROPERTIES EditsCarried
CHECK_DEADLOCK FALSE
