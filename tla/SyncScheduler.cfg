CONSTANTS
  Debounce = 2
  MaxWait = 3
  MaxAsks = 4
SPECIFICATION SchedulerFairSpec
INVARIANTS SchedulerSafe
PROPERTIES BurstSettled ImplementsBackgroundPass LoopRests
CHECK_DEADLOCK FALSE
