\* Reloads, saves and evictions between the two ticks.
SPECIFICATION Spec
CONSTANTS
  a = a
  b = b
  Exes <- TwoExes
  Cycles <- CycleTwo
  CycleMax = 2
  MaxAge = 5
  EvictThreshold = 0
  ScanSettings <- OnlyTrue
  ManualLists <- ListsOfA
  Blacklists <- ListsOfB
  SaveOutcomes <- Either
  Garbage <- PastOrDue
  GarbageStates <- InOrOut
  BootTime = 6
  MaxTime = 8
INVARIANTS
  NoDangling
  RunningExact
  MarkovAgrees
  TimesNested
  OneChainPerPair
CHECK_DEADLOCK FALSE
