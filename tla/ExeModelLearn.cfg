\* Two executables, scanning switched off and on: what the chains learn.
SPECIFICATION Spec
CONSTANTS
  a = a
  b = b
  Exes <- TwoExes
  Cycles <- CycleThree
  CycleMax = 3
  MaxAge = 7
  EvictThreshold = 5
  ScanSettings <- Either
  ManualLists <- NoLists
  Blacklists <- NoLists
  SaveOutcomes <- OnlyTrue
  Garbage <- AtStart
  GarbageStates <- OneOfFour
  BootTime = 4
  MaxTime = 13
SYMMETRY Symmetry
INVARIANTS
  TypeOK
  WeightsFormWalk
  StaysAddUp
CHECK_DEADLOCK FALSE
