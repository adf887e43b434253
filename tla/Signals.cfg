\* Signals at any time.  The daemon ends or hangs.
SPECIFICATION FairSpec
CONSTANTS
  MaxAsked = 2
INVARIANTS
  NoneForgotten
PROPERTY
  EachServed
CHECK_DEADLOCK FALSE
