\* A library listed twice for one executable, once for another, and mapped by both.
SPECIFICATION Spec
CONSTANTS
  a = a
  b = b
  lib = lib
  text = text
  Exes <- TwoExes
  Regions <- TwoRegions
  Mapped <- TwoRegions
  Files <- SharedFiles
  Copies = 3
  MaxLists = 2
  MaxShows = 2
INVARIANTS
  RefsExact
  TablesAgree
  FreeLeavesNothing
PROPERTY
  Promise
CHECK_DEADLOCK FALSE
