SPECIFICATION Spec
CONSTANTS
  x = x
  y = y
  w = w
  nx = nx
  ny = ny
  nw = nw
  fam = fam
  NoPath = NoPath
  Paths <- MCPaths
  PlainNames <- MCPlainNames
  Located <- MCLocated
  FileAt <- MCFileAt
  DesktopFiles <- MCDesktopFiles
  Patterns <- MCPatterns
  UserDirs <- MCUserDirs
  Ctls = {c1, c2}
  Commands <- MCCommands
  MaxCommands = 2
  Inodes = {i1, i2, i3, i4, i5, i6, i7}
  NoInode = NoInode
  MaxTime = 1
  MaxEvents = 6
  Weight = 3
  FirstStates <- MCFirstStates
  Confs <- MCConfs
  FirstLists <- MCFirstLists
  FamilyIds = {fam}
  Junk = Junk
  Runnable <- MCRunnable
SYMMETRY Symmetry
INVARIANTS
  FilesInForce
  PoolsFollow
  SummaryCountsOnce
PROPERTIES
  EditsKept
CHECK_DEADLOCK FALSE
