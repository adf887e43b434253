\* No pause, and no time that passes; model.minsize changes, and the memory is just too
\* little for two of the three maps.
SPECIFICATION Spec
CONSTANTS
  MaxTime = 0
  Durations = {}
  NoFile = NoFile
  seeded = seeded
  seen = seen
  seededFile = seededFile
  seenFile = seenFile
  lib = lib
  Exes = {seeded, seen}
  Maps = {seededFile, seenFile, lib}
  Size <- AppSize
  FileOf <- AppFile
  Libs <- AppLibs
  Learned <- AppLearned
  Usage <- AppUsage
  Kilobyte = 4
  Percents <- SomePercents
  Memories <- SomeMemories
  MaxCount = 1
  MaxStrays = 1
  MinSizes = {120, 300}
  ManualLists = {{seeded}}
  Blacklists = {{seen}}
  Bids <- OneBid
  WindowLength = 1
  MaxApps = 1
  NoLogin = NoLogin
INVARIANTS
  MostNeededFirst
  FreeMemoryOnly
  BidsOnce
CHECK_DEADLOCK FALSE
