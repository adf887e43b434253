\* Pauses of two seconds and until reboot, a boot window of two seconds.
SPECIFICATION FairSpec
CONSTANTS
  MaxTime = 4
  Durations = {0, 2}
  NoFile = NoFile
  seeded = seeded
  seen = seen
  seededFile = seededFile
  seenFile = seenFile
  lib = lib
  Exes = {seeded}
  Maps = {seededFile, lib}
  Size <- AppSize
  FileOf <- AppFile
  Libs <- AppLibs
  Learned <- AppLearned
  Usage <- AppUsage
  Kilobyte = 4
  Percents <- SomePercents
  Memories <- SomeMemories
  MaxCount = 1
  MaxStrays = 1
  MinSizes = {120}
  ManualLists = {{}}
  Blacklists = {{}}
  Bids = {0}
  WindowLength = 2
  MaxApps = 1
  NoLogin = NoLogin
PROPERTIES
  BoostsAfterLogin
  RestartHonoured
  PauseEnds
CHECK_DEADLOCK FALSE
