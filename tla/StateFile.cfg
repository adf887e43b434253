\* Saves that may fail at any step but the sync, and crashes.
SPECIFICATION FairSavingSpec
CONSTANTS
  a = a
  s = s
  lib = lib
  text = text
  Exes = {a, s}
  Maps = {lib, text}
  NoFile = NoFile
  Changes <- NoPreloads
  Stored <- FirstStored
  Priority <- Seeds
  SeedExes <- Seeds
  Outcomes <- SomeFail
INVARIANT
  SavingTypeOK
PROPERTIES
  Promise
  SavesGoOn
