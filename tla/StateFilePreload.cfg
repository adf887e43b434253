\* Applications were preloaded when the state is saved.
SPECIFICATION SavingSpec
CONSTANTS
  a = a
  s = s
  lib = lib
  text = text
  Exes = {a, s}
  Maps = {lib, text}
  NoFile = NoFile
  Changes <- WithPreloads
  Stored <- FirstStored
  Priority <- Seeds
  SeedExes <- Seeds
  Outcomes <- AllSucceed
INVARIANT
  NeverSetAside
