\* Maps that overlap, touch, are apart or lie in one another.
SPECIFICATION FairSpec
CONSTANTS
  Paths <- TwoPaths
  Rank <- ByName
  Block <- Inodes
  Calls <- Selections
  Strategies <- AllStrategies
  Limits <- SomeLimits
  ForkOutcomes = {TRUE, FALSE}
INVARIANTS
  WithinLimit
  AllRead
  MergesRight
PROPERTY
  Returns
