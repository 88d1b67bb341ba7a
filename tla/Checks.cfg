CONSTANTS
  NumGroups = 4
  FiniteField = {3}
  MaxGroupRounds = 3
  MaxDrops = 2
SPECIFICATION ChecksSpec
INVARIANTS
  DefiniteIsTrue
  WalksAreComplete
  ClientAsReal
CHECK_DEADLOCK FALSE
