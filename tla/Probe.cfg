CONSTANTS
  MaxEvents = 3
SPECIFICATION FairSpec
INVARIANTS
  TypeOK
  ReadsAsWhole
  HeardIsHeard
PROPERTIES
  Settles
CHECK_DEADLOCK FALSE
