CONSTANTS
  NumTasks = 5
  Limit = 3
SPECIFICATION FairSpec
INVARIANTS
  TypeOK
PROPERTIES
  Implements
  Settles
CHECK_DEADLOCK FALSE
