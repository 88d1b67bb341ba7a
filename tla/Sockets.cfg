CONSTANTS
  MaxRedirects = 5
  MaxBody = 2
SPECIFICATION FairSpec
INVARIANTS
  VerdictsAreEarned
  JudgedPageAnswered
PROPERTIES
  Settles
CHECK_DEADLOCK FALSE
