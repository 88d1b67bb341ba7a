CONSTANT
  MaxFaults = 2
SPECIFICATION Spec
INVARIANTS
  TrustIsEarned
  CriticalFails
  LetterAsPublished
  
PROPERTIES
  NeverBetter
CHECK_DEADLOCK FALSE
