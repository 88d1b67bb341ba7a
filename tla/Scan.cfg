CONSTANTS
  Versions = {v12, v13}
  AllowPrivate = FALSE
SPECIFICATION FairSpec
INVARIANTS
  TypeOK
  PrivateUntouched
  ReportIsWhole
PROPERTIES
  CallerAnswered
  GoesQuiet
CHECK_DEADLOCK FALSE
