CONSTANTS
  Keys = {k1, k2, k3}
  Requests = {r1, r2, r3, r4}
  Refreshers = {r3, r4}
  MaxEntries = 2
  NoRun = NoRun
SPECIFICATION Spec
SYMMETRY Symmetry
INVARIANTS
  TypeOK
  OwnTarget
  RunsBounded
PROPERTIES
  SharesUnrefreshed
  StoresUnrefreshed
  AnswersAreCurrent
CHECK_DEADLOCK FALSE
