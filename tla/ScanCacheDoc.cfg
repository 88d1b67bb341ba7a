CONSTANTS
  Keys = {k1, k2}
  Requests = {r1, r2, r3}
  Refreshers = {r2}
  MaxEntries = 1
  NoRun = NoRun
SPECIFICATION Spec
PROPERTIES
  SharesScan
CHECK_DEADLOCK FALSE
