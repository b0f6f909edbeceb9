SPECIFICATION FairSpec
CONSTANTS
  c1 = c1
  c2 = c2
  c3 = c3
  None = None
  Client = {c1, c2}
  MaxJob = 2
  JobFiles = {0}
  MaxConf = 0
  BadConf = {}
  MaxPrint = 2
  Faults = {"stall", "die", "disk", "printer"}
  Size <- OneRead
CHECK_DEADLOCK FALSE
INVARIANTS
  SpoolClean
PROPERTIES
  AckedPrinted
