SPECIFICATION Spec
CONSTANTS
  c1 = c1
  c2 = c2
  c3 = c3
  None = None
  Client = {c1}
  MaxJob = 2
  JobFiles = {0}
  MaxConf = 0
  BadConf = {}
  MaxPrint = 1
  Faults = {"die"}
  Size <- TwoReads
CHECK_DEADLOCK FALSE
INVARIANTS
  PrintedWhole
