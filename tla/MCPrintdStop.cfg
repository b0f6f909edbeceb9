SPECIFICATION StopSpec
CONSTANTS
  c1 = c1
  c2 = c2
  c3 = c3
  None = None
  Client = {c1, c2}
  MaxJob = 4
  JobFiles = {0}
  MaxConf = 2
  BadConf = {1}
  MaxPrint = 2
  Faults = {"open", "read", "disk", "printer"}
  Size <- SameReads
SYMMETRY ClientSymmetry
CHECK_DEADLOCK FALSE
INVARIANTS
  AckedKept
  AckedQueued
  NoDuplicateJob
  ConfigHonoured
PROPERTIES
  ReprintOnlyTorn
