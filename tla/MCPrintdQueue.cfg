SPECIFICATION Spec
CONSTANTS
  c1 = c1
  c2 = c2
  c3 = c3
  None = None
  Client = {c1, c2, c3}
  MaxJob = 10
  JobFiles = {10}
  MaxConf = 0
  BadConf = {}
  MaxPrint = 2
  Faults = {"printer"}
  Size <- OneRead
SYMMETRY Symmetry
CHECK_DEADLOCK FALSE
INVARIANTS
  TypeOK
  AckedKept
  AckedQueued
  NoDuplicateJob
  ServedInOrder
PROPERTIES
  NoReprint
