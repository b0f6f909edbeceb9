SPECIFICATION Spec
CONSTANTS
  k1 = k1
  k2 = k2
  k3 = k3
  d1 = d1
  d2 = d2
  d3 = d3
  dEmpty = dEmpty
  p1 = p1
  p2 = p2
  Blank = Blank
  None = None
  Proc = {p1, p2}
  Keys = {k1, k2}
  Data = {d1}
  NHash = 1
  PtrMax = 4
  IdxCap = 4
  DatCap = 3
  DATLEN_MIN = 2
  DATLEN_MAX = 3
  Hash <- MCHash
  KeyLen <- MCKeyLen
  DatLen <- MCDatLen
  Menu <- MixedMenu
INVARIANTS
  ScanNeverAborts
