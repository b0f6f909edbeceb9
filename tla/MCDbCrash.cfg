SPECIFICATION CrashSpec
CONSTANTS
  k1 = k1
  k2 = k2
  k3 = k3
  d1 = d1
  d2 = d2
  d3 = d3
  dEmpty = dEmpty
  p1 = p1
  p2 = p2
  Blank = Blank
  None = None
  Proc = {p1, p2}
  Keys = {k1, k3}
  Data = {d1, d2}
  NHash = 2
  PtrMax = 4
  IdxCap = 4
  DatCap = 2
  DATLEN_MIN = 2
  DATLEN_MAX = 3
  Hash <- MCHash
  KeyLen <- MCKeyLen
  DatLen <- MCDatLen
  Menu <- CrashMenu
INVARIANTS
  PointersValid
  ListsSound
  DataUnshared
  ChainExclusion
  AppendExclusion
