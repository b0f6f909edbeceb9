SPECIFICATION Spec
CONSTANTS
  a = a
  b = b
  c = c
  s = s
  t = t
  None = None
  Node = {a, b, c, s, t}
  NSlots = 5
  Name <- MCName
  Scenarios <- Restarts
INVARIANTS
  OneWinner
CHECK_DEADLOCK FALSE
