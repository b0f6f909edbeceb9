SPECIFICATION FairSpec
CONSTANTS
  a = a
  b = b
  c = c
  s = s
  t = t
  None = None
  Node = {a, b, c, s, t}
  NSlots = 5
  Name <- MCName
  Scenarios <- Regular
INVARIANTS
  TypeOK
  OneVote
  OneWinner
  WonByVotes
  RolesSound
  FailByMajority
PROPERTIES
  OwnerEpochGrows
  Settles
CHECK_DEADLOCK FALSE
