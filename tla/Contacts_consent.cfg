CONSTANTS
  c1 = c1
  c2 = c2
  c3 = c3
  c4 = c4
  User = {u, v}
  Call = {c1, c2, c3, c4}
  Op <- Ops
  Joiner = {u}
  MaxRows = 2
  None = None
SPECIFICATION FairSpec
CHECK_DEADLOCK FALSE
INVARIANTS ConsentOfBoth BlockWins
PROPERTIES RemovesWhatItSaw BlocksReachTheQueue
