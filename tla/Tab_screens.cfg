CONSTANTS
  Slot = {s1, s2}
  Row = {r1}
  MaxLogins = 1
  MaxActs = 2
  None = None
SPECIFICATION FairSpec
CHECK_DEADLOCK FALSE
INVARIANTS NeverSpent OneSession  ShowsItsActs
PROPERTIES CallsEnd
