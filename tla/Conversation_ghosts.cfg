CONSTANTS
  User = {u, v}
  Match = {m, n}
  None = None
  FaultKinds = {"rejected", "denied", "restricted", "cooldown", "drop", "unreachable", "ice"}
  Offered = {"Start", "TryAgain", "FindSomeone", "Cancel", "Next", "End", "Block", "Leave"}
  MaxFaults = 1
  MaxPresses = 1
SPECIFICATION FairSpec
CHECK_DEADLOCK FALSE
PROPERTIES SpinnersEnd GhostNoticed
