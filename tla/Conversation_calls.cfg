CONSTANTS
  User = {u, v}
  Match = {m, n}
  None = None
  FaultKinds = {"denied", "restricted"}
  Offered = {"Start", "TryAgain", "FindSomeone", "Next", "End", "Leave"}
  MaxFaults = 1
  MaxPresses = 3
SPECIFICATION Spec
CHECK_DEADLOCK FALSE
SYMMETRY Symmetry
INVARIANTS SignalsOfThisMatch
