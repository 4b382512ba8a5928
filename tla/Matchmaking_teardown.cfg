CONSTANTS
  User <- Users2
  Attempt = {m1, m2}
  Handler = {h1, h2}
  None = None
  Faults = {"entryTTL"}
SPECIFICATION Spec
CHECK_DEADLOCK FALSE
SYMMETRY Symmetry
INVARIANTS NobodyLeftBehind
 
