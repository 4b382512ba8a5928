CONSTANTS
  Call = {c1, c2, c3}
  Device = {d1}
  None = None
SPECIFICATION Spec
CHECK_DEADLOCK FALSE
SYMMETRY Symmetry
INVARIANTS KickedOut SignedOut 
