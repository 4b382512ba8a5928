CONSTANTS
  User = {u1, u2}
  Claim = {c1, c2, c3}
  Edit = {e1}
  Amount = {1}
  Cap <- Caps
  None = None
SPECIFICATION Spec
CHECK_DEADLOCK FALSE
SYMMETRY Symmetry
INVARIANTS SlotsAccountedFor OncePerUser WithinCap
