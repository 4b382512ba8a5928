CONSTANTS
  User = {u1, u2}
  Tx = {t1, t2, t3}
  Reply = {r1}
  Purchase = {p1}
  Amount <- Amounts
  Opening <- Openings
  None = None
SPECIFICATION Spec
CHECK_DEADLOCK FALSE
SYMMETRY Symmetry
INVARIANTS LedgerReplays
PROPERTIES TipsAreWhole
