CONSTANTS
  Call = {c1, c2, c3}
  Report = {r1}
  None = None
SPECIFICATION FairSpec
CHECK_DEADLOCK FALSE
INVARIANTS SettledReports 
PROPERTIES BanStands SuspensionOver
