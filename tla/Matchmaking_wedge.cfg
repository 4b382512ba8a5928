CONSTANTS
  User <- Users2
  Attempt = {m1, m2}
  Handler = {}
  None = None
  Faults = {"crash", "throw", "lockTTL", "occupancyTTL"}
SPECIFICATION FairSpec
CHECK_DEADLOCK FALSE
INVARIANTS NoCrossedLocks 
PROPERTIES HalfMadeResolves ImplementsOccupancy
