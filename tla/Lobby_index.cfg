CONSTANTS
  Country = {"PT", "BR"}
  Nowhere = Nowhere
  Region = {"eu", "sa"}
  Global = "global"
  RegionByCountry <- Regions
  Stages <- Ladder
  User <- Users3
  Attempt = {s}
  Tab = {a, b}
  Owner <- Owners
  Early = {a}
  Home <- Homes
  Move <- Moves
  Profile <- Profiles
  Met = {{1, 2}}
  Restless = {1}
  MaxJoins = 1
  None = None
SPECIFICATION FairSpec
CHECK_DEADLOCK FALSE
INVARIANTS TypeOK OneAnswer OnlineHasTab
PROPERTIES WaitersMeet
