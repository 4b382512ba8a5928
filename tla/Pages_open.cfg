CONSTANTS
  Match = {m1, m2}
  Track = {t1, t2}
  None = None
  Slot = {s1, s2}
  Detail = {d1}
  Interest = {i1, i2}
  Country = {c1}
  MAX_INTERESTS_PER_USER = 1
  PREFERRED_COUNTRY_LIMIT = 1
  MaxEdits = 2
  MaxSaves = 2
SPECIFICATION PagesSpec
CHECK_DEADLOCK FALSE
SYMMETRY Symmetry
INVARIANTS SendsLiveCamera OffIsOff NoStrayCamera  InterestsWithinLimit ShowsStored
