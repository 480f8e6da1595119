\* Both backends, one device that loads two pages, two requests at a time.
SPECIFICATION PFairSpec
CONSTANTS
  Identities = {i1, i2}
  KeyIds = {k1, k2}
  Slots = {s1, s2}
  Absent = Absent
INVARIANTS Inv FetchedOnce TakenOnceInMemory
PROPERTY EventuallyCurrent
