\* Both session stores, two tabs of one browser, and every fault.
SPECIFICATION Spec
CONSTANTS
  Tokens = {t1, t2, t3}
  Tabs = {a, b}
  Slots = {s1, s2}
  Faults = {"loss", "reload", "restart", "expiry", "logout"}
  None = None
SYMMETRY Interchangeable
INVARIANTS Inv RotationInMemory OneLiveInMemory TabStaysIn
PROPERTY DeadStaysDead
