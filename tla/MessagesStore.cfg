\* Two concurrent requests over PostgreSQL, with restarts.
SPECIFICATION Spec
CONSTANTS
  u1 = u1
  u2 = u2
  team = team
  secret = secret
  None = None
  Users = {u1, u2}
  Channels = {team, secret}
  Msgs = {m1, m2}
  ClientIds = {c1, c2}
  Texts = {t1}
  Contents <- SomeContents
  Slots = {s1, s2}
  Mode <- MCMode
  Access <- MCAccess
  Managers <- MCManagers
  Backend = "drizzle"
  MaxPins = 1
  Ops = {"send", "reply", "forward", "edit", "delete"}
  Crashes = TRUE
SYMMETRY Interchangeable
INVARIANTS Inv OneRowPerClientId ModeSeparation ReplyInChannel
PROPERTY ImplementsLog
