\* One request at a time over PostgreSQL, every operation.
SPECIFICATION FairSpec
CONSTANTS
  u1 = u1
  u2 = u2
  team = team
  secret = secret
  None = None
  Users = {u1, u2}
  Channels = {team, secret}
  Msgs = {m1, m2}
  ClientIds = {c1}
  Texts = {t1}
  Contents <- AllContents
  Slots = {s1}
  Mode <- MCMode
  Access <- OpenAccess
  Managers <- MCManagers
  Backend = "drizzle"
  MaxPins = 1
  Ops = {"send", "reply", "forward", "edit", "delete", "ack", "cleanup", "pin", "unpin"}
  Crashes = FALSE
 
PROPERTIES HiddenStays 
