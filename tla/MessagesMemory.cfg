\* Two concurrent requests over the in-memory store, run to their end.
SPECIFICATION FairSpec
CONSTANTS
  u1 = u1
  u2 = u2
  team = team
  secret = secret
  None = None
  Users = {u1, u2}
  Channels = {team}
  Msgs = {m1, m2}
  ClientIds = {c1}
  Texts = {t1}
  Contents <- TextContents
  Slots = {s1, s2}
  Mode <- OneChannelMode
  Access <- OneChannelAccess
  Managers <- OneChannelManagers
  Backend = "memory"
  MaxPins = 1
  Ops = {"send", "ack", "pin", "unpin"}
  Crashes = FALSE
INVARIANTS ReceiptOnce
PROPERTIES ReceiptsAnnounced
