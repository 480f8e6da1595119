SPECIFICATION Spec
CONSTANTS
    ann = ann  bob = bob  eve = eve  w1 = w1  w2 = w2  c1 = c1  fresh = fresh  none = none
    pa = pa  pa2 = pa2  pb = pb  te = te  a1 = a1  a2 = a2  a3 = a3  b1 = b1  b2 = b2  e1 = e1
    Users <- MCUsers
    Workspaces = {w1, w2}
    Channels = {c1, fresh}
    Fresh = fresh
    None = none
    Webs <- MCWebs
    Tuis <- MCTuis
    Socks <- MCSocks
    UserOf <- MCUserOf
    ProgOf <- MCProgOf
    Member <- MCMember
    MaxEvents = 3
    MaxQueue = 2
    Scopes <- MCScopes
INVARIANTS  PresenceRight 
CHECK_DEADLOCK FALSE
