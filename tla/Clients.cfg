SPECIFICATION Spec
CONSTANTS
    web = web
    tui = tui
    peer = peer
    m1 = m1
    m2 = m2
    c1 = c1
    c2 = c2
    c3 = c3
    none = none
    Clients <- MCClientIds
    Peer = peer
    Messages <- MCMessages
    Channels <- MCChannels
    Dms <- MCDms
    MaxVer = 2
    PageSize = 1
    IdOrder <- MCOrder
    Web = web
    Tui = tui
    NoChannel = none
    NoTab = none
    Scopes <- MCScopes
 
 
INVARIANT BadgeRight
INVARIANT ChannelLists
INVARIANT PanelRight
CHECK_DEADLOCK FALSE

