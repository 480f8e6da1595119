SPECIFICATION PeerSpec
CONSTANTS
    a = a  b = b  b2 = b2  ann = ann  bob = bob  m1 = m1  m2 = m2  m3 = m3  none = none
    Pages = {a, b, b2}
    UserOf <- MCUserOf
    Messages = {m1, m2, m3}
    PageOf <- MCPageOf
    Mode <- MCMode
    MaxPcs = 4
    NoPage = none
    Scopes <- MCScopes
INVARIANTS OneConnection OnePath
CHECK_DEADLOCK FALSE
