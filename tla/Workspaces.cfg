SPECIFICATION Spec
CONSTANTS
    u1 = u1
    u2 = u2
    u3 = u3
    g = g
    c1 = c1
    general = general
    n1 = n1
    noone = noone
    s1 = s1
    s2 = s2
    Users <- MCUsers
    Founder = u1
    Channels <- MCChannels
    General = g
    Names <- MCNames
    GeneralName = general
    NoOne = noone
    Slots <- MCSlots
    Scopes <- MCScopes
SYMMETRY Symmetry
INVARIANT Inv
INVARIANT OwnerRemains
INVARIANT NoLeftovers
PROPERTY LifecycleForward
CHECK_DEADLOCK FALSE
