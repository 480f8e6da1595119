SPECIFICATION Spec
CONSTANTS
    a = a
    b = b
    m1 = m1
    m2 = m2
    m3 = m3
    None = None
    Users = {a, b}
    Messages = {m1, m2, m3}
    By <- Author
    To <- Recipient
    Scopes <- MCScopes
INVARIANTS
    ReadsWhatIsSent
    
CHECK_DEADLOCK FALSE
