SPECIFICATION Spec
CONSTANTS
    r1 = r1  r2 = r2  r3 = r3  i1 = i1  i2 = i2  f1 = f1  f2 = f2
    Slots = {r1, r2, r3}
    Ips = {i1, i2}
    Email = email
    MaxFailures = 2
    Scopes <- MCScopes
    Files = {f1, f2}
    Encrypted = {f2}
    Messages = {n1, n2}
    Page = r1
INVARIANTS Limited 
CHECK_DEADLOCK FALSE
