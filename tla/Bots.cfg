SPECIFICATION Spec
CONSTANTS
    helper = helper  notifier = notifier  open = open  other = other  secret = secret
    e1 = e1  e2 = e2  e3 = e3
    Bots = {helper, notifier}
    Channels = {open, other, secret}
    Secret = {secret}
    Events = {e1, e2, e3}
    Commands = {e1}
    Where <- MCWhere
    Helpers = {helper}
    Writers = {helper}
    Batch = 1
    MaxRetries = 3
    MaxGen = 2
    Scopes <- MCScopes
INVARIANTS Inv EventsKept 
CHECK_DEADLOCK FALSE
