CONSTANTS
    Workers = {w1, w2}
    Clients = {c1}
    Owner = c1
    Jobs = {j1}
    None = None
SPECIFICATION FairSpec
PROPERTIES
    DestroyReturns
CHECK_DEADLOCK FALSE
