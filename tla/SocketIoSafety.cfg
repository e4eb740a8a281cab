CONSTANTS
    s1 = s1
    s2 = s2
    o1 = o1
    o2 = o2
    Socks = {s1, s2}
    Slots = {k1, k2}
    Fds = {f1, f2}
    Ops = {o1, o2}
    Threads = {t1, t2}
    None = None
    Scopes <- MCScopes
    MaxConns = 3
SPECIFICATION Spec
SYMMETRY Symmetry
INVARIANTS
    NoLostEdge
    OperationsAreSound
    SetHasOneSocket
PROPERTIES
    InOrder
CHECK_DEADLOCK FALSE
