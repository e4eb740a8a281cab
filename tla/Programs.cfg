CONSTANTS
    c1 = c1
    c2 = c2
    s1 = s1
    Clients = {c1, c2}
    Lines <- MCLines
    Quitters = {c1}
    Fragile = {c1}
    max_recent_msgs = 1
    Cap = 1
    Socks = {s1, s2}
    SendMax <- MCSendMax
    MAXSIZE = 3
    Hosts = {h1, h2}
    ReadMax = 2
    HCap = 3
    Total = 3
    Users = {u1, u2}
    Count = 2
    Workers = 1
    Unlucky = {u1}
    Threads = {t1, t2, t3}
    JobN = 3
    Calls = {p1, p2, x1}
    Plus = {p1, p2}
    Backlog = 1
    MaxHandles = 2
SPECIFICATION PFairSpec
INVARIANTS
    ProgramsTypeOK
    NoGaps
    NothingMixes
    EchoesItself
    NothingIsMissed
    TokensMatchJobs
    GivenUpIsClosed
PROPERTIES
    EveryoneHears
    EveryoneIsServed
    UnstableDestroyReturns
    ImplementsRemoteCall
    ServedInTurn
\* Users may stop typing for good, and every program but a server ends.
CHECK_DEADLOCK FALSE
