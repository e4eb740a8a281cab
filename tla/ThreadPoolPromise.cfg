CONSTANTS
    Workers = {w1, w2, w3}
    Clients = {c1, c2}
    Owner = c1
    Jobs = {j1, j2, j3, j4}
    None = None
SPECIFICATION FairSpec
INVARIANTS
    PoolIsSound
    WorkConserving
    NothingUsesFreedPool
PROPERTIES
    ImplementsJobPool
    QueuedJobStarts
\* The run ends when the pool has been freed.
CHECK_DEADLOCK FALSE
