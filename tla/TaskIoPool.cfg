CONSTANTS
    Runners = {r1, r2}
    Users = {u1}
    Ops = {o1, o2, o3}
    Sets = {s1}
    Task = Task
    None = None
    Services <- SharedOrSolo
SPECIFICATION Spec
SYMMETRY Symmetry
INVARIANTS
    QueuesAreSound
    NoStrandedWork
    WorkIsExact
    OpInOnePlace
PROPERTIES
    NoEarlyStop
\* The application may leave the service for good.
CHECK_DEADLOCK FALSE
