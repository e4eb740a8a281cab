CONSTANTS
    Runners = {r1}
    Users = {u1}
    Ops = {o1}
    Sets = {s1}
    Task = Task
    None = None
    Services <- SharedByOne
SPECIFICATION Spec
INVARIANTS
    ShutdownDestroysTasks
\* The application may leave the service for good.
CHECK_DEADLOCK FALSE
