CONSTANTS
    Runners = {r1}
    Users = {u1}
    Ops = {o1}
    Sets = {}
    Task = Task
    None = None
    Services <- SharedByOne
SPECIFICATION Spec
PROPERTIES
    StopInterruptsPoll
\* The application may leave the service for good.
CHECK_DEADLOCK FALSE
