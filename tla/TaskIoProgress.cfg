CONSTANTS
    Runners = {r1, r2}
    Users = {u1}
    Ops = {o1}
    Sets = {s1}
    Task = Task
    None = None
    Services <- SharedByOne
SPECIFICATION FairSpec
PROPERTIES
    QueuedOpIsTaken
\* The application may leave the service for good.
CHECK_DEADLOCK FALSE
