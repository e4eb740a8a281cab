CONSTANTS
    Calls = {p1, p2}
    Plus = {p1, p2}
    Backlog = 2
    MaxHandles = 2
SPECIFICATION Spec
INVARIANTS
    ServerSurvives
\* Every call is over, or the server has stopped.
CHECK_DEADLOCK FALSE
