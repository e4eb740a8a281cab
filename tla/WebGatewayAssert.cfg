CONSTANTS
    Conns = {c1}
    Handles = {h1}
    Fds = {f1}
    None = None
    MaxRetry = 10
SPECIFICATION Spec
INVARIANTS
    SendAssertHolds
\* An assertion that fails ends the process.
CHECK_DEADLOCK FALSE
