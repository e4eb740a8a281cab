CONSTANTS
    Conns = {c1, c2}
    Handles = {h1, h2}
    Fds = {f1, f2}
    None = None
    MaxRetry = 1
SPECIFICATION Spec
SYMMETRY Symmetry
INVARIANTS
    EndpointsAreSound
    NoEndpointAfterClose
    ReadinessIsKept
PROPERTIES
    HangupNamesItsEndpoint
\* An assertion that fails ends the process.
CHECK_DEADLOCK FALSE
