SPECIFICATION Spec
CONSTANTS
    None = None
    Fds = {fd1, fd2}
    MaxConns = 2
    MaxFrames = 3
INVARIANTS Served NoLeak CarefulIsSafe
PROPERTIES FailureReported
CHECK_DEADLOCK FALSE
