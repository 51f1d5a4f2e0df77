SPECIFICATION Spec
CONSTANTS
    None = None
    Fds = {fd1}
    MaxConns = 2
    MaxFrames = 2
PROPERTIES Reconnects
CHECK_DEADLOCK FALSE
