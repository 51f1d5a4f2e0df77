SPECIFICATION Spec
CONSTANTS
    c1 = c1
    c2 = c2
    c3 = c3
    c4 = c4
    f1 = f1
    f2 = f2
    f3 = f3
    Channels <- MCChannels
    Fds <- MCFds
    Events = {"read", "write"}
    FdOf <- MCFdOf
    None = None
INVARIANTS InStep
PROPERTIES ImplementsPollSet
CHECK_DEADLOCK FALSE
