SPECIFICATION Spec
CONSTANTS
    Conns = {c1, c2}
    None = None
    Fds = {fd1, fd2}
    ThreadNum = 2
    AppCalls <- NoCalls
    OtherCalls <- NoCalls
    MaxCalls = 0
    Asserts = FALSE
INVARIANTS NoUseAfterFree
CHECK_DEADLOCK FALSE
