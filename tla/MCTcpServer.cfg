SPECIFICATION Spec
CONSTANTS
    Conns = {c1, c2}
    None = None
    Fds = {fd1, fd2}
    ThreadNum = 2
    AppCalls <- AllCalls
    OtherCalls <- AllCalls
    MaxCalls = 1
    Asserts = FALSE
INVARIANTS DiesTornDown ClosedOnce PollerConsistent OwnsDescriptor RemovalUnderway
INVARIANTS PostedCallsSafe NoOtherUseAfterFree
SYMMETRY Alike
CHECK_DEADLOCK FALSE
