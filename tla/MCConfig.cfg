SPECIFICATION ConfigSpec
CONSTANTS
    Threads = {p, q}
    a = a
    b = b
    Keys = {a, b}
    s1 = s1
    s2 = s2
    Subscribers = {s1, s2}
    Subscriptions <- MCSubscriptions
    Scalars <- MCScalars
    Throws = Throws
    Near <- MCNear
    Contents <- MCContents
    Absent = Absent
    None = None
    MaxDepth = 2
INVARIANTS Informed
PROPERTIES MutexReleased
CHECK_DEADLOCK FALSE
