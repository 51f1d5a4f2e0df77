SPECIFICATION Spec
CONSTANTS
    Clients = {p, q}
    Tasks = {t1, t2}
    ThreadNum = 2
    MaxThreads = 3
    Sizes <- SmallSizes
INVARIANTS NoPopEmpty InOrder NoTerminate
PROPERTIES GracefulShutdown CallsHangOnlyInJoin
CHECK_DEADLOCK FALSE
