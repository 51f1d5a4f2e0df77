SPECIFICATION Spec
CONSTANTS
    Threads = {Creator, other}
    Creator = Creator
    other = other
    Looper = Looper
    Functors = {f1, f2}
    Timers = {d1}
    Delays <- MCDelays
    MaxTime = 1
    AutoStarts = {TRUE, FALSE}
INVARIANTS TypeOK FIFO NoLostWakeup
PROPERTIES InlineOnlyInWindow ImplementsExecutor QueuedRuns QuitStops
CHECK_DEADLOCK FALSE
