SPECIFICATION Spec
CONSTANTS
    Callers = {p, q}
    MaxEvents = 3
    MaxInits = 2
INVARIANTS WrittenInOrder NothingVanishes OwedWritten
PROPERTIES EventuallyWritten StopHangsOnlyInWait
CHECK_DEADLOCK FALSE
