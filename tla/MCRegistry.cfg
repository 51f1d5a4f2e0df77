SPECIFICATION RegistrySpec
CONSTANTS
    Models = {a, b}
    MaxIds = 2
    Memory <- MCMemory
    Timeout = 1
    MaxTime = 2
INVARIANTS RemovedStaysGone IndexClean SupportersFound
CHECK_DEADLOCK FALSE
