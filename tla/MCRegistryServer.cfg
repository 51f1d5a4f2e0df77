SPECIFICATION Spec
CONSTANTS
    p = p
    q = q
    Conns <- MCConns
    Sent <- MCSent
INVARIANTS ServedAsAlone NothingForged
CHECK_DEADLOCK FALSE
