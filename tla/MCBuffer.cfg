SPECIFICATION Spec
CONSTANTS
    Bytes = {cr, lf, x}
    CR = cr
    LF = lf
    InitialSize = 2
    Extra = 3
    Modulus = 64
    MaxSize = 4
    MaxLen = 3
INVARIANTS TypeOK FindsFirstCRLF
PROPERTIES ImplementsByteQueue
CHECK_DEADLOCK FALSE
