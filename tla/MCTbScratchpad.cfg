SPECIFICATION TbSpec
CHECK_DEADLOCK FALSE
CONSTANTS
    Addr = {0, 1}
    Data <- MCData
    Zero = 0
    DEPTH = 2
    Stride = 2
INVARIANTS
    ChecksPass
PROPERTIES
    ImplementsPingPong
