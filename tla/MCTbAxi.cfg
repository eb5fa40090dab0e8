SPECIFICATION TbFairSpec
CONSTANTS
    N = 2
    ADDR_MOD = 6
    CNT_MOD = 16
    RD_DEPTH = 6
    WR_DEPTH = 4
    BURST_MAX = 3
    LEN_MOD = 8
    MaxUpsets = 2
    Jobs <- MCJobs
INVARIANTS
    FifoSafe
    WrittenOrFlagged
    IdleIsClean
    OneBurstAtATime
    BurstInRegion
PROPERTIES
    RequestsHeld
    ImplementsDatapath
    CommandCompletes
