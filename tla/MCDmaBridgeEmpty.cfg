SPECIFICATION FairSpec
CONSTANTS
    N = 2
    ADDR_MOD = 6
    CNT_MOD = 16
    RD_DEPTH = 5
    WR_DEPTH = 3
    BURST_MAX = 2
    LEN_MOD = 4
    MaxUpsets = 0
    Jobs <- MCEmptyJobs
PROPERTIES
    CommandCompletes
