SPECIFICATION TbFairSpec
CONSTANTS
    N = 3
    ADDR_MOD = 8
    CNT_MOD = 16
    Jobs <- MCJobs
INVARIANTS
    CyclesAsDerived
    WriteIsProduct
    DoneMeansWritten
    Drained
PROPERTIES
    ImplementsDatapath
    CommandCompletes
