SPECIFICATION TbSpec
CONSTANTS
    N = 3
    Act <- MCAct
    Gen <- MCGen
    Toggle = FALSE
    MaxM = 5
    SvaActs <- MCSvaActs
INVARIANTS
    GatedEqualsMasked
    EveryRowCaptured
    PerfCountsMacs
    OracleAgrees
