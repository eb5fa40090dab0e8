SPECIFICATION TbFairSpec
CONSTANTS
    DC_MOD = 16
    Val <- MCVal
    M = 11
    MAX_ROWS = 2
    Calls = 3
    N = 4
    Slack = 3
    RandRows = {1, 2, 64}
INVARIANTS
    NeverDropped
    PollSeesAllRetired
    ResultExact
    AllPass
PROPERTIES
    ProgramsEnd
CHECK_DEADLOCK FALSE
