SPECIFICATION FairSpec
CONSTANTS
    Field = {w, m}
    Val = {0, 1}
    Zero = 0
    DC_MOD = 4
    MaxCmds = 5
INVARIANTS
    IdleMeansRetired
    Conservation
    PendingIffUnacked
PROPERTIES
    CommandStable
    ImplementsCommandQueue
