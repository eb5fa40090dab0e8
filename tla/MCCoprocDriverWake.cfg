SPECIFICATION FairSpec
CONSTANTS
    DC_MOD = 8
    U32_MOD = 64
    Val = {0, 1, 2, 3}
    Layers <- MCLayers
    Blocks = 1
PROPERTIES
    WaitReturns
