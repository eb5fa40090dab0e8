SPECIFICATION TbFairSpec
CONSTANTS
    DC_MOD = 8
    U32_MOD = 64
    Val = {0, 1, 2, 3}
    Layers <- MCLayers
    Blocks = 2
    N = 4
    Slack = 4
    GUARD = 100
INVARIANTS
    SlotSafe
    ReadAfterRetired
    AccumulatesEachTileOnce
    OneIrqPerCommand
PROPERTIES
    Infers
CHECK_DEADLOCK FALSE
