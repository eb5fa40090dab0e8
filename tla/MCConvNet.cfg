SPECIFICATION MCSpec
CONSTANTS
    TILE = 2
    MAX_ROWS = 2
    B = 4
    ACT_MAX = 7
    Denominator = 128
    Numerators <- MCNumerators
    Shapes <- MCShapes
INVARIANTS
    ExecuteIsGolden
    DriverIsGolden
    ConvIsDirect
    ActivationIsRounded
PROPERTIES
    GraphReturns
CHECK_DEADLOCK FALSE
