SPECIFICATION Spec
CONSTANTS
    N = 2
    Act <- MCAct
    Gen <- MCGen
    Toggle = TRUE
INVARIANT
    GatedEqualsMasked
