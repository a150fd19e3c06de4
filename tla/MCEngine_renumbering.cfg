SPECIFICATION Spec
CONSTANTS
    Keys = {k1, k2}
    Scenarios <- RotatingRestarts
SYMMETRY KeySymmetry
INVARIANTS ZeroDataLoss
CHECK_DEADLOCK FALSE
