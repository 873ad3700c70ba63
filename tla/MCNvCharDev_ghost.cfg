CONSTANTS
    File = {f1, f2}
    MaxBinds = 1
    CanUnbind = TRUE
    CanFail = FALSE
SPECIFICATION Spec
SYMMETRY FileSymmetry
INVARIANT DrainedMeansClosed
