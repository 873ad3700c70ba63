CONSTANTS
    File = {f1, f2, f3}
    MaxBinds = 1
    CanUnbind = FALSE
    CanFail = TRUE
SPECIFICATION Spec
INVARIANT OpensCountsFds
INVARIANT ExitPrivSafe
INVARIANT ExitAloneUnlessInitFailed
PROPERTY ImplementsLifeUnlessFailed
