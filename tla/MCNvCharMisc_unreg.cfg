CONSTANTS
    File = {f1, f2, f3}
    MaxBinds = 2
    CanUnbind = TRUE
    CanFail = TRUE
    NoFile = none
    AfterWarning = FALSE
SPECIFICATION MiscFairSpec
INVARIANT DrainedMeansClosed
INVARIANT CallbackHasPriv
PROPERTY ImplementsLife
PROPERTY UnregisterTerminates
PROPERTY OpenReturns
