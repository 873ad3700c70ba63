CONSTANTS
    File = {f1, f2, f3}
    MaxBinds = 2
    CanUnbind = TRUE
    CanFail = TRUE
SPECIFICATION FairSpec
INVARIANT RefcntExact
INVARIANT ExitAlone
INVARIANT OpNeverUsesFreedPriv
INVARIANT NoLostWakeup
PROPERTY UnregisterTerminates
