CONSTANTS
    Thread = {t1, t2}
    Cap = 1
    MaxWrites = 2
    Faults = TRUE
    Nobody = Nobody
SPECIFICATION FairSpec
PROPERTY PollReturns
PROPERTY CallReturns
