CONSTANTS
    Thread = {t1, t2}
    Cap = 2
    MaxWrites = 2
    Faults = TRUE
    Nobody = Nobody
SPECIFICATION Spec
INVARIANT BufferHoldsMessage
INVARIANT NoLostPoll
PROPERTY ImplementsMailbox
