CONSTANTS
    Thread = {t1, t2}
SPECIFICATION FairSpec
INVARIANT CallbackFindsMemory
INVARIANT GivesBackExactly
PROPERTY ImplementsLife
PROPERTY BindReturns
