CONSTANTS
    Bio = {b1, b2}
    Sectors = 2
    Blank = blank
    Nobody = nobody
SPECIFICATION FairSpec
INVARIANT BioHasData
INVARIANT NothingHalfDone
INVARIANT SegmentsWhole
PROPERTY ImplementsLife
PROPERTY BioEnds
PROPERTY LoaderReturns
