\* Images of three rows, sent two by two: the last batch is a part of one; some
\* files have a row less; one show after the first.
CONSTANTS
    Height = 3
    Heights = {2, 3}
    MULT_BUF = 2
    MAX_NUM = 1
    MaxShows = 1
SPECIFICATION FairSpec
INVARIANTS
    NothingKept
    LoadedIsInMemory
PROPERTIES
    ShowEnds
