\* The delays keep their order, not their ratios.
CONSTANTS
    Short = 1
    Timeout = 2
    Blink = 3
    Jump = 4
    Long = 8
SPECIFICATION FairSpec
INVARIANTS
    WorksAsOwner
    FlagTellsOwner
PROPERTIES
    SomeonePlays
