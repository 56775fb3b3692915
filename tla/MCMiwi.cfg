\* One board sends, every residue: two messages waiting, two tries.
CONSTANTS
    Boards = {a, b}
    Senders = {a}
    Wrap = 2
    lim_max = 2
    BANK_SIZE = 2
    MaxQueue = 2
    Residue = {"whole", "cut", "junk"}
SPECIFICATION Spec
INVARIANT LimitOfFirst
PROPERTY DroppedAfterAllTries
PROPERTY KeptUntilTaken
PROPERTY FirstLeaves
