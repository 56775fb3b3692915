\* Both boards: four nodes, numbers 1 and 2.
CONSTANTS
    Nodes = {n1, n2, n3, n4}
    NULL = NULL
    Wrap = 2
SPECIFICATION Spec
INVARIANTS
    ListIsOrder
    NoDangling
    HeadWaits
PROPERTY IsQueue
