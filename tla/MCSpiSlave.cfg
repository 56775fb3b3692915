\* Writes and reads of three bits a byte, any of which a reset may cut short, and
\* an input that changes all the time.
SPECIFICATION SlaveSpec
CONSTANTS
    W = 3
    A_Led70 <- Led70Address
    A_Blue <- BlueAddress
    A_Status <- StatusAddress
    Values <- BytesWritten
    Inputs <- BytesOfStatus
    Resets = TRUE
INVARIANTS WritesArrive OnePixel WholeReads
PROPERTY NothingHalf
