CONSTANTS
    kCheapPrepend = 2
    kInitialSize = 2
    ExtraBufSize = 2
    Bytes <- MCBytes
    MaxLen = 3
    MaxSize = 7
    Ints <- MCInts
    IntWidths <- MCIntWidths
SPECIFICATION Spec
INVARIANT TypeOK
INVARIANT NoAssertionFails
INVARIANT TerminatorSearch
INVARIANT IntsInNetworkOrder
PROPERTY BufferIsByteQueue
