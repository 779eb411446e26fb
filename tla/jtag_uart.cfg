SPECIFICATION FairSpec
CONSTANTS
    BufLen = 3
    DefaultTimeout = 2
    IntMax = 4
    FifoLen = 2
    Threshold = 1
    Counts = {3}
    Timeouts = {0}
    Stamps = 10
    MaxOut = 5
    MaxIn = 3
INVARIANTS
    StaleIsSafe
    Armed
PROPERTIES
    BytesInOrder
    CallsEnd
