SPECIFICATION MCSpec
CONSTANTS
    USB_RETRY_LIMIT = 3
    MinPacket = 2
    Sizes <- TwoSizes
    StringHead = 1
    ConfHead = 3
    BigBuf = 8
    Devices <- MCDevices
    Garbage = {0, 1, 9}
    MaxFaults = 4
INVARIANTS
    ReadsArePrefixes
    RunningIsReady
PROPERTY
    EnumerationEnds
