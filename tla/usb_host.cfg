SPECIFICATION MCSpec
CONSTANTS
    USB_NUMDEVICES = 4
    Kinds <- AllKinds
    MaxChanges = 4
    MaxFaults = 1
INVARIANTS
    SpeaksAfterReset
    NoNullEpinfo
    RunningDevice
    LoopFlags
PROPERTY
    KeyboardWorks
