SPECIFICATION MCSpec
CONSTANTS
    hpixels = 9
    vlines = 524
    HVisible = 6
    VVisible = 480
    HSyncFirst = 7
    HSyncEnd = 9
    VSyncFirst = 490
INVARIANT
    SyncOutsidePicture
PROPERTIES
    ResetNeverSampled
    EvenFrames
