SPECIFICATION FairSpec
CONSTANTS
    Car_X_Init = 150
    Car_X_Min = 145
    Car_X_Max = 203
    Car_XSize = 47
    Car_Y_Init = 315
    Car_Y_Min = 0
    Car_Y_Max = 479
    Car_YSize = 67
    DistanceSpan = 1
    Keys0 <- SteeringKeys
    Keys1 <- SpeedKeys
INVARIANTS
    OnScreen
    OnRoad
PROPERTIES
    PinnedForever
    Settles
