SPECIFICATION MCSpec
CONSTANTS
    Keys0 <- SteeringKeys
    Keys1 <- SpeedKeys
    PowerUpAIY <- PowerUp
    KeyChanges = 2
    ReactionTime = 60
    Resets = 1
    MaxFrames = 360
INVARIANTS
    DrawnAtLead
    LanesTogether
    OwnSprite
PROPERTIES
    DriverImplemented
    StatusImplemented
    SeenIsFelt
CHECK_DEADLOCK FALSE
