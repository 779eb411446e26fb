SPECIFICATION FairSpec
INVARIANTS
    OnCarriageway
    BrakesInLane
PROPERTIES
    LaneChange
    Recovers
