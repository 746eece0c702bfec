SPECIFICATION Spec
CONSTANTS
    one = one
    Base <- MCBase
    BaseStart <- MCBaseStart
    HalfX = 2
    HalfY = 2
    Plane = 32
    enemy_range = 7
    ReachX = 4
    ReachY = 2
    Ship_Center_X = 16
    Ship_Center_Y = 15
INVARIANTS
    StaysOnPlane
    RowFollowsBase
PROPERTY ShotsEnd
