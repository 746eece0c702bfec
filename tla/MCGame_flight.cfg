SPECIFICATION Spec
CONSTANTS
    one = one
    two = two
    Base <- MCBase
    BaseStart <- FlightStart
    Key <- FlightKey
    HalfX = 1
    HalfY = 1
    ShipHalf = 0
    Plane = 7
    bullet_range = 1
    HitMargin = 1
    enemy_range = 1
    ReachX = 0
    ReachY = 0
    Ship_Center_X = 3
    Ship_Center_Y = 3
INVARIANTS
    BasesRigid
    SceneInStep
