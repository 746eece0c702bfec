SPECIFICATION Spec
CONSTANTS
    one = one
    two = two
    Base <- MCBase
    BaseStart <- BattleStart
    Key <- BattleKey
    HalfX = 1
    HalfY = 1
    ShipHalf = 0
    Plane = 16
    bullet_range = 3
    HitMargin = 1
    enemy_range = 1
    ReachX = 2
    ReachY = 1
    Ship_Center_X = 7
    Ship_Center_Y = 6
PROPERTY HitNeedsBullet
