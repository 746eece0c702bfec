SPECIFICATION Spec
CONSTANTS
    bullet_range = 120
    Ship_Center_X = 320
    Ship_Center_Y = 240
    Plane = 1024
    HitMargin = 5
INVARIANTS
    NoRelaunchInFlight
    WithinRange
    NoPhantomHit
PROPERTY ShotEnds
