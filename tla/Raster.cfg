SPECIFICATION RasterSpec
CONSTANTS
    hpixels = 799
    vlines = 524
    HSyncFirst = 656
    HSyncEnd = 752
    VSyncFirst = 490
    VSyncLast = 491
    ShipTop = 233
    ShipBottom = 247
INVARIANTS
    HSyncAligned
PROPERTIES
    RasterIsBeam
    FramesForever
