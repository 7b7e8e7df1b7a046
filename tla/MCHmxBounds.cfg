SPECIFICATION Spec
CONSTANTS
    HmxTile = 8
    Junk = 1000
    Trips = {0}
    Programs <- TilesBeyond
    Bases = {0}
INVARIANT
    UnpackStaysInBounds
CHECK_DEADLOCK FALSE
