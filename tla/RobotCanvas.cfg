SPECIFICATION CanvasSpec
CONSTANTS
    RobotIds = {0, 1}
    Places = {0, 2, 5}
    Duration = 3
INVARIANTS
    CanvasTypeOK
    DrawnInPlace
PROPERTIES
    NoJump
    SpritesArrive
CHECK_DEADLOCK FALSE
