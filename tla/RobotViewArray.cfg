CONSTANTS
    Target <- HitTargets
    GroupPosition = {0, 3}
    MaxSpeed = 5
    MaxBoidSpeed = 4
    VisionRadius = 4
    SepRadius = 2
    StoppingDist = 5
    MaxFrames = 2
    MaxRobots = 2
    MaxMoves = 1
    NoTarget = NoTarget
    NaN = NaN
    Broken = Broken
SPECIFICATION ViewSpec
CHECK_DEADLOCK FALSE
INVARIANT RobotsIsArray
