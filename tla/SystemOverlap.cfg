CONSTANTS
    a = a
    b = b
    far = far
    Location <- Everywhere
    WideLocation <- FarAway
    ClickLocation <- OnCanvas
    ForeignCommand <- NoForeign
    TaskDefinition <- NoTasks
    RobotId <- Robots
    Task = {t1, t2, t3}
    MaxGlobalCommands = 2
    MaxForeign = 0
    MaxLost = 0
    MaxReloads = 0
    MaxRetracted = 2
    NoLocation = NoLocation
    NoTarget = NoTarget
    NaN = NaN
SPECIFICATION SystemSpec
CHECK_DEADLOCK FALSE
INVARIANTS
    SystemTypeOK
    OneInPool
    UiPullsSucceed
