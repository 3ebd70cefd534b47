CONSTANTS
    a = a
    b = b
    far = far
    Location <- Everywhere
    WideLocation <- FarAway
    ClickLocation <- OnePlace
    ForeignCommand <- Foreign
    TaskDefinition <- NoTasks
    RobotId <- Robots
    Task = {t1, t2}
    MaxGlobalCommands = 1
    MaxForeign = 2
    MaxLost = 1
    MaxReloads = 1
    MaxRetracted = 1
    NoLocation = NoLocation
    NoTarget = NoTarget
    NaN = NaN
SPECIFICATION SystemSpec
CHECK_DEADLOCK FALSE
INVARIANTS
    BacklogIsUnservedClicks
    HeadsForLastCommand
    LoadingIsExplained
PROPERTY
    EveryClickEnds
